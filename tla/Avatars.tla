-------------------------------- MODULE Avatars --------------------------------
(***************************************************************************)
(* Pictures of administrators, employees and clients: a file in            *)
(* public/avatars and the column that names it, which the handlers that    *)
(* take a picture change one after the other, in different orders.  The    *)
(* rows of clients and employees come and go with their handlers; of       *)
(* everything else in a row only matters whether the database refuses it.  *)
(*                                                                         *)
(* The interceptor stores an uploaded file under a new name before the     *)
(* handler begins: the request stands for the file.  A file that was there *)
(* at first is called like its owner.                                      *)
(***************************************************************************)
EXTENDS Calls, FiniteSets

CONSTANTS
  Admins, Employees, Clients,  \* ids; rows are created under new ones
  Pictured,                    \* those with a picture at first, in turn
  Null, Absent                 \* no file; no row

Owners == Admins \cup Employees \cup Clients
Files  == Owners \cup Requests

Creates == {"createEmployee", "createClient"}
Edits   == {"editAdmin", "editEmployee", "editClient"}
Uploads == {"uploadAdmin", "uploadEmployee"}
Removes == {"removeEmployee", "removeClient"}
Ops     == Creates \cup Edits \cup Uploads \cup Removes

\* "file": a file is uploaded; "null": avatar_url is the text 'null'; "keep":
\* neither.  "foreign": the row is one of another organization.
ASSUME AvatarsAssumption ==
  /\ {Null, Absent} \cap Files = {}
  /\ Null # Absent
  /\ Owners \cap Requests = {}
  /\ Pictured \subseteq SUBSET Owners
  /\ \A c \in Casts : \A r \in Requests :
       /\ c[r].op \in Ops
       /\ c[r].owner \in Owners
       /\ c[r].image \in {"file", "null", "keep"}
       /\ c[r].foreign \in BOOLEAN
       /\ c[r].op \in Removes => c[r].image # "file"
       /\ c[r].op \in Creates =>
            /\ ~ c[r].foreign
            /\ \A s \in Requests \ {r} : c[s].op \in Creates => c[s].owner # c[r].owner

VARIABLES
  avatar,    \* columns avatar_url and avatar: a file, Null, or Absent
  files,     \* the directory public/avatars
  invoiced,  \* clients with an invoice that has items
  old,       \* the local of a request: the file that it read from the row
  unlinked,  \* history: the requests that have deleted that file
  spared,    \* history: those whose unlink threw, which nobody noticed
  wrote      \* history: the requests that have changed or removed the row

avatarVars == <<avatar, files, invoiced, old, unlinked, spared, wrote>>
vars       == <<avatarVars, callVars>>

Awaits == {"guard", "store", "find", "check", "unlink", "update", "insert",
           "delete", "read_back"}

\* A row that some request is to create is not there yet; some of the others have
\* a picture.
AvatarsInit ==
  /\ \E withPicture \in Pictured :
       avatar = [o \in Owners |->
                   IF \E r \in Requests : call[r].op \in Creates /\ call[r].owner = o
                   THEN Absent
                   ELSE IF o \in withPicture THEN o ELSE Null]
  /\ files = {o \in Owners : avatar[o] = o}
  /\ invoiced = {}
  /\ old = [r \in Requests |-> Null]
  /\ unlinked = {}
  /\ spared = {}
  /\ wrote = {}

Owner(r) == call[r].owner
Row(r)   == avatar[call[r].owner]

\* The guard of POST administrators/avatar loads the row that the handler uses.
Entry == [op \in Ops |-> CASE op = "uploadAdmin" -> "guard"
                           [] op \in Removes     -> "find"
                           [] OTHER              -> "store"]

Begin(r) ==
  /\ Start(r, Entry[call[r].op])
  /\ UNCHANGED avatarVars

Guard(r) ==
  /\ GoTo(r, "guard", "store")
  /\ old' = [old EXCEPT ![r] = Row(r)]
  /\ UNCHANGED <<avatar, files, invoiced, unlinked, spared, wrote>>

\* FileInterceptor with diskStorage.  Nothing takes the file away again when the
\* handler refuses the request.
StoreFile(r) ==
  /\ \/ call[r].op = "uploadAdmin" /\ GoTo(r, "store", "update")
     \/ call[r].op \in Creates /\ GoTo(r, "store", "check")
     \/ call[r].op \in Edits \cup {"uploadEmployee"} /\ GoTo(r, "store", "find")
  /\ files' = IF call[r].image = "file" THEN files \cup {r} ELSE files
  /\ UNCHANGED <<avatar, invoiced, old, unlinked, spared, wrote>>

-----------------------------------------------------------------------------
(* Creating a row.                                                         *)

\* Wallet, e-mail or the validity of an address speak against it, or not.
Check(r) ==
  /\ GoTo(r, "check", "insert") \/ GoTo(r, "check", "refused")
  /\ UNCHANGED avatarVars

\* save answers with what it has inserted, insert only with the id.
Insert(r) ==
  /\ \/ GoTo(r, "insert", "ok") /\ call[r].op = "createEmployee"
     \/ GoTo(r, "insert", "read_back") /\ call[r].op = "createClient"
  /\ avatar' = [avatar EXCEPT ![Owner(r)] = IF call[r].image = "file" THEN r ELSE Null]
  /\ wrote' = wrote \cup {r}
  /\ UNCHANGED <<files, invoiced, old, unlinked, spared>>

-----------------------------------------------------------------------------
(* Changing and removing a row.                                            *)

\* Mutant: only an edit that takes the picture away deletes the file.
MustUnlink_NullOnly(r, seen) == call[r].image = "null" /\ seen # Null

\* What the handlers of an edit compare the body with.
MustUnlink(r, seen) ==
  \/ call[r].image = "null" /\ seen # Null
  \/ call[r].image = "file"

\* findOne, and what becomes of a row that is not found: findById of POST
\* employee/avatar goes on without, the edit of an employee stumbles over it,
\* the others answer with the exception they should throw.  Only the edit of an
\* employee asks for the organization here.
Find(r) ==
  /\ old' = [old EXCEPT ![r] = Row(r)]
  /\ \/ /\ call[r].op = "uploadEmployee"
        /\ GoTo(r, "find", "update")
     \/ /\ call[r].op = "editEmployee"
        /\ Row(r) = Absent \/ call[r].foreign
        /\ GoTo(r, "find", "failed")
     \/ /\ call[r].op \in {"editClient"} \cup Removes
        /\ Row(r) = Absent
        /\ GoTo(r, "find", "refused")
     \/ /\ call[r].op \in Edits
        /\ Row(r) # Absent
        /\ ~ (call[r].op = "editEmployee" /\ call[r].foreign)
        /\ GoTo(r, "find", IF MustUnlink(r, Row(r)) THEN "unlink" ELSE "update")
     \/ /\ call[r].op \in Removes
        /\ Row(r) # Absent
        /\ GoTo(r, "find", IF Row(r) # Null THEN "unlink" ELSE "delete")
  /\ UNCHANGED <<avatar, files, invoiced, unlinked, spared, wrote>>

\* Edits and removals delete the file first, uploads last.
AfterUnlink(r) ==
  \/ call[r].op \in Edits /\ GoTo(r, "unlink", "update")
  \/ call[r].op \in Removes /\ GoTo(r, "unlink", "delete")
  \/ call[r].op \in Uploads /\ old[r] # Absent /\ GoTo(r, "unlink", "ok")

\* Mutant: the file on the row by now is deleted, not the one that was read.
Unlink_Current(r) ==
  /\ AfterUnlink(r)
  /\ files' = files \ {Row(r)}
  /\ unlinked' = unlinked \cup {r}
  /\ UNCHANGED <<avatar, invoiced, old, spared, wrote>>

\* deleteFileName, of the file that was read.  It catches every exception of
\* unlink and says nothing: the file may stay, and the request goes on.  So may
\* MaxFaults of the files, to keep the model small.
Unlink(r) ==
  /\ AfterUnlink(r)
  /\ \/ /\ files' = files \ {old[r]}
        /\ unlinked' = unlinked \cup {r}
        /\ UNCHANGED spared
     \/ /\ Cardinality(spared) < MaxFaults
        /\ spared' = spared \cup {r}
        /\ UNCHANGED <<files, unlinked>>
  /\ UNCHANGED <<avatar, invoiced, old, wrote>>

\* The upload of an employee's picture stumbles over a row that was not found
\* when it comes to the old file.
UnlinkNothing(r) ==
  /\ call[r].op = "uploadEmployee"
  /\ old[r] = Absent
  /\ GoTo(r, "unlink", "failed")
  /\ UNCHANGED avatarVars

\* Mutant: the text 'null' of the body is stored as it came.
NewAvatar_AsText(r) ==
  CASE call[r].image = "file" -> r
    [] call[r].image = "keep" /\ call[r].op \in Edits -> old[r]
    [] call[r].image = "null" -> call[r].image
    [] OTHER -> Null

\* What an update sets: totalAvatar of an edit, which is the file that was read
\* when the body says nothing; an upload without a file sets NULL.
NewAvatar(r) ==
  CASE call[r].image = "file" -> r
    [] call[r].image = "keep" /\ call[r].op \in Edits -> old[r]
    [] OTHER -> Null

\* The rows that match: edits of clients and uploads for employees ask for the
\* organization too.
Update(r) ==
  /\ GoTo(r, "update", IF call[r].op \in Uploads THEN "unlink" ELSE "read_back")
  /\ IF Row(r) = Absent \/ call[r].foreign
     THEN UNCHANGED <<avatar, wrote>>
     ELSE /\ avatar' = [avatar EXCEPT ![Owner(r)] = NewAvatar(r)]
          /\ wrote' = wrote \cup {r}
  /\ UNCHANGED <<files, invoiced, old, unlinked, spared>>

\* The items of an invoice do not let their client go (and nothing cascades to
\* them).
Delete(r) ==
  /\ IF call[r].op = "removeClient" /\ Owner(r) \in invoiced
     THEN /\ GoTo(r, "delete", "failed")
          /\ UNCHANGED <<avatar, wrote>>
     ELSE /\ GoTo(r, "delete", "ok")
          /\ avatar' = [avatar EXCEPT ![Owner(r)] = Absent]
          /\ wrote' = IF Row(r) = Absent THEN wrote ELSE wrote \cup {r}
  /\ UNCHANGED <<files, invoiced, old, unlinked, spared>>

\* The row for the answer; an edit of a client fails without it.
ReadBack(r) ==
  /\ GoTo(r, "read_back", IF call[r].op = "editClient" /\ Row(r) = Absent
                          THEN "failed" ELSE "ok")
  /\ UNCHANGED avatarVars

\* An invoice with items is created for a client.
Invoice(o) ==
  /\ avatar[o] # Absent /\ o \notin invoiced
  /\ invoiced' = invoiced \cup {o}
  /\ UNCHANGED <<avatar, files, old, unlinked, spared, wrote, callVars>>

\* An awaited call throws; of unlink nobody would know.
Fail(r) ==
  /\ pc[r] # "unlink"
  /\ FailAt(r)
  /\ UNCHANGED avatarVars

\* The process ends, and with it every request that it has begun.
Die ==
  /\ faults < MaxFaults
  /\ faults' = faults + 1
  /\ pc' = [r \in Requests |->
              IF pc[r] \in {"new"} \cup Answers THEN pc[r] ELSE "failed"]
  /\ UNCHANGED <<call, before, avatarVars>>

-----------------------------------------------------------------------------
Init == CallsInit /\ AvatarsInit

Next == \/ \E r \in Requests :
             \/ Begin(r)
             \/ Guard(r)
             \/ StoreFile(r)
             \/ Check(r)
             \/ Insert(r)
             \/ Find(r)
             \/ Unlink(r)
             \/ UnlinkNothing(r)
             \/ Update(r)
             \/ Delete(r)
             \/ ReadBack(r)
             \/ Fail(r)
        \/ \E o \in Clients : Invoice(o)
        \/ Die

Spec == Init /\ [][Next]_vars

-----------------------------------------------------------------------------
(* Properties.                                                             *)

TypeOK ==
  /\ call \in Casts
  /\ pc \in [Requests -> {"new"} \cup Awaits \cup Answers]
  /\ before \in [Requests -> SUBSET Requests]
  /\ faults \in 0 .. MaxFaults
  /\ avatar \in [Owners -> Files \cup {Null, Absent}]
  /\ files \subseteq Files
  /\ invoiced \subseteq Clients
  /\ old \in [Requests -> Files \cup {Null, Absent}]
  /\ unlinked \subseteq Requests
  /\ spared \subseteq Requests
  /\ wrote \subseteq Requests

\* A row names a file that is gone only when a request deleted it that is about
\* to change the row, failed before it could, or changed no row because it was
\* that of another organization; or when an edit that overlapped the request
\* kept the picture and wrote its name back.
DanglingExplained ==
  \A o \in Owners : avatar[o] \in Files \ files =>
    \E r \in unlinked :
      /\ Owner(r) = o
      /\ old[r] = avatar[o]
      /\ \/ r \notin wrote /\ \/ pc[r] \in {"update", "delete"}
                              \/ pc[r] = "failed" /\ (faults > 0 \/ o \in invoiced)
                              \/ call[r].foreign
         \/ \E k \in wrote \ {r} : /\ Owner(k) = o
                                   /\ call[k].image = "keep"
                                   /\ old[k] = avatar[o]
                                   /\ Overlap(k, r)

Named(f) == \E o \in Owners : avatar[o] = f

\* A file that no row names belongs to a request that has not changed its row;
\* or it was replaced by one that has not deleted it yet, that died before it
\* could, or whose unlink threw; or by one that overlapped the request of the
\* file and knew another one.
LeakExplained ==
  \A f \in files : ~ Named(f) =>
    \/ f \in Requests \ wrote
    \/ \E k \in wrote \ unlinked :
         old[k] = f /\ (pc[k] \in {"unlink", "failed"} \/ k \in spared)
    \/ \E k \in wrote : /\ f \in Requests \ {k}
                        /\ Owner(k) = Owner(f)
                        /\ old[k] # f
                        /\ Overlap(k, f)

================================================================================

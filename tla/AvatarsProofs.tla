----------------------------- MODULE AvatarsProofs -----------------------------
(* Avatars, for every set of owners and requests, whatever requests are    *)
(* made together: which names lead nowhere and which files nobody names.   *)
EXTENDS Avatars, TLAPS

Labels == {"new"} \cup Awaits \cup Answers

\* Every step is one of these, the arrival of an invoice, or the end of the process.
Step(r) == \/ Begin(r)
           \/ Guard(r)
           \/ StoreFile(r)
           \/ Check(r)
           \/ Insert(r)
           \/ Find(r)
           \/ Unlink(r)
           \/ UnlinkNothing(r)
           \/ Update(r)
           \/ Delete(r)
           \/ ReadBack(r)
           \/ Fail(r)

-----------------------------------------------------------------------------
(* Types, and which request can be where.                                  *)

\* Where a request is when it has written or deleted something, and what it has
\* done when it is somewhere.
Fits(r) ==
  /\ pc[r] = "guard" => call[r].op = "uploadAdmin"
  /\ pc[r] = "store" => call[r].op \notin Removes
  /\ pc[r] \in {"check", "insert"} => call[r].op \in Creates
  /\ pc[r] = "find" => call[r].op \in Edits \cup Removes \cup {"uploadEmployee"}
  /\ pc[r] = "update" => call[r].op \in Edits \cup Uploads
  /\ pc[r] = "delete" => call[r].op \in Removes
  /\ pc[r] = "unlink" => call[r].op \notin Creates
  /\ pc[r] = "read_back" => call[r].op \in Creates \cup Edits
  /\ r \in wrote => /\ pc[r] \in {"unlink", "read_back"} \cup Answers
                    /\ pc[r] = "unlink" => call[r].op \in Uploads
                    /\ call[r].op \in Removes => pc[r] = "ok"
  /\ r \in unlinked => /\ pc[r] \in {"update", "delete", "read_back"} \cup Answers
                       /\ call[r].op \notin Creates
                       /\ call[r].op \in Uploads => pc[r] \in Answers
                       /\ call[r].op \in Edits => call[r].image # "keep"
  /\ r \in spared => /\ pc[r] \in {"update", "delete", "read_back"} \cup Answers
                     /\ call[r].op \in Uploads => pc[r] \in Answers
  /\ pc[r] = "unlink" /\ call[r].op \in Edits => MustUnlink(r, old[r])
  /\ pc[r] = "update" /\ call[r].op \in Edits /\ MustUnlink(r, old[r]) =>
       r \in unlinked \cup spared
  /\ pc[r] = "delete" /\ old[r] # Null => r \in unlinked \cup spared
  /\ call[r].op \in Creates \/ pc[r] = "new" => old[r] = Null

\* The entry await of each operation.
LEMMA Begins ==
  ASSUME NEW r \in Requests, call[r].op \in Ops
  PROVE  \/ call[r].op = "uploadAdmin" /\ Entry[call[r].op] = "guard"
         \/ call[r].op \in Removes /\ Entry[call[r].op] = "find"
         \/ /\ call[r].op \in Creates \cup Edits \cup {"uploadEmployee"}
            /\ Entry[call[r].op] = "store"
BY DEF Entry, Ops, Creates, Edits, Uploads, Removes

\* A request moves on, and before is written when it begins.
LEMMA Moves ==
  ASSUME TypeOK, NEW r \in Requests, Fits(r), Step(r)
  PROVE  /\ call' = call
         /\ pc' \in [Requests -> Labels]
         /\ \A s \in Requests \ {r} : pc'[s] = pc[s]
         /\ pc'[r] # "new"
         /\ pc[r] \notin Answers
         /\ before' = IF pc[r] = "new" THEN [before EXCEPT ![r] = Answered] ELSE before
         /\ faults' \in 0 .. MaxFaults
         /\ faults > 0 => faults' > 0
         /\ UNCHANGED invoiced
<1>1. pc \in [Requests -> Labels] /\ faults \in 0 .. MaxFaults /\ call[r].op \in Ops
  BY AvatarsAssumption DEF TypeOK, Labels
<1> USE <1>1, MaxFaultsAssumption
        DEF Labels, Awaits, Answers, GoTo, Start, Fail, FailAt, avatarVars
<1>2. CASE Begin(r)
  BY <1>2, Begins DEF Begin
<1>3. CASE Guard(r) \/ StoreFile(r) \/ Check(r) \/ Insert(r)
  BY <1>3 DEF Guard, StoreFile, Check, Insert
<1>4. CASE Find(r)
  BY <1>4 DEF Find
<1>5. CASE Unlink(r) \/ UnlinkNothing(r) \/ Update(r) \/ ReadBack(r)
  BY <1>5 DEF Unlink, AfterUnlink, UnlinkNothing, Update, ReadBack
<1>6. CASE Delete(r)
  BY <1>6 DEF Delete
<1>7. CASE Fail(r)
  BY <1>7
<1>8. QED
  BY <1>2, <1>3, <1>4, <1>5, <1>6, <1>7 DEF Step

\* What a step does to rows, files and history, by its kind: it reads, stores,
\* writes, deletes a file, fails to, or does nothing of this.
Reads(r) ==
  /\ \/ pc[r] = "guard" /\ pc'[r] = "store"
     \/ pc[r] = "find"
  /\ old' = [old EXCEPT ![r] = Row(r)]
  /\ UNCHANGED <<avatar, files, unlinked, spared, wrote>>

Stores(r) ==
  /\ pc[r] = "store"
  /\ files' = IF call[r].image = "file" THEN files \cup {r} ELSE files
  /\ UNCHANGED <<avatar, old, unlinked, spared, wrote>>

Writes(r) ==
  /\ \/ /\ pc[r] = "insert"
        /\ avatar' = [avatar EXCEPT ![Owner(r)] = IF call[r].image = "file" THEN r ELSE Null]
     \/ /\ pc[r] = "update" /\ Row(r) # Absent
        /\ call[r].op \in Uploads => pc'[r] = "unlink"
        /\ avatar' = [avatar EXCEPT ![Owner(r)] = NewAvatar(r)]
     \/ /\ pc[r] = "delete" /\ Row(r) # Absent
        /\ avatar' = [avatar EXCEPT ![Owner(r)] = Absent]
  /\ wrote' = wrote \cup {r}
  /\ UNCHANGED <<files, old, unlinked, spared>>

Unlinks(r) ==
  /\ pc[r] = "unlink"
  /\ call[r].op \notin Uploads => pc'[r] \in {"update", "delete"}
  /\ files' = files \ {old[r]}
  /\ unlinked' = unlinked \cup {r}
  /\ UNCHANGED <<avatar, old, spared, wrote>>

Spares(r) ==
  /\ pc[r] = "unlink" /\ pc'[r] # "unlink"
  /\ spared' = spared \cup {r}
  /\ UNCHANGED <<avatar, files, old, unlinked, wrote>>

Rests(r) ==
  /\ pc[r] \in {"guard", "store", "find", "insert", "unlink"} => pc'[r] = "failed"
  /\ pc[r] \in {"update", "delete"} =>
       \/ pc'[r] = "failed" /\ (faults' > 0 \/ Owner(r) \in invoiced)
       \/ call[r].foreign
       \/ Row(r) = Absent
  /\ UNCHANGED <<avatar, files, old, unlinked, spared, wrote>>

\* Every step is of one of these kinds.
LEMMA Kinds ==
  ASSUME TypeOK, NEW r \in Requests, Fits(r), Step(r)
  PROVE  Reads(r) \/ Stores(r) \/ Writes(r) \/ Unlinks(r) \/ Spares(r) \/ Rests(r)
<1>1. /\ pc \in [Requests -> Labels] /\ faults \in 0 .. MaxFaults /\ call[r].op \in Ops
      /\ avatar \in [Owners -> Files \cup {Null, Absent}]
      /\ call[r].owner \in Owners
  BY AvatarsAssumption DEF TypeOK, Labels
<1> USE <1>1, MaxFaultsAssumption
        DEF Labels, Awaits, Answers, GoTo, Start, Fail, FailAt, avatarVars, Row, Owner
<1>2. CASE Begin(r)
  BY <1>2, Begins DEF Begin, Rests
<1>3. CASE Guard(r)
  BY <1>3 DEF Guard, Reads
<1>4. CASE StoreFile(r)
  BY <1>4 DEF StoreFile, Stores
<1>5. CASE Check(r) \/ ReadBack(r)
  BY <1>5 DEF Check, ReadBack, Rests
<1>6. CASE Insert(r)
  BY <1>6 DEF Insert, Writes
<1>7. CASE Find(r)
  BY <1>7 DEF Find, Reads
<1>8. CASE Unlink(r)
  BY <1>8 DEF Unlink, AfterUnlink, Unlinks, Spares, Uploads
<1>9. CASE Update(r)
  <2>1. CASE Row(r) = Absent \/ call[r].foreign
    BY <1>9, <2>1 DEF Update, Rests
  <2>2. CASE ~ (Row(r) = Absent \/ call[r].foreign)
    BY <1>9, <2>2 DEF Update, Writes
  <2>3. QED
    BY <2>1, <2>2
<1>10. CASE Delete(r)
  <2>1. CASE call[r].op = "removeClient" /\ Owner(r) \in invoiced
    BY <1>10, <2>1 DEF Delete, Rests
  <2>2. CASE ~ (call[r].op = "removeClient" /\ Owner(r) \in invoiced) /\ Row(r) = Absent
    BY <1>10, <2>2 DEF Delete, Rests
  <2>3. CASE ~ (call[r].op = "removeClient" /\ Owner(r) \in invoiced) /\ Row(r) # Absent
    BY <1>10, <2>3 DEF Delete, Writes
  <2>4. QED
    BY <2>1, <2>2, <2>3
<1>11. CASE Fail(r) \/ UnlinkNothing(r)
  BY <1>11 DEF Rests, Fail, UnlinkNothing
<1>12. QED
  BY <1>2, <1>3, <1>4, <1>5, <1>6, <1>7, <1>8, <1>9, <1>10, <1>11 DEF Step

-----------------------------------------------------------------------------
(* What the rows, the files and the locals of the requests have to do with *)
(* each other.                                                             *)

FileOwner(f) == IF f \in Requests THEN Owner(f) ELSE f

\* A name on a row, or one that was read there, is that of the file of the owner:
\* the first one, or one that came with a request that has written.
Belongs(f, o) == f \in Files => /\ FileOwner(f) = o
                                /\ f \in Requests => f \in wrote /\ call[f].image = "file"

Names ==
  /\ \A o \in Owners : Belongs(avatar[o], o)
  /\ \A k \in Requests : Belongs(old[k], Owner(k)) /\ old[k] # k

\* The file of a request is there from its arrival to the change of the row.
Stored ==
  \A r \in Requests :
    /\ r \in files => call[r].image = "file" /\ pc[r] \notin {"new", "guard", "store"}
    /\ /\ call[r].image = "file" /\ r \notin wrote
       /\ pc[r] \in {"check", "insert", "find", "unlink", "update"}
       => r \in files

\* Nobody knows a row that is yet to be created.
Unborn ==
  \A r \in Requests \ wrote : call[r].op \in Creates =>
    /\ avatar[Owner(r)] = Absent
    /\ \A k \in Requests : Owner(k) = Owner(r) => k \notin wrote /\ old[k] \notin Files

\* A file that was deleted stays so, and somebody has deleted a file that is gone.
Seen(f) == \/ \E o \in Owners : avatar[o] = f
           \/ \E k \in Requests : old[k] = f

Gone ==
  /\ \A k \in unlinked : old[k] \notin files
  /\ \A f \in Files \ files : Seen(f) => \E u \in unlinked : old[u] = f

\* Why a request that has deleted the file, or is about to, has not changed the row.
Waits(r) == \/ pc[r] \in {"update", "delete"}
            \/ pc[r] = "failed" /\ (faults > 0 \/ Owner(r) \in invoiced)
            \/ call[r].foreign
            \/ avatar[Owner(r)] = Absent

Unchanged ==
  \A r \in Requests \ wrote :
    /\ r \in unlinked \/ (call[r].op \in Uploads /\ pc[r] = "unlink")
    /\ old[r] \in Files
    => Waits(r)

\* An edit that keeps the picture writes back what it has read.  The name that
\* another request has replaced comes back only with an edit that overlaps it.
Keeps(k) == call[k].op \in Edits /\ call[k].image = "keep"

Back(r) == \E k \in wrote \ {r} : /\ Owner(k) = Owner(r)
                                  /\ call[k].image = "keep"
                                  /\ old[k] = old[r]
                                  /\ Overlap(k, r)

CameBack ==
  \A r \in wrote : ~ Keeps(r) /\ old[r] \in Files =>
    /\ avatar[Owner(r)] = old[r] => Back(r)
    /\ \A k \in Requests : Keeps(k) /\ r \in before[k] /\ old[k] = old[r] => Back(r)

\* A request that will change the row, or has, knows the file on it if that was
\* there when the request began.
Knows(k) ==
  /\ call[k].op \notin Creates
  /\ \/ k \in wrote
     \/ pc[k] \in {"unlink", "update", "delete"}
     \/ call[k].op = "uploadAdmin" /\ pc[k] = "store"

Current(f) ==
  /\ avatar[FileOwner(f)] = f
  /\ \A k \in Requests :
       Knows(k) /\ Owner(k) = FileOwner(f) /\ (f \in Requests => f \in before[k])
       => old[k] = f

Replacing(f) ==
  \E k \in wrote \ unlinked : old[k] = f /\ (pc[k] \in {"unlink", "failed"} \/ k \in spared)

Unaware(f) ==
  \E k \in wrote : /\ f \in Requests \ {k}
                   /\ Owner(k) = Owner(f)
                   /\ old[k] # f
                   /\ Overlap(k, f)

Kept == \A f \in files : f \in Requests \ wrote \/ Current(f) \/ Replacing(f) \/ Unaware(f)

AllFit == \A r \in Requests : Fits(r) /\ before[r] \subseteq Answered

IInv == TypeOK /\ AllFit /\ Names /\ Stored /\ Unborn /\ Gone /\ Unchanged /\ CameBack /\ Kept

-----------------------------------------------------------------------------
(* Every step keeps the types and the places.                              *)

Values == Files \cup {Null, Absent}

\* A step of r leaves what the other requests have read and done.
LEMMA Others ==
  ASSUME TypeOK, NEW r \in Requests, Fits(r), Step(r), NEW s \in Requests \ {r}
  PROVE  /\ old'[s] = old[s] /\ pc'[s] = pc[s] /\ before'[s] = before[s]
         /\ s \in wrote' <=> s \in wrote
         /\ s \in unlinked' <=> s \in unlinked
         /\ s \in spared' <=> s \in spared
         /\ s \in files' => s \in files
<1>1. /\ pc'[s] = pc[s] /\ before'[s] = before[s]
  BY Moves DEF TypeOK
<1>2. /\ old'[s] = old[s]
      /\ s \in wrote' <=> s \in wrote
      /\ s \in unlinked' <=> s \in unlinked
      /\ s \in spared' <=> s \in spared
      /\ s \in files' => s \in files
  BY Kinds DEF TypeOK, Reads, Stores, Writes, Unlinks, Spares, Rests
<1>3. QED
  BY <1>1, <1>2

\* Every step keeps the types.
LEMMA Typed ==
  ASSUME TypeOK, NEW r \in Requests, Fits(r), Step(r)
  PROVE  TypeOK'
<1>1. /\ call' \in Casts /\ pc' \in [Requests -> {"new"} \cup Awaits \cup Answers]
      /\ before' \in [Requests -> SUBSET Requests]
      /\ faults' \in 0 .. MaxFaults /\ invoiced' \subseteq Clients
  BY Moves DEF TypeOK, Labels, Answered
<1>2. /\ call[r].owner \in Owners /\ r \in Files
      /\ Row(r) \in Values /\ old[r] \in Values /\ NewAvatar(r) \in Values
  BY AvatarsAssumption DEF TypeOK, Files, Row, NewAvatar, Values
<1>3. avatar' \in [Owners -> Values]
  BY <1>2, Kinds DEF TypeOK, Reads, Stores, Writes, Unlinks, Spares, Rests, Owner, Values
<1>4. old' \in [Requests -> Values]
  BY <1>2, Kinds DEF TypeOK, Reads, Stores, Writes, Unlinks, Spares, Rests, Values
<1>5. /\ files' \subseteq Files /\ unlinked' \subseteq Requests
      /\ spared' \subseteq Requests /\ wrote' \subseteq Requests
  BY <1>2, Kinds DEF TypeOK, Reads, Stores, Writes, Unlinks, Spares, Rests
<1>6. QED
  BY <1>1, <1>3, <1>4, <1>5 DEF TypeOK, Values

\* The request that steps is again where it can be.
LEMMA Fitting ==
  ASSUME TypeOK, NEW r \in Requests, Fits(r), Step(r)
  PROVE  Fits(r)'
<1>1. /\ pc \in [Requests -> Labels] /\ call[r].op \in Ops /\ r \in DOMAIN pc
      /\ old \in [Requests -> Files \cup {Null, Absent}]
      /\ call[r].op \in Creates => call[r].op \notin Edits \cup Uploads \cup Removes
      /\ call[r].op \in Edits => call[r].op \notin Uploads \cup Removes
      /\ call[r].op \in Uploads => call[r].op \notin Removes
      /\ Null # Absent
  BY AvatarsAssumption DEF TypeOK, Labels, Ops, Creates, Edits, Uploads, Removes
<1>2. /\ "uploadAdmin" \in Uploads /\ "uploadEmployee" \in Uploads
      /\ "editEmployee" \in Edits /\ "editClient" \in Edits
      /\ "createEmployee" \in Creates /\ "createClient" \in Creates
      /\ "removeClient" \in Removes
      /\ Ops = Creates \cup Edits \cup Uploads \cup Removes
  BY DEF Ops, Creates, Edits, Uploads, Removes
<1> HIDE DEF Ops, Creates, Edits, Uploads, Removes
<1> USE <1>1, <1>2
<1> USE DEF Fits, GoTo, Start, avatarVars, Answers
<1>3. CASE Begin(r)
  BY <1>3, Begins DEF Begin
<1>4. CASE Guard(r)
  BY <1>4 DEF Guard
<1>5. CASE StoreFile(r)
  BY <1>5 DEF StoreFile
<1>6. CASE Check(r) \/ ReadBack(r)
  BY <1>6 DEF Check, ReadBack
<1>7. CASE Insert(r)
  BY <1>7 DEF Insert
<1>8. CASE Find(r)
  BY <1>8 DEF Find, MustUnlink
<1>9. CASE Unlink(r)
  BY <1>9 DEF Unlink, AfterUnlink, MustUnlink
<1>10. CASE Update(r)
  BY <1>10 DEF Update
<1>11. CASE Delete(r)
  BY <1>11 DEF Delete
<1>12. CASE Fail(r) \/ UnlinkNothing(r)
  BY <1>12 DEF Fail, FailAt, UnlinkNothing
<1>13. QED
  BY <1>3, <1>4, <1>5, <1>6, <1>7, <1>8, <1>9, <1>10, <1>11, <1>12 DEF Step

\* So is everybody, and only who has an answer came before somebody.
LEMMA EverybodyFits ==
  ASSUME TypeOK, AllFit, NEW r \in Requests, Step(r)
  PROVE  AllFit'
<1>1. Fits(r) /\ Fits(r)'
  BY Fitting DEF AllFit
<1>2. call' = call
  BY <1>1, Moves
<1>3. ASSUME NEW s \in Requests \ {r} PROVE Fits(s)'
  BY <1>1, <1>2, <1>3, Others DEF AllFit, Fits, MustUnlink
<1>4. Answered \subseteq Answered'
  <2>1. pc[r] \notin Answers /\ \A s \in Requests \ {r} : pc'[s] = pc[s]
    BY <1>1, Moves
  <2>2. QED
    BY <2>1 DEF Answered
<1>5. ASSUME NEW s \in Requests PROVE before'[s] \subseteq Answered'
  <2>1. before'[s] = before[s] \/ before'[s] = Answered
    BY <1>1, Moves DEF TypeOK
  <2>2. QED
    BY <1>4, <2>1 DEF AllFit
<1>6. QED
  BY <1>1, <1>3, <1>5 DEF AllFit

\* Where a request comes from.
LEMMA Ways ==
  ASSUME TypeOK, NEW r \in Requests, Fits(r), Step(r)
  PROVE  /\ pc'[r] \in {"check", "insert", "find", "unlink", "update"} =>
              \/ pc[r] \in {"store", "check", "find", "unlink", "update"}
              \/ call[r].op \in Removes
         /\ pc[r] \notin {"new", "guard"} => pc'[r] \notin {"guard", "store"}
         /\ pc'[r] = "unlink" /\ call[r].op \in Uploads => pc[r] = "update"
         /\ pc'[r] \in {"unlink", "update", "delete"} =>
              \/ pc[r] \in {"find", "unlink", "update", "delete"}
              \/ pc[r] = "store" /\ call[r].op = "uploadAdmin"
         /\ pc'[r] = "store" => pc[r] = "guard" \/ call[r].op # "uploadAdmin"
<1>1. pc \in [Requests -> Labels] /\ call[r].op \in Ops
  BY AvatarsAssumption DEF TypeOK, Labels
<1>2. call[r].op \in Uploads => call[r].op \notin Edits \cup Removes
  BY DEF Edits, Uploads, Removes
<1>3. /\ "uploadAdmin" \in Uploads /\ "uploadEmployee" # "uploadAdmin"
      /\ "uploadAdmin" \notin Creates \cup Edits \cup Removes
  BY DEF Creates, Edits, Uploads, Removes
<1> USE <1>1, <1>2, <1>3 DEF GoTo, Start, Fail, FailAt
<1>4. CASE Begin(r)
  BY <1>4, Begins DEF Begin
<1>5. CASE Guard(r) \/ StoreFile(r) \/ Check(r) \/ Insert(r)
  BY <1>5 DEF Guard, StoreFile, Check, Insert
<1>6. CASE Find(r)
  BY <1>6 DEF Find
<1>7. CASE Unlink(r) \/ UnlinkNothing(r)
  BY <1>7 DEF Unlink, AfterUnlink, UnlinkNothing
<1>8. CASE Update(r) \/ Delete(r) \/ ReadBack(r)
  BY <1>8 DEF Update, Delete, ReadBack
<1>9. CASE Fail(r)
  BY <1>9
<1>10. QED
  BY <1>4, <1>5, <1>6, <1>7, <1>8, <1>9 DEF Step

\* A step in short.
LEMMA InShort ==
  ASSUME TypeOK, AllFit, NEW r \in Requests, Step(r)
  PROVE  /\ Fits(r) /\ call' = call /\ invoiced' = invoiced
         /\ wrote \subseteq wrote' /\ unlinked \subseteq unlinked'
         /\ Reads(r) \/ Stores(r) \/ Writes(r) \/ Unlinks(r) \/ Spares(r) \/ Rests(r)
         /\ Owner(r) \in Owners /\ Row(r) = avatar[Owner(r)]
         /\ Null \notin Files /\ Absent \notin Files
         /\ Owners \cap Requests = {} /\ r \in Files /\ FileOwner(r) = Owner(r)
         /\ call[r].op \in Removes => call[r].image # "file"
<1>1. Fits(r)
  BY DEF AllFit
<1>2. Reads(r) \/ Stores(r) \/ Writes(r) \/ Unlinks(r) \/ Spares(r) \/ Rests(r)
  BY <1>1, Kinds
<1>3. wrote \subseteq wrote' /\ unlinked \subseteq unlinked'
  BY <1>2 DEF Reads, Stores, Writes, Unlinks, Spares, Rests
<1>4. call' = call /\ invoiced' = invoiced
  BY <1>1, Moves
<1>5. /\ Owner(r) \in Owners /\ Row(r) = avatar[Owner(r)]
      /\ Null \notin Files /\ Absent \notin Files
      /\ Owners \cap Requests = {} /\ r \in Files /\ FileOwner(r) = Owner(r)
      /\ call[r].op \in Removes => call[r].image # "file"
  BY AvatarsAssumption DEF TypeOK, Owner, Row, Files, FileOwner
<1>6. QED
  BY <1>1, <1>2, <1>3, <1>4, <1>5

\* Who has written reads nothing more.
LEMMA WroteStays ==
  ASSUME TypeOK, AllFit, NEW r \in Requests, Step(r), NEW s \in Requests,
         s \in wrote \cup unlinked
  PROVE  old'[s] = old[s] /\ before'[s] = before[s]
<1>1. Fits(r) /\ Fits(s)
  BY DEF AllFit
<1>2. pc[s] \notin {"new", "guard", "find"}
  BY <1>1 DEF Fits, Answers
<1>3. CASE s # r
  BY <1>1, <1>3, Others
<1>4. CASE s = r
  BY <1>1, <1>2, <1>4, Moves, Kinds DEF Reads, Stores, Writes, Unlinks, Spares, Rests
<1>5. QED
  BY <1>3, <1>4

-----------------------------------------------------------------------------
(* Names of files.                                                         *)

\* A row gets the file of the request that changes it, or what that
\* has read.
LEMMA NamesKept ==
  ASSUME TypeOK, AllFit, Names, NEW r \in Requests, Step(r)
  PROVE  Names'
<1>1. /\ Fits(r) /\ call' = call /\ wrote \subseteq wrote'
      /\ Reads(r) \/ Stores(r) \/ Writes(r) \/ Unlinks(r) \/ Spares(r) \/ Rests(r)
  BY InShort
<1>2. /\ Owner(r) \in Owners /\ Row(r) = avatar[Owner(r)]
      /\ Null \notin Files /\ Absent \notin Files
      /\ Owners \cap Requests = {} /\ r \in Files /\ FileOwner(r) = Owner(r)
      /\ call[r].op \in Removes => call[r].image # "file"
  BY InShort
<1>3. \A o \in Owners : Belongs(avatar[o], o)'
  <2>0. SUFFICES ASSUME NEW o \in Owners PROVE Belongs(avatar[o], o)'
    OBVIOUS
  <2>1. CASE avatar'[o] = avatar[o]
    BY <1>1, <2>1 DEF Names, Belongs, FileOwner, Owner
  <2>2. CASE avatar'[o] # avatar[o]
    <3>1. Writes(r) /\ o = Owner(r)
      BY <1>1, <2>2 DEF TypeOK, Reads, Stores, Writes, Unlinks, Spares, Rests
    <3>2. r \in wrote'
      BY <3>1 DEF Writes
    <3>3. \/ avatar'[o] \in {Null, Absent}
          \/ avatar'[o] = r /\ call[r].image = "file"
          \/ avatar'[o] = old[r]
      BY <1>2, <3>1 DEF TypeOK, Writes, NewAvatar
    <3>4. QED
      BY <1>1, <1>2, <3>1, <3>2, <3>3 DEF Names, Belongs, FileOwner, Owner
  <2>3. QED
    BY <2>1, <2>2
<1>4. \A k \in Requests : Belongs(old[k], Owner(k))' /\ old'[k] # k
  <2>0. SUFFICES ASSUME NEW k \in Requests PROVE Belongs(old[k], Owner(k))' /\ old'[k] # k
    OBVIOUS
  <2>1. CASE old'[k] = old[k]
    BY <1>1, <2>1 DEF Names, Belongs, FileOwner, Owner
  <2>2. CASE old'[k] # old[k]
    <3>1. Reads(r) /\ k = r
      BY <1>1, <2>2 DEF TypeOK, Reads, Stores, Writes, Unlinks, Spares, Rests
    <3>2. old'[k] = avatar[Owner(k)] /\ k \notin wrote
      BY <1>1, <1>2, <3>1 DEF TypeOK, Reads, Fits, Answers
    <3>3. Belongs(old'[k], Owner(k)) /\ old'[k] # k
      BY <1>2, <3>1, <3>2 DEF Names, Belongs
    <3>4. QED
      BY <1>1, <3>3 DEF Belongs, FileOwner, Owner
  <2>3. QED
    BY <2>1, <2>2
<1>5. QED
  BY <1>3, <1>4 DEF Names

\* The file of a request that is to change the row stays: nobody knows its name.
LEMMA StoredKept ==
  ASSUME TypeOK, AllFit, Names, Stored, NEW r \in Requests, Step(r)
  PROVE  Stored'
<1>1. /\ Fits(r) /\ call' = call /\ wrote \subseteq wrote'
      /\ Reads(r) \/ Stores(r) \/ Writes(r) \/ Unlinks(r) \/ Spares(r) \/ Rests(r)
      /\ r \in Files /\ (call[r].op \in Removes => call[r].image # "file")
  BY InShort
<1>2. ASSUME NEW s \in Requests, s \in files'
      PROVE  call'[s].image = "file" /\ pc'[s] \notin {"new", "guard", "store"}
  <2>1. CASE s # r
    BY <1>1, <1>2, <2>1, Others DEF Stored
  <2>2. CASE s = r
    <3>1. pc[r] \notin {"new", "guard"} /\ call[r].image = "file"
      BY <1>1, <1>2, <2>2 DEF Stored, Reads, Stores, Writes, Unlinks, Spares, Rests
    <3>2. QED
      BY <1>1, <2>2, <3>1, Moves, Ways
  <2>3. QED
    BY <2>1, <2>2
<1>3. ASSUME NEW s \in Requests, call'[s].image = "file", s \notin wrote',
             pc'[s] \in {"check", "insert", "find", "unlink", "update"}
      PROVE  s \in files'
  <2>1. s \notin wrote /\ call[s].image = "file" /\ old[r] # s
    BY <1>1, <1>3 DEF Names, Belongs, Files
  <2>2. CASE s # r
    <3>1. s \in files
      BY <1>1, <1>3, <2>1, <2>2, Others DEF Stored
    <3>2. QED
      BY <1>1, <2>1, <3>1 DEF Reads, Stores, Writes, Unlinks, Spares, Rests
  <2>3. CASE s = r
    <3>1. pc[r] = "store" \/ r \in files
      BY <1>1, <1>3, <2>1, <2>3, Ways DEF Stored
    <3>2. pc[r] = "store" => Stores(r) \/ pc'[r] = "failed"
      BY <1>1 DEF Reads, Stores, Writes, Unlinks, Spares, Rests
    <3>3. CASE Stores(r)
      BY <2>1, <2>3, <3>3 DEF Stores
    <3>4. CASE ~ Stores(r)
      <4>1. r \in files
        BY <1>3, <2>3, <3>1, <3>2, <3>4
      <4>2. QED
        BY <1>1, <2>1, <2>3, <3>4, <4>1 DEF Reads, Writes, Unlinks, Spares, Rests
    <3>5. QED
      BY <3>3, <3>4
  <2>4. QED
    BY <2>2, <2>3
<1>4. QED
  BY <1>2, <1>3 DEF Stored

\* A row that is to be created is nobody's business but of the request that does.
LEMMA UnbornKept ==
  ASSUME TypeOK, AllFit, Unborn, NEW r \in Requests, Step(r)
  PROVE  Unborn'
<1>1. /\ Fits(r) /\ call' = call /\ wrote \subseteq wrote'
      /\ Reads(r) \/ Stores(r) \/ Writes(r) \/ Unlinks(r) \/ Spares(r) \/ Rests(r)
      /\ Owner(r) \in Owners /\ Row(r) = avatar[Owner(r)] /\ Absent \notin Files
  BY InShort
<1>2. SUFFICES ASSUME NEW s \in Requests, s \notin wrote', call[s].op \in Creates
               PROVE  /\ avatar'[Owner(s)] = Absent
                      /\ \A k \in Requests : Owner(k) = Owner(s) =>
                           k \notin wrote' /\ old'[k] \notin Files
  BY <1>1 DEF Unborn, Owner
<1>3. /\ s \notin wrote /\ Owner(s) \in Owners /\ avatar[Owner(s)] = Absent
      /\ \A k \in Requests : Owner(k) = Owner(s) => k \notin wrote /\ old[k] \notin Files
  BY <1>1, <1>2, AvatarsAssumption DEF TypeOK, Unborn, Owner
<1>4. ASSUME Writes(r), Owner(r) = Owner(s) PROVE FALSE
  <2>1. r # s /\ Row(r) = Absent
    BY <1>1, <1>2, <1>3, <1>4 DEF Writes
  <2>2. call[r].op \in Creates
    BY <1>1, <1>4, <2>1 DEF Writes, Fits
  <2>3. QED
    BY <1>2, <1>4, <2>1, <2>2, AvatarsAssumption DEF TypeOK, Owner
<1>5. avatar'[Owner(s)] = Absent
  BY <1>1, <1>3, <1>4 DEF TypeOK, Reads, Stores, Writes, Unlinks, Spares, Rests
<1>6. ASSUME NEW k \in Requests, Owner(k) = Owner(s)
      PROVE  k \notin wrote' /\ old'[k] \notin Files
  <2>1. k \notin wrote'
    BY <1>1, <1>3, <1>4, <1>6 DEF Reads, Stores, Writes, Unlinks, Spares, Rests
  <2>2. old'[k] \notin Files
    BY <1>1, <1>3, <1>6 DEF TypeOK, Reads, Stores, Writes, Unlinks, Spares, Rests
  <2>3. QED
    BY <2>1, <2>2
<1>7. QED
  BY <1>5, <1>6

\* A file is deleted once and for all, and by a request that has read its name.
LEMMA GoneKept ==
  ASSUME TypeOK, AllFit, Names, Stored, Gone, NEW r \in Requests, Step(r)
  PROVE  Gone'
<1>1. /\ Fits(r) /\ call' = call /\ wrote \subseteq wrote' /\ unlinked \subseteq unlinked'
      /\ Reads(r) \/ Stores(r) \/ Writes(r) \/ Unlinks(r) \/ Spares(r) \/ Rests(r)
      /\ Owner(r) \in Owners /\ Row(r) = avatar[Owner(r)] /\ r \in Files
      /\ Null \notin Files /\ Absent \notin Files
  BY InShort
<1>2. ASSUME NEW k \in unlinked' PROVE old'[k] \notin files'
  <2>1. k \in Requests
    BY <1>2, <1>1 DEF TypeOK, Reads, Stores, Writes, Unlinks, Spares, Rests
  <2>2. CASE k \in unlinked
    <3>1. old'[k] = old[k] /\ old[k] \notin files
      BY <2>1, <2>2, WroteStays DEF Gone
    <3>2. Stores(r) => r \notin wrote
      BY <1>1 DEF Stores, Fits, Answers
    <3>3. Stores(r) => old[k] # r
      BY <1>1, <2>1, <3>2 DEF Names, Belongs
    <3>4. QED
      BY <1>1, <3>1, <3>3 DEF Reads, Stores, Writes, Unlinks, Spares, Rests
  <2>3. CASE k \notin unlinked
    BY <1>1, <1>2, <2>3 DEF Reads, Stores, Writes, Unlinks, Spares, Rests
  <2>4. QED
    BY <2>2, <2>3
<1>3. ASSUME NEW f \in Files \ files', Seen(f)'
      PROVE  \E u \in unlinked' : old'[u] = f
  <2>1. Seen(f)
    <3>1. CASE \E o \in Owners : avatar'[o] = f
      <4>1. PICK o \in Owners : avatar'[o] = f
        BY <3>1
      <4>2. CASE avatar[o] = f
        BY <4>2 DEF Seen
      <4>3. CASE avatar[o] # f
        <5>1. Writes(r) /\ o = Owner(r)
          BY <1>1, <4>1, <4>3 DEF TypeOK, Reads, Stores, Writes, Unlinks, Spares, Rests
        <5>2. \/ f = old[r]
              \/ f = r /\ call[r].image = "file" /\ pc[r] \in {"insert", "update"}
          <6>1. \/ avatar'[o] \in {Null, Absent, old[r]}
                \/ avatar'[o] = r /\ call[r].image = "file" /\ pc[r] \in {"insert", "update"}
            BY <5>1 DEF TypeOK, Writes, NewAvatar
          <6>2. f # Null /\ f # Absent
            BY <1>1
          <6>3. QED
            BY <4>1, <6>1, <6>2
        <5>3. r \notin wrote
          BY <1>1, <5>1 DEF Writes, Fits, Answers
        <5>4. f # r
          <6>1. SUFFICES ASSUME f = r PROVE FALSE
            OBVIOUS
          <6>2. old[r] # r /\ files' = files
            BY <5>1 DEF Names, Writes
          <6>3. call[r].image = "file" /\ pc[r] \in {"insert", "update"}
            BY <5>2, <6>1, <6>2
          <6>4. r \in files
            BY <5>3, <6>3 DEF Stored
          <6>5. QED
            BY <1>3, <6>1, <6>2, <6>4
        <5>5. QED
          BY <5>2, <5>4 DEF Seen
      <4>4. QED
        BY <4>2, <4>3
    <3>2. CASE \E k \in Requests : old'[k] = f
      BY <1>1, <3>2 DEF TypeOK, Seen, Reads, Stores, Writes, Unlinks, Spares, Rests
    <3>3. QED
      BY <1>3, <3>1, <3>2 DEF Seen
  <2>2. CASE f \notin files
    <3>1. PICK u \in unlinked : old[u] = f
      BY <2>1, <2>2 DEF Gone
    <3>2. u \in Requests
      BY DEF TypeOK
    <3>3. QED
      BY <1>1, <3>1, <3>2, WroteStays
  <2>3. CASE f \in files
    BY <1>1, <1>3, <2>3 DEF Reads, Stores, Writes, Unlinks, Spares, Rests
  <2>4. QED
    BY <2>2, <2>3
<1>4. QED
  BY <1>2, <1>3 DEF Gone

-----------------------------------------------------------------------------
(* Requests that have deleted a file and changed no row.                   *)

\* A row that is not there does not come back for who has read a file from it.
LEMMA AbsentStays ==
  ASSUME TypeOK, AllFit, Unborn, NEW r \in Requests, Step(r),
         NEW s \in Requests, old[s] \in Files, avatar[Owner(s)] = Absent
  PROVE  avatar'[Owner(s)] = Absent
<1>1. /\ Fits(r) /\ Row(r) = avatar[Owner(r)]
      /\ Reads(r) \/ Stores(r) \/ Writes(r) \/ Unlinks(r) \/ Spares(r) \/ Rests(r)
  BY InShort
<1>2. CASE Writes(r) /\ Owner(r) = Owner(s)
  <2>1. pc[r] = "insert"
    BY <1>1, <1>2 DEF Writes
  <2>2. call[r].op \in Creates /\ r \notin wrote
    BY <1>1, <2>1 DEF Fits, Answers
  <2>3. QED
    BY <1>2, <2>2 DEF Unborn
<1>3. CASE ~ (Writes(r) /\ Owner(r) = Owner(s))
  BY <1>1, <1>3, AvatarsAssumption
      DEF Owner, TypeOK, Reads, Stores, Writes, Unlinks, Spares, Rests
<1>4. QED
  BY <1>2, <1>3

\* They wait, have failed, or did not find the row.
LEMMA UnchangedKept ==
  ASSUME TypeOK, AllFit, Names, Unborn, Unchanged, NEW r \in Requests, Step(r)
  PROVE  Unchanged'
<1>1. /\ Fits(r) /\ call' = call /\ invoiced' = invoiced /\ wrote \subseteq wrote'
      /\ Reads(r) \/ Stores(r) \/ Writes(r) \/ Unlinks(r) \/ Spares(r) \/ Rests(r)
      /\ Row(r) = avatar[Owner(r)]
  BY InShort
<1>2. SUFFICES ASSUME NEW s \in Requests, s \notin wrote', old'[s] \in Files,
                      s \in unlinked' \/ (call[s].op \in Uploads /\ pc'[s] = "unlink")
               PROVE  Waits(s)'
  BY <1>1 DEF Unchanged
<1>3. faults > 0 => faults' > 0
  BY <1>1, Moves
<1>4. s \notin wrote
  BY <1>1, <1>2
<1>5. CASE s # r
  <2>1. /\ old'[s] = old[s] /\ pc'[s] = pc[s]
        /\ s \in unlinked' <=> s \in unlinked
    BY <1>1, <1>5, Others
  <2>2. Waits(s)
    BY <1>2, <1>4, <2>1 DEF Unchanged
  <2>3. avatar[Owner(s)] = Absent => avatar'[Owner(s)] = Absent
    BY <1>2, <2>1, AbsentStays
  <2>4. QED
    BY <1>1, <1>3, <2>1, <2>2, <2>3 DEF Waits, Owner
<1>6. CASE s = r
  <2>1. ~ Writes(r)
    BY <1>2, <1>6 DEF Writes
  <2>2. CASE Reads(r) \/ Stores(r)
    <3>1. r \notin unlinked
      BY <1>1, <2>2 DEF Reads, Stores, Fits, Answers
    <3>2. call[r].op \in Uploads /\ pc'[r] = "unlink"
      BY <1>2, <1>6, <2>2, <3>1 DEF Reads, Stores
    <3>3. QED
      BY <1>1, <2>2, <3>2, Ways DEF Reads, Stores
  <2>3. CASE Unlinks(r)
    <3>1. old'[r] = old[r] /\ avatar' = avatar
      BY <2>3 DEF Unlinks
    <3>2. CASE call[r].op \in Uploads
      <4>1. Waits(r) /\ pc[r] = "unlink"
        BY <1>2, <1>4, <1>6, <2>3, <3>1, <3>2 DEF Unchanged, Unlinks
      <4>2. QED
        BY <1>1, <1>6, <3>1, <4>1 DEF Waits, Owner
    <3>3. CASE call[r].op \notin Uploads
      BY <1>6, <2>3, <3>3 DEF Unlinks, Waits
    <3>4. QED
      BY <3>2, <3>3
  <2>4. CASE Rests(r)
    <3>1. /\ old'[r] = old[r] /\ avatar' = avatar
          /\ r \in unlinked' => r \in unlinked
      BY <2>4 DEF Rests
    <3>2. CASE pc[r] \in {"update", "delete"}
      <4>1. \/ pc'[r] = "failed" /\ (faults' > 0 \/ Owner(r) \in invoiced)
            \/ call[r].foreign
            \/ Row(r) = Absent
        BY <2>4, <3>2 DEF Rests
      <4>2. QED
        BY <1>1, <1>6, <3>1, <4>1 DEF Waits, Owner
    <3>3. CASE pc[r] \notin {"update", "delete"}
      <4>1. r \in unlinked
        BY <1>1, <1>2, <1>6, <3>1, <3>3, Ways
      <4>2. Waits(r) /\ pc[r] \notin Answers
        BY <1>1, <1>2, <1>4, <1>6, <3>1, <4>1, Moves DEF Unchanged
      <4>3. call[r].foreign \/ avatar[Owner(r)] = Absent
        BY <3>3, <4>2 DEF Waits, Answers
      <4>4. QED
        BY <1>1, <1>6, <3>1, <4>3 DEF Waits, Owner
    <3>4. QED
      BY <3>2, <3>3
  <2>5. CASE Spares(r)
    BY <1>1, <1>2, <1>6, <2>5 DEF Spares, Fits, Answers
  <2>6. QED
    BY <1>1, <2>1, <2>2, <2>3, <2>4, <2>5
<1>7. QED
  BY <1>5, <1>6

-----------------------------------------------------------------------------
(* Names that come back.                                                   *)

\* Who has brought a name back has done so for good.
LEMMA BackStays ==
  ASSUME TypeOK, AllFit, NEW r \in Requests, Step(r), NEW q \in wrote, Back(q)
  PROVE  Back(q)'
<1>1. q \in Requests
  BY DEF TypeOK
<1>2. PICK k \in wrote \ {q} : /\ Owner(k) = Owner(q)
                              /\ call[k].image = "keep"
                              /\ old[k] = old[q]
                              /\ Overlap(k, q)
  BY DEF Back
<1>3. /\ k \in Requests /\ k \in wrote' /\ call' = call
  BY <1>2, InShort DEF TypeOK
<1>4. /\ old'[k] = old[k] /\ old'[q] = old[q]
      /\ before'[k] = before[k] /\ before'[q] = before[q]
  BY <1>1, <1>2, <1>3, WroteStays
<1>5. QED
  BY <1>2, <1>3, <1>4 DEF Back, Overlap, Owner

\* The name that a request has replaced is on the row again only if an edit that
\* overlapped the request has put it there; nobody who keeps it has read it later.
LEMMA CameBackKept ==
  ASSUME TypeOK, AllFit, Names, CameBack, NEW r \in Requests, Step(r)
  PROVE  CameBack'
<1>1. /\ Fits(r) /\ call' = call /\ wrote \subseteq wrote'
      /\ Reads(r) \/ Stores(r) \/ Writes(r) \/ Unlinks(r) \/ Spares(r) \/ Rests(r)
      /\ Owner(r) \in Owners /\ Row(r) = avatar[Owner(r)]
      /\ Null \notin Files /\ Absent \notin Files
  BY InShort
<1>2. SUFFICES ASSUME NEW q \in wrote', ~ Keeps(q), old'[q] \in Files
               PROVE  /\ avatar'[Owner(q)] = old'[q] => Back(q)'
                      /\ \A k \in Requests :
                           Keeps(k) /\ q \in before'[k] /\ old'[k] = old'[q] => Back(q)'
  BY <1>1 DEF CameBack, Keeps, Owner
<1>3. ASSUME NEW k \in Requests PROVE r \notin before[k]
  BY <1>1, Moves DEF AllFit, Answered
<1>4. CASE q \notin wrote
  <2>1. q = r /\ Writes(r)
    BY <1>1, <1>2, <1>4 DEF Reads, Stores, Writes, Unlinks, Spares, Rests
  <2>2. old' = old /\ old[r] # r /\ old[r] \in Files
    BY <1>2, <2>1 DEF Writes, Names
  <2>3. avatar'[Owner(r)] \in {r, Null, Absent}
    BY <1>1, <1>2, <2>1 DEF TypeOK, Writes, NewAvatar, Keeps
  <2>4. pc[r] # "new"
    BY <2>1 DEF Writes
  <2>5. before' = before
    BY <1>1, <2>4, Moves
  <2>6. QED
    BY <1>1, <1>3, <2>1, <2>2, <2>3, <2>5
<1>5. CASE q \in wrote
  <2>1. q \in Requests
    BY <1>5 DEF TypeOK
  <2>2. old'[q] = old[q] /\ before'[q] = before[q]
    BY <1>5, <2>1, WroteStays
  <2>3. Back(q) => Back(q)'
    BY <1>5, BackStays
  <2>4. ASSUME avatar'[Owner(q)] = old[q] PROVE Back(q)'
    <3>1. CASE avatar[Owner(q)] = old[q]
      BY <1>2, <1>5, <2>2, <2>3, <3>1 DEF CameBack
    <3>2. CASE avatar[Owner(q)] # old[q]
      <4>1. Writes(r) /\ Owner(r) = Owner(q)
        BY <1>1, <2>1, <2>4, <3>2, AvatarsAssumption
      DEF Owner, TypeOK, Reads, Stores, Writes, Unlinks, Spares, Rests
      <4>2. r \notin wrote /\ r \in wrote' /\ old' = old
        BY <1>1, <4>1 DEF Writes, Fits, Answers
      <4>3. old[q] # r
        BY <2>1, <1>2, <2>2, <4>2 DEF Names, Belongs
      <4>4. old[q] \in Files
        BY <1>2, <2>2
      <4>5. old[q] = old[r] /\ Keeps(r)
        BY <1>1, <2>4, <4>1, <4>3, <4>4 DEF TypeOK, Writes, NewAvatar, Keeps
      <4>6. CASE q \in before[r]
        BY <1>2, <1>5, <2>2, <2>3, <4>4, <4>5, <4>6 DEF CameBack
      <4>7. CASE q \notin before[r]
        <5>1. pc[r] # "new"
          BY <4>1 DEF Writes
        <5>2. before' = before
          BY <1>1, <5>1, Moves
        <5>3. r \in wrote' \ {q} /\ r \notin before[q]
          BY <1>3, <1>5, <2>1, <4>2
        <5>4. QED
          BY <1>1, <4>1, <4>2, <4>5, <4>7, <5>2, <5>3 DEF Back, Overlap, Keeps, Owner
      <4>8. QED
        BY <4>6, <4>7
    <3>3. QED
      BY <3>1, <3>2
  <2>5. ASSUME NEW k \in Requests, Keeps(k), q \in before'[k], old'[k] = old[q]
        PROVE  Back(q)'
    <3>1. CASE old'[k] = old[k] /\ before'[k] = before[k]
      BY <1>2, <1>5, <2>2, <2>3, <2>5, <3>1 DEF CameBack
    <3>2. CASE ~ (old'[k] = old[k] /\ before'[k] = before[k])
      <4>1. k = r
        BY <1>1, <3>2, Others
      <4>2. pc[r] # "new"
        <5>1. SUFFICES ASSUME pc[r] = "new" PROVE FALSE
          OBVIOUS
        <5>2. old' = old /\ old[r] = Null
          BY <1>1, <5>1 DEF Fits, Reads, Stores, Writes, Unlinks, Spares, Rests
        <5>3. QED
          BY <1>1, <1>2, <2>2, <2>5, <4>1, <5>2
      <4>3. before' = before
        BY <1>1, <4>2, Moves
      <4>4. old'[r] # old[r]
        BY <3>2, <4>1, <4>3
      <4>5. old'[r] = avatar[Owner(r)]
        BY <1>1, <4>4 DEF TypeOK, Reads, Stores, Writes, Unlinks, Spares, Rests
      <4>6. Owner(r) = Owner(q)
        BY <1>1, <1>2, <2>1, <2>2, <2>5, <4>1, <4>5 DEF Names, Belongs
      <4>7. QED
        BY <1>2, <1>5, <2>2, <2>3, <2>5, <4>1, <4>5, <4>6 DEF CameBack
    <3>3. QED
      BY <3>1, <3>2
  <2>6. QED
    BY <2>2, <2>4, <2>5
<1>6. QED
  BY <1>4, <1>5

-----------------------------------------------------------------------------
(* Files that nobody names.                                                *)

\* Who comes to know the file on a row has just read it.
LEMMA KnowsByReading ==
  ASSUME TypeOK, AllFit, NEW r \in Requests, Step(r), NEW k \in Requests, Knows(k)'
  PROVE  \/ Knows(k) /\ old'[k] = old[k] /\ before'[k] = before[k]
         \/ k = r /\ Reads(r) /\ before'[k] = before[k]
<1>1. /\ Fits(r) /\ call' = call
      /\ Reads(r) \/ Stores(r) \/ Writes(r) \/ Unlinks(r) \/ Spares(r) \/ Rests(r)
  BY InShort
<1>2. CASE k # r
  BY <1>1, <1>2, Others DEF Knows
<1>3. CASE k = r
  <2>1. call[r].op \notin Creates
    BY <1>1, <1>3 DEF Knows
  <2>2. \/ pc[r] \in {"guard", "find"}
        \/ Knows(r)
    <3>1. CASE r \in wrote
      BY <2>1, <3>1 DEF Knows
    <3>2. CASE r \notin wrote /\ r \in wrote'
      <4>1. Writes(r)
        BY <1>1, <3>2 DEF Reads, Stores, Unlinks, Spares, Rests
      <4>2. pc[r] \in {"update", "delete"}
        BY <1>1, <2>1, <4>1 DEF Writes, Fits
      <4>3. QED
        BY <2>1, <4>2 DEF Knows
    <3>3. CASE pc'[r] \in {"unlink", "update", "delete"}
      BY <1>1, <2>1, <3>3, Ways DEF Knows
    <3>4. CASE call[r].op = "uploadAdmin" /\ pc'[r] = "store"
      BY <1>1, <3>4, Ways
    <3>5. QED
      BY <1>1, <1>3, <3>1, <3>2, <3>3, <3>4 DEF Knows
  <2>3. pc[r] # "new"
    BY <1>1, <2>2 DEF Knows, Fits, Answers
  <2>4. before' = before
    BY <1>1, <2>3, Moves
  <2>5. CASE Reads(r)
    BY <1>3, <2>4, <2>5
  <2>6. CASE ~ Reads(r)
    <3>1. old' = old
      BY <1>1, <2>6 DEF Stores, Writes, Unlinks, Spares, Rests
    <3>2. pc[r] \in {"guard", "find"} => wrote' = wrote /\ pc'[r] = "failed"
      BY <1>1, <2>6 DEF Stores, Writes, Unlinks, Spares, Rests
    <3>3. pc[r] \in {"guard", "find"} => r \in wrote
      BY <1>3, <3>2 DEF Knows
    <3>4. Knows(r)
      BY <2>1, <2>2, <3>3 DEF Knows
    <3>5. QED
      BY <1>3, <2>4, <3>1, <3>4
  <2>7. QED
    BY <2>5, <2>6
<1>4. QED
  BY <1>2, <1>3

\* The file on a row, when the row changes: the request deletes it next, or keeps
\* it, or did not know it.
LEMMA RowChanges ==
  ASSUME TypeOK, AllFit, Names, Unborn, Gone, NEW r \in Requests, Step(r), Writes(r),
         NEW f \in files, Current(f), Owner(r) = FileOwner(f)
  PROVE  avatar'[FileOwner(f)] = f \/ Replacing(f)' \/ Unaware(f)'
<1>1. /\ Fits(r) /\ call' = call /\ wrote \subseteq wrote'
      /\ Owner(r) \in Owners /\ Row(r) = avatar[Owner(r)]
      /\ Null \notin Files /\ Absent \notin Files
  BY InShort
<1>2. /\ f \in Files /\ Row(r) = f /\ f # Null /\ f # Absent
  BY <1>1 DEF TypeOK, Current
<1>3. r \notin wrote /\ r \in wrote' /\ old' = old /\ unlinked' = unlinked
  BY <1>1 DEF Writes, Fits, Answers
<1>4. r # f
  <2>1. Belongs(f, Owner(r))
    BY <1>1, <1>2 DEF Names
  <2>2. QED
    BY <1>2, <1>3, <2>1 DEF Belongs
<1>5. call[r].op \notin Creates
  BY <1>1, <1>2, <1>3 DEF Unborn
<1>6. pc[r] \in {"update", "delete"}
  BY <1>1, <1>5 DEF Writes, Fits
<1>7. before' = before
  BY <1>1, <1>6, Moves
<1>8. CASE old[r] = f
  <2>1. r \notin unlinked
    BY <1>8 DEF Gone
  <2>0. CASE r \in spared
    <3>1. r \in wrote' \ unlinked' /\ old'[r] = f /\ r \in spared'
      BY <1>3, <1>8, <2>0, <2>1 DEF Writes
    <3>2. QED
      BY <3>1 DEF Replacing
  <2> SUFFICES ASSUME r \notin spared
               PROVE  avatar'[FileOwner(f)] = f \/ Replacing(f)' \/ Unaware(f)'
    BY <2>0
  <2>2. pc[r] = "update"
    BY <1>1, <1>2, <1>6, <1>8, <2>1 DEF Fits
  <2>3. CASE call[r].op \in Uploads
    <3>1. pc'[r] = "unlink"
      BY <2>2, <2>3 DEF Writes
    <3>2. QED
      BY <1>3, <1>8, <2>1, <3>1 DEF Replacing
  <2>4. CASE call[r].op \in Edits
    <3>1. call[r].image \in {"file", "null", "keep"}
      BY AvatarsAssumption DEF TypeOK
    <3>2. call[r].image = "keep"
      BY <1>1, <1>2, <1>8, <2>1, <2>2, <2>4, <3>1 DEF Fits, MustUnlink
    <3>3. NewAvatar(r) = f
      BY <1>8, <2>4, <3>2 DEF NewAvatar
    <3>4. avatar' = [avatar EXCEPT ![Owner(r)] = f]
      BY <2>2, <3>3 DEF Writes
    <3>5. QED
      BY <1>1, <3>4 DEF TypeOK
  <2>5. QED
    BY <1>1, <2>2, <2>3, <2>4 DEF Fits
<1>9. CASE old[r] # f
  <2>1. f \in Requests /\ f \notin before[r]
    BY <1>5, <1>6, <1>9 DEF Current, Knows
  <2>2. r \notin before[f]
    BY <1>1, <2>1, Moves DEF AllFit, Answered
  <2>3. Owner(r) = Owner(f)
    BY <2>1 DEF FileOwner
  <2>4. QED
    BY <1>1, <1>3, <1>4, <1>7, <1>9, <2>1, <2>2, <2>3 DEF Unaware, Overlap, Owner
<1>10. QED
  BY <1>8, <1>9

\* Every file is still accounted for.
LEMMA KeptKept ==
  ASSUME TypeOK, AllFit, Names, Stored, Unborn, Gone, Kept, NEW r \in Requests, Step(r)
  PROVE  Kept'
<1>1. /\ Fits(r) /\ call' = call /\ wrote \subseteq wrote'
      /\ Reads(r) \/ Stores(r) \/ Writes(r) \/ Unlinks(r) \/ Spares(r) \/ Rests(r)
      /\ Owner(r) \in Owners /\ Row(r) = avatar[Owner(r)] /\ FileOwner(r) = Owner(r)
  BY InShort
<1>2. SUFFICES ASSUME NEW f \in files'
               PROVE  f \in Requests \ wrote' \/ Current(f)' \/ Replacing(f)' \/ Unaware(f)'
  BY DEF Kept
<1>3. ASSUME NEW k \in Requests PROVE r \notin before[k]
  BY <1>1, Moves DEF AllFit, Answered
<1>4. FileOwner(f)' = FileOwner(f)
  BY <1>1 DEF FileOwner, Owner
<1>5. CASE f \notin files
  <2>1. f = r /\ Stores(r)
    BY <1>1, <1>2, <1>5 DEF Reads, Stores, Writes, Unlinks, Spares, Rests
  <2>2. QED
    BY <1>1, <2>1 DEF Stores, Fits, Answers
<1>6. CASE f \in files /\ f \in Requests \ wrote
  <2>1. CASE f \notin wrote'
    BY <1>6, <2>1
  <2>2. CASE f \in wrote'
    <3>1. f = r /\ Writes(r)
      BY <1>1, <1>6, <2>2 DEF Reads, Stores, Writes, Unlinks, Spares, Rests
    <3>2. call[r].image = "file"
      BY <1>6, <3>1 DEF Stored
    <3>3. pc[r] # "delete"
      BY <1>1, <3>2, InShort DEF Fits
    <3>4. avatar' = [avatar EXCEPT ![Owner(r)] = r]
      BY <3>1, <3>2, <3>3 DEF Writes, NewAvatar
    <3>5. pc[r] # "new"
      BY <3>1 DEF Writes
    <3>6. before' = before
      BY <1>1, <3>5, Moves
    <3>7. avatar'[Owner(r)] = r
      BY <1>1, <3>4 DEF TypeOK
    <3>8. \A k \in Requests : f \notin before'[k]
      BY <1>3, <3>1, <3>6
    <3>9. Current(f)'
      BY <1>1, <1>4, <1>6, <3>1, <3>7, <3>8 DEF Current
    <3>10. QED
      BY <3>9
  <2>3. QED
    BY <2>1, <2>2
<1>7. CASE f \in files /\ Current(f)
  <2>1. CASE Writes(r) /\ Owner(r) = FileOwner(f) /\ avatar'[FileOwner(f)] # f
    BY <1>7, <2>1, RowChanges
  <2>2. CASE ~ (Writes(r) /\ Owner(r) = FileOwner(f) /\ avatar'[FileOwner(f)] # f)
    <3>1. FileOwner(f) \in Owners
      BY <1>7, AvatarsAssumption DEF TypeOK, FileOwner, Files, Owner
    <3>2. avatar'[FileOwner(f)] = f
      BY <1>1, <1>7, <2>2, <3>1 DEF TypeOK, Current, Reads, Stores, Writes, Unlinks, Spares, Rests
    <3>3. ASSUME NEW k \in Requests, Knows(k)', Owner(k) = FileOwner(f),
                 f \in Requests => f \in before'[k]
          PROVE  old'[k] = f
      <4>1. CASE Knows(k) /\ old'[k] = old[k] /\ before'[k] = before[k]
        BY <1>7, <3>3, <4>1 DEF Current
      <4>2. CASE k = r /\ Reads(r)
        BY <1>1, <1>7, <3>3, <4>2 DEF TypeOK, Current, Reads
      <4>3. QED
        BY <3>3, <4>1, <4>2, KnowsByReading
    <3>4. Current(f)'
      BY <1>1, <1>4, <3>2, <3>3 DEF Current, Owner
    <3>5. QED
      BY <3>4
  <2>3. QED
    BY <2>1, <2>2
<1>8. CASE f \in files /\ Replacing(f)
  <2>1. PICK k \in wrote \ unlinked :
          old[k] = f /\ (pc[k] \in {"unlink", "failed"} \/ k \in spared)
    BY <1>8 DEF Replacing
  <2>2. k \in Requests /\ k \in wrote'
    BY <1>1, <2>1 DEF TypeOK
  <2>3. old'[k] = old[k]
    BY <2>1, <2>2, WroteStays
  <2>4. k \notin unlinked' /\ (pc'[k] \in {"unlink", "failed"} \/ k \in spared')
    <3>1. CASE k # r
      BY <1>1, <2>1, <2>2, <3>1, Others
    <3>2. CASE k = r
      <4>1. ~ Unlinks(r)
        BY <1>2, <2>1, <3>2 DEF Unlinks
      <4>2. r \notin unlinked' /\ spared \subseteq spared'
        BY <1>1, <2>1, <3>2, <4>1 DEF Reads, Stores, Writes, Spares, Rests
      <4>3. CASE r \in spared
        BY <3>2, <4>2, <4>3
      <4>4. CASE r \notin spared
        <5>1. pc[r] = "unlink"
          BY <1>1, <2>1, <3>2, <4>4, Moves DEF Answers
        <5>2. QED
          BY <1>1, <3>2, <4>1, <4>2, <5>1 DEF Reads, Stores, Writes, Spares, Rests
      <4>5. QED
        BY <4>3, <4>4
    <3>3. QED
      BY <3>1, <3>2
  <2>5. QED
    BY <2>1, <2>2, <2>3, <2>4 DEF Replacing
<1>9. CASE f \in files /\ Unaware(f)
  <2>1. PICK k \in wrote : /\ f \in Requests \ {k}
                          /\ Owner(k) = Owner(f)
                          /\ old[k] # f
                          /\ Overlap(k, f)
    BY <1>9 DEF Unaware
  <2>2. k \in Requests /\ k \in wrote'
    BY <1>1, <2>1 DEF TypeOK
  <2>3. old'[k] = old[k] /\ before'[k] = before[k]
    BY <2>1, <2>2, WroteStays
  <2>4. pc[f] # "new"
    BY <1>9, <2>1 DEF Stored
  <2>5. before'[f] = before[f]
    BY <1>1, <2>1, <2>4, Moves, Others
  <2>6. QED
    BY <1>1, <2>1, <2>2, <2>3, <2>5 DEF Unaware, Overlap, Owner
<1>10. QED
  BY <1>5, <1>6, <1>7, <1>8, <1>9 DEF Kept

-----------------------------------------------------------------------------
(* The invariant.                                                          *)

\* The invariant holds at first.
LEMMA InvInit == Init => IInv
<1> SUFFICES ASSUME Init PROVE IInv
  OBVIOUS
<1>1. /\ call \in Casts /\ pc = [r \in Requests |-> "new"]
      /\ before = [r \in Requests |-> {}] /\ faults = 0
      /\ invoiced = {} /\ old = [r \in Requests |-> Null]
      /\ unlinked = {} /\ spared = {} /\ wrote = {}
      /\ files = {o \in Owners : avatar[o] = o}
  BY DEF Init, CallsInit, AvatarsInit
<1>2. PICK withPicture \in Pictured :
        avatar = [o \in Owners |->
                    IF \E r \in Requests : call[r].op \in Creates /\ call[r].owner = o
                    THEN Absent
                    ELSE IF o \in withPicture THEN o ELSE Null]
  BY DEF Init, AvatarsInit
<1>3. /\ avatar \in [Owners -> Files \cup {Null, Absent}]
      /\ \A o \in Owners : avatar[o] \in {o, Null, Absent}
      /\ \A r \in Requests : call[r].op \in Creates => avatar[Owner(r)] = Absent
  BY <1>1, <1>2, AvatarsAssumption DEF Files, Owner
<1>4. Null \notin Files /\ Absent \notin Files /\ Owners \cap Requests = {}
  BY AvatarsAssumption
<1>5. TypeOK
  BY <1>1, <1>3, MaxFaultsAssumption DEF TypeOK, Files
<1>6. AllFit
  BY <1>1 DEF AllFit, Fits, Answers
<1>7. Names
  BY <1>1, <1>3, <1>4, AvatarsAssumption DEF Names, Belongs, FileOwner, Files
<1>8. Stored
  BY <1>1, <1>4 DEF Stored
<1>9. Unborn
  BY <1>1, <1>3, <1>4 DEF Unborn
<1>10. Gone
  BY <1>1, <1>3, <1>4 DEF Gone, Seen, Files
<1>11. Unchanged /\ CameBack
  BY <1>1 DEF Unchanged, CameBack
<1>12. Kept
  BY <1>1, <1>4 DEF Kept, Current, FileOwner, Knows
<1>13. QED
  BY <1>5, <1>6, <1>7, <1>8, <1>9, <1>10, <1>11, <1>12 DEF IInv

\* The end of the process answers nobody and changes neither rows nor files.
LEMMA InvDie == IInv /\ Die => IInv'
<1> SUFFICES ASSUME IInv, Die PROVE IInv'
  OBVIOUS
<1>1. /\ TypeOK /\ AllFit /\ Names /\ Stored /\ Unborn /\ Gone /\ Unchanged /\ CameBack
      /\ Kept
  BY DEF IInv
<1>2. /\ UNCHANGED <<call, before, avatar, files, invoiced, old, unlinked, spared, wrote>>
      /\ pc' \in [Requests -> {"new"} \cup Awaits \cup Answers]
      /\ faults' \in 0 .. MaxFaults /\ faults' > 0
      /\ \A r \in Requests :
           \/ pc'[r] = pc[r] /\ pc[r] \in {"new"} \cup Answers
           \/ pc'[r] = "failed" /\ pc[r] \notin {"new"} \cup Answers
  BY <1>1, MaxFaultsAssumption DEF Die, TypeOK, avatarVars, Answers
<1>3. TypeOK'
  BY <1>1, <1>2 DEF TypeOK
<1>4. AllFit'
  <2>1. ASSUME NEW r \in Requests PROVE Fits(r)'
    <3>1. Fits(r)
      BY <1>1 DEF AllFit
    <3>2. r \in wrote /\ call[r].op \in Removes => pc'[r] = "ok"
      BY <1>2, <3>1 DEF Fits, Answers
    <3>3. QED
      BY <1>2, <3>1, <3>2 DEF Fits, MustUnlink, Answers
  <2>2. Answered \subseteq Answered'
    BY <1>2 DEF Answered, Answers
  <2>3. QED
    BY <1>1, <1>2, <2>1, <2>2 DEF AllFit
<1>5. Names' /\ Unborn' /\ Gone' /\ CameBack'
  <2>1. Names'
    BY <1>1, <1>2 DEF Names, Belongs, FileOwner, Owner
  <2>2. Unborn' /\ Gone'
    BY <1>1, <1>2 DEF Unborn, Gone, Seen, Owner
  <2>3. CameBack'
    BY <1>1, <1>2 DEF CameBack, Keeps, Back, Overlap, Owner
  <2>4. QED
    BY <2>1, <2>2, <2>3
<1>6. Stored'
  BY <1>1, <1>2 DEF Stored, Answers
<1>7. Unchanged'
  BY <1>1, <1>2 DEF Unchanged, Waits, Owner, Answers
<1>8. Kept'
  <2>1. SUFFICES ASSUME NEW f \in files
                 PROVE  f \in Requests \ wrote \/ Current(f)' \/ Replacing(f)' \/ Unaware(f)'
    BY <1>2 DEF Kept
  <2>2. CASE Current(f)
    <3>1. \A k \in Requests : Knows(k)' => Knows(k)
      BY <1>2 DEF Knows, Answers
    <3>2. QED
      BY <1>2, <2>2, <3>1 DEF Current, FileOwner, Owner
  <2>3. CASE Replacing(f)
    BY <1>1, <1>2, <2>3 DEF Replacing, TypeOK, Answers
  <2>4. CASE Unaware(f)
    BY <1>2, <2>4 DEF Unaware, Overlap, Owner
  <2>5. QED
    BY <1>1, <2>1, <2>2, <2>3, <2>4 DEF Kept
<1>9. QED
  BY <1>3, <1>1, <1>4, <1>5, <1>6, <1>7, <1>8 DEF IInv

\* An invoice changes nothing that the invariant is about, but that a client may
\* stay.
LEMMA InvNext == IInv /\ [Next]_vars => IInv'
<1> SUFFICES ASSUME IInv, [Next]_vars PROVE IInv'
  OBVIOUS
<1>1. ASSUME NEW r \in Requests, Step(r) PROVE IInv'
  <2>1. TypeOK /\ AllFit /\ Names /\ Stored /\ Unborn /\ Gone /\ Unchanged /\ CameBack /\ Kept
    BY DEF IInv
  <2>2. TypeOK'
    BY <1>1, <2>1, Typed DEF AllFit
  <2>3. AllFit'
    BY <1>1, <2>1, EverybodyFits
  <2>4. Names'
    BY <1>1, <2>1, NamesKept
  <2>5. Stored'
    BY <1>1, <2>1, StoredKept
  <2>6. Unborn'
    BY <1>1, <2>1, UnbornKept
  <2>7. Gone'
    BY <1>1, <2>1, GoneKept
  <2>8. Unchanged'
    BY <1>1, <2>1, UnchangedKept
  <2>9. CameBack'
    BY <1>1, <2>1, CameBackKept
  <2>10. Kept'
    BY <1>1, <2>1, KeptKept
  <2>11. QED
    BY <2>2, <2>3, <2>4, <2>5, <2>6, <2>7, <2>8, <2>9, <2>10 DEF IInv
<1>2. ASSUME UNCHANGED <<avatar, files, old, unlinked, spared, wrote, callVars>>,
             invoiced \subseteq invoiced', invoiced' \subseteq Clients
      PROVE  IInv'
  <2>1. TypeOK' /\ AllFit' /\ Names' /\ Stored' /\ Unborn' /\ Gone' /\ CameBack' /\ Kept'
    <3>1. TypeOK'
      BY <1>2 DEF IInv, TypeOK, callVars
    <3>2. AllFit'
      BY <1>2 DEF IInv, AllFit, Fits, MustUnlink, Answered, callVars
    <3>3. Names'
      BY <1>2 DEF IInv, Names, Belongs, FileOwner, Owner, callVars
    <3>4. Stored' /\ Unborn' /\ Gone'
      BY <1>2 DEF IInv, Stored, Unborn, Gone, Seen, Owner, callVars
    <3>5. CameBack'
      BY <1>2 DEF IInv, CameBack, Keeps, Back, Overlap, Owner, callVars
    <3>6. Kept'
      BY <1>2 DEF IInv, Kept, Current, Replacing, Unaware, Knows, FileOwner, Overlap, Owner, callVars
    <3>7. QED
      BY <3>1, <3>2, <3>3, <3>4, <3>5, <3>6
  <2>2. Unchanged'
    BY <1>2 DEF IInv, Unchanged, Waits, Owner, callVars
  <2>3. QED
    BY <2>1, <2>2 DEF IInv
<1>3. ASSUME NEW o \in Clients, Invoice(o) PROVE IInv'
  <2>1. invoiced' = invoiced \cup {o} /\ invoiced \subseteq Clients
    BY <1>3 DEF Invoice, IInv, TypeOK
  <2>2. QED
    BY <1>2, <1>3, <2>1 DEF Invoice
<1>4. CASE UNCHANGED vars
  BY <1>2, <1>4 DEF vars, avatarVars, IInv, TypeOK
<1>5. CASE Die
  BY <1>5, InvDie
<1>6. QED
  BY <1>1, <1>3, <1>4, <1>5 DEF Next, Step

\* The invariant holds always.
LEMMA InvHolds == Spec => []IInv
BY InvInit, InvNext, PTL DEF Spec

-----------------------------------------------------------------------------
(* The theorems.                                                           *)

\* The state keeps its types: a row has a file, NULL, or is not there.
THEOREM PicturesTyped == Spec => []TypeOK
<1>1. IInv => TypeOK
  BY DEF IInv
<1>2. QED
  BY <1>1, InvHolds, PTL

\* The file that a row names is gone only for the reasons that DanglingExplained
\* lists, whatever requests overlap.
THEOREM DanglingHasAReason == Spec => []DanglingExplained
<1>1. IInv => DanglingExplained
  <2>1. SUFFICES ASSUME IInv, NEW o \in Owners, avatar[o] \in Files \ files
                 PROVE  \E r \in unlinked :
                          /\ Owner(r) = o
                          /\ old[r] = avatar[o]
                          /\ \/ r \notin wrote /\ \/ pc[r] \in {"update", "delete"}
                                                  \/ pc[r] = "failed" /\ (faults > 0 \/ o \in invoiced)
                                                  \/ call[r].foreign
                             \/ \E k \in wrote \ {r} : /\ Owner(k) = o
                                                       /\ call[k].image = "keep"
                                                       /\ old[k] = avatar[o]
                                                       /\ Overlap(k, r)
    BY DEF DanglingExplained
  <2>2. TypeOK /\ AllFit /\ Names /\ Gone /\ Unchanged /\ CameBack
    BY <2>1 DEF IInv
  <2>3. Absent \notin Files
    BY AvatarsAssumption
  <2>4. PICK r \in unlinked : old[r] = avatar[o]
    BY <2>1, <2>2 DEF Gone, Seen
  <2>5. r \in Requests /\ Fits(r)
    BY <2>2 DEF TypeOK, AllFit
  <2>6. Owner(r) = o
    BY <2>1, <2>2, <2>4, <2>5 DEF Names, Belongs
  <2>7. CASE r \notin wrote
    BY <2>1, <2>2, <2>3, <2>4, <2>5, <2>6, <2>7 DEF Unchanged, Waits
  <2>8. CASE r \in wrote
    <3>1. ~ Keeps(r)
      BY <2>5 DEF Fits, Keeps
    <3>2. Back(r)
      BY <2>1, <2>2, <2>4, <2>6, <2>8, <3>1 DEF CameBack
    <3>3. QED
      BY <2>4, <2>6, <3>2 DEF Back
  <2>9. QED
    BY <2>7, <2>8
<1>2. QED
  BY <1>1, InvHolds, PTL

\* A file that no row names is left over only for the reasons that LeakExplained
\* lists, whatever requests overlap.
THEOREM LeakHasAReason == Spec => []LeakExplained
<1>1. IInv => LeakExplained
  <2>1. SUFFICES ASSUME IInv, NEW f \in files, ~ Named(f)
                 PROVE  f \in Requests \ wrote \/ Replacing(f) \/ Unaware(f)
    BY DEF LeakExplained, Replacing, Unaware
  <2>2. FileOwner(f) \in Owners
    BY <2>1, AvatarsAssumption DEF IInv, TypeOK, FileOwner, Files, Owner
  <2>3. ~ Current(f)
    BY <2>1, <2>2 DEF Named, Current
  <2>4. QED
    BY <2>1, <2>3 DEF IInv, Kept
<1>2. QED
  BY <1>1, InvHolds, PTL

=============================================================================

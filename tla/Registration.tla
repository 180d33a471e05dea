----------------------------- MODULE Registration -----------------------------
(***************************************************************************)
(* POST authentication/registration: an organization and its first         *)
(* administrator.  The handler opens a transaction on a client of the pool *)
(* and then calls repositories, which run their statements on other        *)
(* clients, outside that transaction.                                      *)
(*                                                                         *)
(* Each request is made once.  The id that it draws for its organization   *)
(* (nanoid) is fresh; the request itself stands for it here.  A body may   *)
(* bring an id too, and then the organization is inserted with that one.   *)
(***************************************************************************)
EXTENDS ConnectionPool

CONSTANTS
  Registrations,  \* the requests that register
  Emails,         \* administrators.email
  Names,          \* organization.company_name
  OrgIds,         \* ids that bodies bring along
  NoId,           \* a body without an id
  MaxFaults,      \* bounds the calls that end with an error of the driver
  MaxCrashes      \* bounds the restarts of the server

ASSUME RegistrationAssumption == /\ Registrations \subseteq Requests
                                 /\ OrgIds \cap Registrations = {}
                                 /\ NoId \notin OrgIds
                                 /\ MaxFaults \in Nat
                                 /\ MaxCrashes \in Nat

VARIABLES
  organizations,  \* table organization
  administrators, \* table administrators
  body,           \* what each request asks for
  found,          \* existingAdmin # null, the local of a request
  pc,             \* the await at which a request is suspended, or its answer
  faults, crashes \* how many there were

regVars == <<organizations, administrators, body, found, pc>>
vars    == <<organizations, administrators, body, found, pc, faults, crashes,
             holder, queue>>

\* "by" is history: the request that inserted the organization.
Organization  == [company_name : Names, organization_id : Registrations \cup OrgIds,
                  by : Registrations]
Administrator == [email : Emails, organization_id : Registrations]
Body          == [company_name : Names, email : Emails,
                  organization_id : OrgIds \cup {NoId}]

\* Suspended at a statement of a repository, before and inside the try.
Checks     == {"find_admin", "find_organization"}
Inserts    == {"create_organization", "create_admin"}
InTry      == Inserts \cup {"hash", "commit", "rollback"}
\* Answers: 201, 403, 500 from the catch, 500 from the framework, none.
Answers    == {"created", "forbidden", "failed", "error", "dead"}

RegTypeOK ==
  /\ organizations \subseteq Organization
  /\ administrators \subseteq Administrator
  /\ body \in [Registrations -> Body]
  /\ found \in [Registrations -> BOOLEAN]
  /\ pc \in [Registrations ->
               {"new", "connect"} \cup Checks \cup InTry \cup Answers]

RegInit ==
  /\ organizations = {}
  /\ administrators = {}
  /\ body \in [Registrations -> Body]
  /\ found = [r \in Registrations |-> FALSE]
  /\ pc = [r \in Registrations |-> "new"]

\* {organization_id, ...body}: the row that is inserted into organization.
Org(r) == [company_name    |-> body[r].company_name,
           organization_id |-> IF body[r].organization_id = NoId
                               THEN r ELSE body[r].organization_id,
           by              |-> r]

\* {...body, organization_id}: the row that is inserted into administrators.
Admin(r) == [email |-> body[r].email, organization_id |-> r]

GoTo(r, from, to) == pc[r] = from /\ pc' = [pc EXCEPT ![r] = to]

-----------------------------------------------------------------------------
(* The handler.                                                            *)

\* createQueryRunner and connect
Register(r) ==
  /\ GoTo(r, "new", "connect")
  /\ Ask(Tx(r))
  /\ UNCHANGED <<organizations, administrators, body, found>>

\* startTransaction, then the first look-up asks for a second client
Begin(r) ==
  /\ Holds(Tx(r))
  /\ GoTo(r, "connect", "find_admin")
  /\ Ask(Stmt(r))
  /\ UNCHANGED <<organizations, administrators, body, found>>

FindAdmin(r) ==
  /\ Holds(Stmt(r))
  /\ GoTo(r, "find_admin", "find_organization")
  /\ found' = [found EXCEPT ![r] =
                 \E a \in administrators : a.email = body[r].email]
  /\ ReturnAndAsk(Stmt(r), Stmt(r))
  /\ UNCHANGED <<organizations, administrators, body>>

\* findByCompanyName and both checks.  They throw before the try, so nobody
\* releases the queryRunner.
FindOrganization(r) ==
  /\ Holds(Stmt(r))
  /\ IF \/ found[r]
        \/ \E o \in organizations : o.company_name = body[r].company_name
     THEN GoTo(r, "find_organization", "forbidden") /\ Return(Stmt(r))
     ELSE /\ GoTo(r, "find_organization", "create_organization")
          /\ ReturnAndAsk(Stmt(r), Stmt(r))
  /\ UNCHANGED <<organizations, administrators, body, found>>

\* Mutant: company_name without its unique index.
CreateOrganization_NotUnique(r) ==
  /\ Holds(Stmt(r))
  /\ GoTo(r, "create_organization", "hash")
  /\ organizations' = organizations \cup {Org(r)}
  /\ Return(Stmt(r))
  /\ UNCHANGED <<administrators, body, found>>

\* OrganizationService.createOrganization: company_name and organization_id
\* are unique.
CreateOrganization(r) ==
  /\ Holds(Stmt(r))
  /\ IF \E o \in organizations :
          \/ o.company_name = Org(r).company_name
          \/ o.organization_id = Org(r).organization_id
     THEN /\ GoTo(r, "create_organization", "rollback")
          /\ UNCHANGED organizations
     ELSE /\ GoTo(r, "create_organization", "hash")
          /\ organizations' = organizations \cup {Org(r)}
  /\ Return(Stmt(r))
  /\ UNCHANGED <<administrators, body, found>>

\* bcrypt.hash in registerAdmin
HashPassword(r) ==
  /\ GoTo(r, "hash", "create_admin")
  /\ Ask(Stmt(r))
  /\ UNCHANGED <<organizations, administrators, body, found>>

\* Mutant: the client of the insert is not given back.
CreateAdmin_KeepsClient(r) ==
  /\ Holds(Stmt(r))
  /\ GoTo(r, "create_admin", "commit")
  /\ administrators' = administrators \cup {Admin(r)}
  /\ UNCHANGED <<organizations, body, found, poolVars>>

\* Mutant: the administrator refers to the name of the organization.
CreateAdmin_ByName(r) ==
  /\ Holds(Stmt(r))
  /\ GoTo(r, "create_admin", "commit")
  /\ administrators' = administrators \cup
       {[email |-> body[r].email, organization_id |-> body[r].company_name]}
  /\ Return(Stmt(r))
  /\ UNCHANGED <<organizations, body, found>>

\* Mutant: e-mail without its unique index.
CreateAdmin_NotUnique(r) ==
  /\ Holds(Stmt(r))
  /\ GoTo(r, "create_admin", "commit")
  /\ administrators' = administrators \cup {Admin(r)}
  /\ Return(Stmt(r))
  /\ UNCHANGED <<organizations, body, found>>

\* Mutant: registerAdmin logs the error and does not throw again.
CreateAdmin_Swallows(r) ==
  /\ Holds(Stmt(r))
  /\ GoTo(r, "create_admin", "commit")
  /\ IF \E a \in administrators : a.email = body[r].email
     THEN UNCHANGED administrators
     ELSE administrators' = administrators \cup {Admin(r)}
  /\ Return(Stmt(r))
  /\ UNCHANGED <<organizations, body, found>>

\* AdministratorsService.create: email is unique, the organization exists
CreateAdmin(r) ==
  /\ Holds(Stmt(r))
  /\ IF \/ \E a \in administrators : a.email = body[r].email
        \/ ~ \E o \in organizations : o.organization_id = r
     THEN /\ GoTo(r, "create_admin", "rollback")
          /\ UNCHANGED administrators
     ELSE /\ GoTo(r, "create_admin", "commit")
          /\ administrators' = administrators \cup {Admin(r)}
  /\ Return(Stmt(r))
  /\ UNCHANGED <<organizations, body, found>>

\* commitTransaction and the release in finally
Commit(r) ==
  /\ GoTo(r, "commit", "created")
  /\ Return(Tx(r))
  /\ UNCHANGED <<organizations, administrators, body, found>>

\* Mutant: the release is the last statement of the try, not in finally.
Rollback_NoRelease(r) ==
  /\ GoTo(r, "rollback", "failed")
  /\ UNCHANGED poolVars
  /\ UNCHANGED <<organizations, administrators, body, found>>

\* rollbackTransaction has nothing to undo on its connection; finally releases
Rollback(r) ==
  /\ GoTo(r, "rollback", "failed")
  /\ Return(Tx(r))
  /\ UNCHANGED <<organizations, administrators, body, found>>

-----------------------------------------------------------------------------
(* Errors of the driver.                                                   *)

\* The connection of a new client cannot be opened, or BEGIN fails on it; a
\* look-up fails.  All of it happens before the try.
FailBeforeTry(r) ==
  /\ \/ /\ Holds(Tx(r))
        /\ GoTo(r, "connect", "error")
        /\ Return(Tx(r)) \/ UNCHANGED poolVars
     \/ /\ Holds(Stmt(r))
        /\ \E await \in Checks : GoTo(r, await, "error")
        /\ Return(Stmt(r))
  /\ UNCHANGED <<organizations, administrators, body, found>>

\* Mutant: a statement that waits too long for a client fails.
FailInTry_Timeout(r) ==
  /\ Queued(Stmt(r))
  /\ \E await \in Inserts : GoTo(r, await, "rollback")
  /\ UNCHANGED poolVars
  /\ UNCHANGED <<organizations, administrators, body, found>>

\* An insert, the hash or the commit fails: the catch rolls back.
FailInTry(r) ==
  /\ \/ /\ Holds(Stmt(r))
        /\ \E await \in Inserts : GoTo(r, await, "rollback")
        /\ Return(Stmt(r))
     \/ /\ \E await \in {"hash", "commit"} : GoTo(r, await, "rollback")
        /\ UNCHANGED poolVars
  /\ UNCHANGED <<organizations, administrators, body, found>>

\* The process ends; its requests get no answer, the tables stay.
RegistrationsDie ==
  /\ pc' = [r \in Registrations |->
              IF pc[r] \in Answers \cup {"new"} THEN pc[r] ELSE "dead"]
  /\ UNCHANGED <<organizations, administrators, body, found>>

-----------------------------------------------------------------------------
(* The specification of the handler alone with its pool.                   *)

Continue(r) ==
  \/ Begin(r)
  \/ FindAdmin(r)
  \/ FindOrganization(r)
  \/ CreateOrganization(r)
  \/ HashPassword(r)
  \/ CreateAdmin(r)
  \/ Commit(r)
  \/ Rollback(r)

Fail(r) == /\ faults < MaxFaults
           /\ faults' = faults + 1
           /\ FailBeforeTry(r) \/ FailInTry(r)

Crash == /\ crashes < MaxCrashes
         /\ crashes' = crashes + 1
         /\ RegistrationsDie
         /\ ResetPool
         /\ UNCHANGED faults

Init == RegInit /\ PoolInit /\ faults = 0 /\ crashes = 0

Next == \/ \E r \in Registrations :
             \/ Register(r) /\ UNCHANGED <<faults, crashes>>
             \/ Continue(r) /\ UNCHANGED <<faults, crashes>>
             \/ Fail(r) /\ UNCHANGED crashes
        \/ Grant /\ UNCHANGED <<regVars, faults, crashes>>
        \/ Crash

Spec == Init /\ [][Next]_vars

-----------------------------------------------------------------------------
(* Properties.                                                             *)

\* Types of the tables, the locals and the pool.
TypeOK == /\ RegTypeOK
          /\ PoolTypeOK
          /\ faults \in 0 .. MaxFaults
          /\ crashes \in 0 .. MaxCrashes

\* Every client that is out of the pool is accounted for: the queryRunner of a
\* request has it from connect on; 201 and 500 of the handler have given it
\* back, the two throws at lines 61-73 do not, until the process is restarted.
\* A statement's client belongs to a request that is at that statement.
ClientsAccounted ==
  \A r \in Registrations :
    /\ pc[r] \in Checks \cup InTry => Holds(Tx(r))
    /\ pc[r] = "forbidden" => Holds(Tx(r)) \/ crashes > 0
    /\ pc[r] \in {"new", "created", "failed", "dead"} => ~ Holds(Tx(r))
    /\ Holds(Stmt(r)) => pc[r] \in Checks \cup Inserts
    /\ pc[r] \in Checks \cup Inserts => Holds(Stmt(r)) \/ Queued(Stmt(r))

\* Whatever the interleaving of look-ups and inserts, two registrations that
\* were both answered with 201 share neither e-mail nor company, and each has
\* its own organization and an administrator in it.
RegisteredOnce ==
  \A r \in Registrations : pc[r] = "created" =>
    /\ \E o \in organizations : /\ o.company_name = body[r].company_name
                                /\ o.organization_id = r
    /\ Admin(r) \in administrators
    /\ \A s \in Registrations \ {r} : pc[s] = "created" =>
         /\ body[s].email # body[r].email
         /\ body[s].company_name # body[r].company_name

HasAdmin(o) ==
  \E a \in administrators : a.organization_id = o.organization_id

\* An organization that nobody administers is that of a registration which is
\* about to insert its administrator, or which failed or died after the
\* organization was inserted: the rollback does not take it back.
OrphanExplained ==
  \A o \in organizations : ~ HasAdmin(o) =>
    pc[o.by] \in {"hash", "create_admin", "rollback", "failed", "dead"}

\* The body is declared with an organization_id that is not empty
\* (src/src/authentication/dto/createOrganization.dto.ts:20-23).  A complete
\* body fails with 500 only by an error of the driver, or because another
\* registration has the company, the e-mail or the id.
FailureExplained ==
  \A r \in Registrations : pc[r] = "failed" =>
    \/ faults > 0
    \/ \E s \in Registrations \ {r} :
         \/ body[s].company_name = body[r].company_name
         \/ body[s].email = body[r].email
         \/ /\ body[s].organization_id = body[r].organization_id
            /\ body[s].organization_id # NoId

\* Nothing repairs it: once the registration is over, the organization stays
\* without administrator and its name is never registered.
OrphanForGood ==
  [][\A o \in organizations :
       ~ HasAdmin(o) /\ pc[o.by] \in Answers =>
         /\ o \in organizations'
         /\ ~ HasAdmin(o)'
         /\ \A r \in Registrations :
              body[r].company_name = o.company_name => pc'[r] # "created"]_vars

=============================================================================

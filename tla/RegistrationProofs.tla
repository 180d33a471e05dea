--------------------------- MODULE RegistrationProofs ---------------------------
(* Registration, for every set of requests, clients, e-mails and names:    *)
(* types, what the tables say of each answer, and who has which client.    *)
EXTENDS RegistrationDirectory, ConnectionPoolProofs

\* Every step is one of these.
Step(r) == \/ Register(r)
           \/ Begin(r)
           \/ FindAdmin(r)
           \/ FindOrganization(r)
           \/ CreateOrganization(r)
           \/ HashPassword(r)
           \/ CreateAdmin(r)
           \/ Commit(r)
           \/ Rollback(r)
           \/ FailBeforeTry(r)
           \/ FailInTry(r)

\* A step is one of a registration, of the pool, or a restart.
LEMMA Steps ==
  ASSUME Next
  PROVE  \/ /\ \E r \in Registrations : Step(r)
            /\ UNCHANGED crashes
            /\ faults' = faults \/ (faults < MaxFaults /\ faults' = faults + 1)
         \/ Grant /\ UNCHANGED <<regVars, faults, crashes>>
         \/ Crash
BY DEF Next, Continue, Fail, Step

-----------------------------------------------------------------------------
(* Types.                                                                  *)

Labels == {"new", "connect"} \cup Checks \cup InTry \cup Answers

\* A request moves on to a label.
LEMMA GoToType ==
  ASSUME NEW r \in Registrations, NEW from, NEW to \in Labels,
         pc \in [Registrations -> Labels], GoTo(r, from, to)
  PROVE  /\ pc' \in [Registrations -> Labels]
         /\ pc[r] = from /\ pc'[r] = to
         /\ \A s \in Registrations \ {r} : pc'[s] = pc[s]
BY DEF GoTo

\* The tables and locals keep their types.
LEMMA RegTypeStep ==
  ASSUME RegTypeOK, NEW r \in Registrations, Step(r)
  PROVE  RegTypeOK'
<1> USE DEF RegTypeOK, GoTo, Checks, Inserts, InTry, Answers
<1>1. CASE Register(r)
  BY <1>1 DEF Register
<1>2. CASE Begin(r)
  BY <1>2 DEF Begin
<1>3. CASE FindAdmin(r)
  BY <1>3 DEF FindAdmin
<1>4. CASE FindOrganization(r)
  BY <1>4 DEF FindOrganization
<1>5. CASE CreateOrganization(r)
  <2>1. Org(r) \in Organization
    BY DEF Org, Organization, Body
  <2>2. QED
    BY <1>5, <2>1 DEF CreateOrganization
<1>6. CASE HashPassword(r)
  BY <1>6 DEF HashPassword
<1>7. CASE CreateAdmin(r)
  <2>1. Admin(r) \in Administrator
    BY DEF Admin, Administrator, Body
  <2>2. QED
    BY <1>7, <2>1 DEF CreateAdmin
<1>8. CASE Commit(r)
  BY <1>8 DEF Commit
<1>9. CASE Rollback(r)
  BY <1>9 DEF Rollback
<1>10. CASE FailBeforeTry(r)
  BY <1>10 DEF FailBeforeTry
<1>11. CASE FailInTry(r)
  BY <1>11 DEF FailInTry
<1>12. QED
  BY <1>1, <1>2, <1>3, <1>4, <1>5, <1>6, <1>7, <1>8, <1>9, <1>10, <1>11
     DEF Step

\* A restart keeps the types of the tables and locals.
LEMMA RegTypeCrash ==
  ASSUME RegTypeOK, RegistrationsDie
  PROVE  RegTypeOK'
BY DEF RegTypeOK, RegistrationsDie, Answers, InTry, Checks

-----------------------------------------------------------------------------
(* The tables.                                                             *)

\* Each row was inserted by the request that it names, names and e-mails do
\* not repeat, and a request that is past an insert has its row; past the
\* second one, the row of its organization has the id that it drew.
Books ==
  /\ \A o \in organizations :
       /\ o = Org(o.by)
       /\ pc[o.by] \in {"hash", "create_admin", "commit", "rollback",
                        "created", "failed", "dead"}
  /\ \A a \in administrators :
       /\ a = Admin(a.organization_id)
       /\ pc[a.organization_id] \in {"commit", "rollback", "created", "failed",
                                     "dead"}
  /\ \A o, p \in organizations : o.company_name = p.company_name => o = p
  /\ \A a, b \in administrators : a.email = b.email => a = b
  /\ \A r \in Registrations :
       /\ pc[r] \in {"hash", "create_admin", "commit", "created"}
            => Org(r) \in organizations
       /\ pc[r] \in {"commit", "created"} =>
            /\ Admin(r) \in administrators
            /\ Org(r).organization_id = r

\* Two requests insert different rows, and an id that a request drew is only
\* in its own.
LEMMA OrgFields ==
  ASSUME RegTypeOK, NEW r \in Registrations
  PROVE  /\ Org(r) \in Organization
         /\ Org(r).company_name = body[r].company_name
         /\ Org(r).by = r
         /\ \A s \in Registrations : Org(s).organization_id = r => s = r
BY RegistrationAssumption DEF RegTypeOK, Org, Body, Organization

\* Steps that insert nothing keep the books when the request that moves does
\* not claim a row it has not got.
LEMMA BooksKept ==
  ASSUME RegTypeOK, RegTypeOK', Books, NEW r \in Registrations,
         UNCHANGED <<organizations, administrators, body>>,
         \A s \in Registrations \ {r} : pc'[s] = pc[s],
         pc[r] \in {"hash", "create_admin", "commit", "rollback"}
           => pc'[r] \in {"hash", "create_admin", "commit", "rollback",
                          "created", "failed"},
         pc[r] \in {"commit", "rollback"}
           => pc'[r] \in {"commit", "rollback", "created", "failed"},
         pc[r] \notin Answers,
         pc'[r] \in {"hash", "create_admin", "commit", "created"}
           => pc[r] \in {"hash", "create_admin", "commit"},
         pc'[r] \in {"commit", "created"} => pc[r] = "commit"
  PROVE  Books'
BY DEF RegTypeOK, Books, Org, Admin, Organization, Administrator, Answers

\* The books survive every step of a request.
LEMMA BooksStep ==
  ASSUME RegTypeOK, RegTypeOK', Books, NEW r \in Registrations, Step(r)
  PROVE  Books'
<1> USE DEF GoTo, RegTypeOK, Answers, Checks, Inserts, InTry
<1>1. CASE Register(r)
  BY <1>1, BooksKept DEF Register
<1>2. CASE Begin(r)
  BY <1>2, BooksKept DEF Begin
<1>3. CASE FindAdmin(r)
  BY <1>3, BooksKept DEF FindAdmin
<1>4. CASE FindOrganization(r)
  BY <1>4, BooksKept DEF FindOrganization
<1>5. CASE CreateOrganization(r)
  <2> DEFINE taken == \E o \in organizations :
                        \/ o.company_name = Org(r).company_name
                        \/ o.organization_id = Org(r).organization_id
  <2>1. CASE taken
    BY <1>5, <2>1, BooksKept DEF CreateOrganization
  <2>2. CASE ~ taken
    <3>1. /\ pc[r] = "create_organization" /\ pc'[r] = "hash"
          /\ \A s \in Registrations \ {r} : pc'[s] = pc[s]
          /\ organizations' = organizations \cup {Org(r)}
          /\ UNCHANGED <<administrators, body>>
      BY <1>5, <2>2 DEF CreateOrganization
    <3>2. \A s \in Registrations : Org(s)' = Org(s) /\ Admin(s)' = Admin(s)
      BY <3>1 DEF Org, Admin
    <3>3. QED
      BY <2>2, <3>1, <3>2 DEF Books, Org, Admin, Organization, Administrator
  <2>3. QED
    BY <2>1, <2>2
<1>6. CASE HashPassword(r)
  BY <1>6, BooksKept DEF HashPassword
<1>7. CASE CreateAdmin(r)
  <2>1. CASE \/ \E a \in administrators : a.email = body[r].email
             \/ ~ \E o \in organizations : o.organization_id = r
    BY <1>7, <2>1, BooksKept DEF CreateAdmin
  <2>2. CASE ~ \/ \E a \in administrators : a.email = body[r].email
               \/ ~ \E o \in organizations : o.organization_id = r
    <3>1. /\ pc[r] = "create_admin" /\ pc'[r] = "commit"
          /\ \A s \in Registrations \ {r} : pc'[s] = pc[s]
          /\ administrators' = administrators \cup {Admin(r)}
          /\ UNCHANGED <<organizations, body>>
      BY <1>7, <2>2 DEF CreateAdmin
    <3>2. \A s \in Registrations : Org(s)' = Org(s) /\ Admin(s)' = Admin(s)
      BY <3>1 DEF Org, Admin
    <3>3. Org(r).organization_id = r
      <4>1. PICK o \in organizations : o.organization_id = r
        BY <2>2
      <4>2. o = Org(o.by) /\ o.by \in Registrations
        BY DEF Books, Organization
      <4>3. QED
        BY <4>1, <4>2, OrgFields
    <3>4. /\ \A a \in administrators : a.email # Admin(r).email
          /\ Admin(r).organization_id = r
      BY <2>2 DEF Admin
    <3>5. \A o \in organizations' : /\ o = Org(o.by)'
                                   /\ pc'[o.by] \in {"hash", "create_admin",
                                        "commit", "rollback", "created",
                                        "failed", "dead"}
      BY <3>1, <3>2 DEF Books, Organization
    <3>6. \A a \in administrators' :
            /\ a = Admin(a.organization_id)'
            /\ pc'[a.organization_id] \in {"commit", "rollback", "created",
                                          "failed", "dead"}
      BY <3>1, <3>2, <3>4 DEF Books, Administrator
    <3>7. \A s \in Registrations :
            /\ pc'[s] \in {"hash", "create_admin", "commit", "created"}
                 => Org(s)' \in organizations'
            /\ pc'[s] \in {"commit", "created"} =>
                 /\ Admin(s)' \in administrators'
                 /\ Org(s)'.organization_id = s
      BY <3>1, <3>2, <3>3 DEF Books
    <3>8. QED
      BY <3>1, <3>4, <3>5, <3>6, <3>7 DEF Books
  <2>3. QED
    BY <2>1, <2>2
<1>8. CASE Commit(r)
  BY <1>8, BooksKept DEF Commit
<1>9. CASE Rollback(r)
  BY <1>9, BooksKept DEF Rollback
<1>10. CASE FailBeforeTry(r)
  BY <1>10, BooksKept DEF FailBeforeTry
<1>11. CASE FailInTry(r)
  BY <1>11, BooksKept DEF FailInTry
<1>12. QED
  BY <1>1, <1>2, <1>3, <1>4, <1>5, <1>6, <1>7, <1>8, <1>9, <1>10, <1>11
     DEF Step

\* A crash turns requests that are under way into dead ones.
LEMMA BooksCrash ==
  ASSUME RegTypeOK, Books, RegistrationsDie
  PROVE  Books'
BY DEF RegTypeOK, Books, RegistrationsDie, Org, Admin, Organization,
       Administrator, Answers

-----------------------------------------------------------------------------
(* The clients.                                                            *)

\* Where the tickets of r are, by the await at which it is suspended.
Place(r) ==
  /\ pc[r] \in {"new", "created", "failed", "dead"} => ~ Holds(Tx(r))
  /\ pc[r] \in Checks \cup InTry => Holds(Tx(r))
  /\ pc[r] = "forbidden" => Holds(Tx(r)) \/ crashes > 0
  /\ pc[r] # "connect" => ~ Queued(Tx(r))
  /\ IF pc[r] \in Checks \cup Inserts
     THEN Holds(Stmt(r)) \/ Queued(Stmt(r))
     ELSE ~ Holds(Stmt(r)) /\ ~ Queued(Stmt(r))

\* What a step of r does to the pool is not seen by another request.
OnlyOf(r) == \A u \in Ticket \ {Tx(r), Stmt(r)} :
               /\ Holds(u)' <=> Holds(u)
               /\ Queued(u)' <=> Queued(u)

\* What a registration does with its own tickets is nothing to the others.
LEMMA OthersStay ==
  ASSUME NEW r \in Registrations, NEW s \in Registrations \ {r},
         OnlyOf(r), pc'[s] = pc[s], UNCHANGED crashes, Place(s)
  PROVE  Place(s)'
<1>1. /\ Tx(s) \in Ticket \ {Tx(r), Stmt(r)}
      /\ Stmt(s) \in Ticket \ {Tx(r), Stmt(r)}
  BY Tickets, TicketsDiffer, RegistrationAssumption
<1>2. /\ Holds(Tx(s))' <=> Holds(Tx(s))
      /\ Queued(Tx(s))' <=> Queued(Tx(s))
      /\ Holds(Stmt(s))' <=> Holds(Stmt(s))
      /\ Queued(Stmt(s))' <=> Queued(Stmt(s))
  BY <1>1 DEF OnlyOf
<1>3. QED
  BY <1>2 DEF Place

\* Each step of a request takes it to the place of its next await.
LEMMA PlaceStep ==
  ASSUME RegTypeOK, PoolInv, NEW r \in Registrations, Place(r), Step(r),
         UNCHANGED crashes
  PROVE  PoolInv' /\ OnlyOf(r) /\ Place(r)'
<1> USE DEF GoTo, RegTypeOK
<1> DEFINE tx == Tx(r)  stmt == Stmt(r)
<1>0. tx \in Ticket /\ stmt \in Ticket /\ tx # stmt
  BY Tickets, RegistrationAssumption
<1>1. CASE Register(r)
  <2>1. pc[r] = "new" /\ pc'[r] = "connect" /\ Ask(tx)
    BY <1>1 DEF Register
  <2>2. ~ Holds(tx) /\ ~ Queued(tx)
    BY <2>1 DEF Place
  <2>3. QED
    BY <1>0, <2>1, <2>2, Asking
       DEF Place, OnlyOf, Checks, InTry, Inserts
<1>2. CASE Begin(r)
  <2>1. pc[r] = "connect" /\ pc'[r] = "find_admin" /\ Ask(stmt) /\ Holds(tx)
    BY <1>2 DEF Begin
  <2>2. ~ Holds(stmt) /\ ~ Queued(stmt) /\ ~ Queued(tx)
    BY <1>0, <2>1 DEF Place, PoolInv, InPoolOnce, Checks, Inserts
  <2>3. QED
    BY <1>0, <2>1, <2>2, Asking
       DEF Place, OnlyOf, Checks, InTry, Inserts
<1>3. CASE FindAdmin(r)
  <2>1. /\ pc[r] = "find_admin" /\ pc'[r] = "find_organization"
        /\ Holds(stmt) /\ ReturnAndAsk(stmt, stmt)
    BY <1>3 DEF FindAdmin
  <2>2. QED
    BY <1>0, <2>1, ReturningAndAsking
       DEF Place, OnlyOf, Checks, InTry, Inserts
<1>4. CASE FindOrganization(r)
  <2>1. pc[r] = "find_organization" /\ Holds(stmt)
    BY <1>4 DEF FindOrganization
  <2>2. CASE pc'[r] = "forbidden" /\ Return(stmt)
    <3>1. ~ Queued(stmt)
      BY <1>0, <2>1 DEF PoolInv, InPoolOnce
    <3>2. QED
      BY <1>0, <2>1, <2>2, <3>1, Returning
         DEF Place, OnlyOf, Checks, InTry, Inserts
  <2>3. CASE pc'[r] = "create_organization" /\ ReturnAndAsk(stmt, stmt)
    BY <1>0, <2>1, <2>3, ReturningAndAsking
       DEF Place, OnlyOf, Checks, InTry, Inserts
  <2>4. QED
    BY <1>4, <2>2, <2>3 DEF FindOrganization
<1>5. ASSUME NEW from \in Checks \cup Inserts, NEW to,
             to \in {"hash", "commit", "rollback", "error"},
             pc[r] = from, pc'[r] = to, Holds(stmt), Return(stmt)
      PROVE  PoolInv' /\ OnlyOf(r) /\ Place(r)'
  <2>1. ~ Queued(stmt)
    BY <1>0, <1>5 DEF PoolInv, InPoolOnce
  <2>2. QED
    BY <1>0, <1>5, <2>1, Returning
       DEF Place, OnlyOf, Checks, InTry, Inserts
<1>6. CASE CreateOrganization(r)
  BY <1>5, <1>6 DEF CreateOrganization, Inserts
<1>7. CASE HashPassword(r)
  <2>1. pc[r] = "hash" /\ pc'[r] = "create_admin" /\ Ask(stmt)
    BY <1>7 DEF HashPassword
  <2>2. ~ Holds(stmt) /\ ~ Queued(stmt)
    BY <2>1 DEF Place, Checks, Inserts
  <2>3. QED
    BY <1>0, <2>1, <2>2, Asking
       DEF Place, OnlyOf, Checks, InTry, Inserts
<1>8. CASE CreateAdmin(r)
  BY <1>5, <1>8 DEF CreateAdmin, Inserts
<1>9. ASSUME NEW from \in {"commit", "rollback", "connect"},
             NEW to \in {"created", "failed", "error"},
             pc[r] = from, pc'[r] = to, Return(tx),
             from = "connect" => Holds(tx)
      PROVE  PoolInv' /\ OnlyOf(r) /\ Place(r)'
  <2>1. ~ Queued(tx) /\ ~ Queued(stmt) /\ ~ Holds(stmt)
    BY <1>0, <1>9 DEF Place, PoolInv, InPoolOnce, Checks, Inserts
  <2>2. QED
    BY <1>0, <1>9, <2>1, Returning
       DEF Place, OnlyOf, Checks, InTry, Inserts
<1>10. CASE Commit(r)
  BY <1>9, <1>10 DEF Commit
<1>11. CASE Rollback(r)
  BY <1>9, <1>11 DEF Rollback
<1>12. ASSUME NEW from \in {"connect", "hash", "commit"},
              NEW to \in {"error", "rollback"},
              pc[r] = from, pc'[r] = to, UNCHANGED poolVars, Holds(tx),
              from # "connect" => to = "rollback"
       PROVE  PoolInv' /\ OnlyOf(r) /\ Place(r)'
  <2>1. ~ Queued(tx)
    BY <1>0, <1>12 DEF PoolInv, InPoolOnce
  <2>2. QED
    BY <1>0, <1>12, <2>1, PoolUnchanged
       DEF Place, OnlyOf, Checks, InTry, Inserts
<1>13. CASE FailBeforeTry(r)
  <2>1. CASE Holds(tx) /\ GoTo(r, "connect", "error") /\ Return(tx)
    BY <1>9, <2>1
  <2>2. CASE Holds(tx) /\ GoTo(r, "connect", "error") /\ UNCHANGED poolVars
    BY <1>12, <2>2
  <2>3. CASE /\ Holds(stmt) /\ Return(stmt)
             /\ \E await \in Checks : GoTo(r, await, "error")
    BY <1>5, <2>3
  <2>4. QED
    BY <1>13, <2>1, <2>2, <2>3 DEF FailBeforeTry
<1>14. CASE FailInTry(r)
  <2>1. CASE /\ Holds(stmt) /\ Return(stmt)
             /\ \E await \in Inserts : GoTo(r, await, "rollback")
    BY <1>5, <2>1
  <2>2. CASE /\ \E await \in {"hash", "commit"} : GoTo(r, await, "rollback")
             /\ UNCHANGED poolVars
    BY <1>12, <2>2 DEF Place, InTry
  <2>3. QED
    BY <1>14, <2>1, <2>2 DEF FailInTry
<1>15. QED
  BY <1>1, <1>2, <1>3, <1>4, <1>6, <1>7, <1>8, <1>10, <1>11, <1>13, <1>14
     DEF Step

\* A granted client changes "waits" into "has" for one ticket.
LEMMA PlaceGrant ==
  ASSUME RegTypeOK, PoolInv, NEW r \in Registrations, Place(r), Grant,
         UNCHANGED <<pc, crashes>>
  PROVE  Place(r)'
<1>1. Tx(r) \in Ticket /\ Stmt(r) \in Ticket
  BY Tickets, RegistrationAssumption
<1>2. PICK t \in Ticket :
        /\ Queued(t)
        /\ \A u \in Ticket : /\ Holds(u)' <=> Holds(u) \/ u = t
                             /\ Queued(u)' <=> Queued(u) /\ u # t
  BY Granting
<1>3. pc[r] # "connect" => (Holds(Tx(r))' <=> Holds(Tx(r)))
  BY <1>1, <1>2 DEF Place
<1>4. /\ ~ Queued(Tx(r)) => ~ Queued(Tx(r))'
      /\ Holds(Stmt(r)) \/ Queued(Stmt(r))
           <=> Holds(Stmt(r))' \/ Queued(Stmt(r))'
  BY <1>1, <1>2
<1>5. QED
  BY <1>3, <1>4 DEF Place, Checks, InTry, Inserts

-----------------------------------------------------------------------------
(* The theorems.                                                           *)

IInv == /\ TypeOK
        /\ Books
        /\ PoolInv
        /\ \A r \in Registrations : Place(r)

\* The invariant holds at first.
LEMMA InvInit == Init => IInv
<1> SUFFICES ASSUME Init PROVE IInv
  OBVIOUS
<1>1. RegTypeOK
  BY DEF Init, RegInit, RegTypeOK
<1>2. PoolInv /\ \A t \in Ticket : ~ Holds(t) /\ ~ Queued(t)
  BY FreshPool DEF Init
<1>3. TypeOK
  BY <1>1, <1>2, RegistrationAssumption DEF Init, TypeOK, PoolInv
<1>4. Books
  BY DEF Init, RegInit, Books
<1>5. \A r \in Registrations : Place(r)
  BY <1>2, Tickets, RegistrationAssumption
     DEF Init, RegInit, Place, Checks, InTry, Inserts
<1>6. QED
  BY <1>2, <1>3, <1>4, <1>5 DEF IInv

\* Every step keeps it.
LEMMA InvNext == IInv /\ [Next]_vars => IInv'
<1> SUFFICES ASSUME IInv, [Next]_vars PROVE IInv'
  OBVIOUS
<1>0. RegTypeOK /\ Books /\ PoolInv /\ \A r \in Registrations : Place(r)
  BY DEF IInv, TypeOK
<1>1. ASSUME NEW r \in Registrations, Step(r), UNCHANGED crashes,
             faults' = faults \/ (faults < MaxFaults /\ faults' = faults + 1)
      PROVE  IInv'
  <2>1. RegTypeOK'
    BY <1>0, <1>1, RegTypeStep
  <2>2. Books'
    BY <1>0, <1>1, <2>1, BooksStep
  <2>3. PoolInv' /\ OnlyOf(r) /\ Place(r)'
    BY <1>0, <1>1, PlaceStep
  <2>4. \A s \in Registrations \ {r} : pc'[s] = pc[s]
    BY <1>0, <1>1
       DEF RegTypeOK, Step, GoTo, Register, Begin, FindAdmin, FindOrganization,
           CreateOrganization, HashPassword, CreateAdmin, Commit, Rollback,
           FailBeforeTry, FailInTry
  <2>5. \A s \in Registrations \ {r} : Place(s)'
    BY <1>0, <1>1, <2>3, <2>4, OthersStay
  <2>6. TypeOK'
    BY <1>1, <2>1, <2>3, RegistrationAssumption DEF IInv, TypeOK, PoolInv
  <2>7. QED
    BY <2>2, <2>3, <2>5, <2>6 DEF IInv
<1>2. CASE Grant /\ UNCHANGED <<regVars, faults, crashes>>
  <2>1. RegTypeOK' /\ Books'
    BY <1>0, <1>2 DEF regVars, RegTypeOK, Books, Org, Admin
  <2>2. PoolInv'
    BY <1>0, <1>2, Granting
  <2>3. \A r \in Registrations : Place(r)'
    BY <1>0, <1>2, PlaceGrant DEF regVars
  <2>4. QED
    BY <1>2, <2>1, <2>2, <2>3 DEF IInv, TypeOK, PoolInv
<1>3. CASE Crash
  <2>1. RegTypeOK' /\ Books'
    BY <1>0, <1>3, RegTypeCrash, BooksCrash DEF Crash
  <2>2. PoolInv' /\ \A t \in Ticket : ~ Holds(t)' /\ ~ Queued(t)'
    BY <1>3, ResetEmpties DEF Crash
  <2>3. /\ crashes' > 0 /\ crashes' \in 0 .. MaxCrashes
        /\ faults' \in 0 .. MaxFaults
    BY <1>3, RegistrationAssumption DEF IInv, TypeOK, Crash
  <2>4. \A r \in Registrations : pc'[r] \in Answers \cup {"new"}
    BY <1>0, <1>3 DEF Crash, RegistrationsDie, RegTypeOK, Answers
  <2>5. \A r \in Registrations : Place(r)'
    BY <2>2, <2>3, <2>4, Tickets, RegistrationAssumption
       DEF Place, Answers, Checks, InTry, Inserts
  <2>6. QED
    BY <2>1, <2>2, <2>3, <2>5 DEF IInv, TypeOK, PoolInv
<1>4. CASE UNCHANGED vars
  <2>1. RegTypeOK' /\ Books'
    BY <1>0, <1>4 DEF vars, RegTypeOK, Books, Org, Admin
  <2>2. PoolInv' /\ \A u \in Ticket : /\ Holds(u)' <=> Holds(u)
                                      /\ Queued(u)' <=> Queued(u)
    BY <1>0, <1>4, PoolUnchanged DEF vars, poolVars
  <2>3. \A r \in Registrations : Place(r)'
    BY <1>0, <1>4, <2>2, Tickets, RegistrationAssumption DEF vars, Place
  <2>4. QED
    BY <1>4, <2>1, <2>2, <2>3 DEF vars, IInv, TypeOK, PoolInv
<1>5. QED
  BY <1>1, <1>2, <1>3, <1>4, Steps

\* So it holds in every state.
LEMMA InvHolds == Spec => []IInv
BY InvInit, InvNext, PTL DEF Spec

\* The tables, the locals of every request and the pool keep their types.
THEOREM RegistrationTypes == Spec => []TypeOK
<1>1. IInv => TypeOK
  BY DEF IInv
<1>2. QED
  BY <1>1, InvHolds, PTL

\* A client of the pool is with the request that the handler left it with.
THEOREM ClientsAreAccounted == Spec => []ClientsAccounted
<1>1. IInv => ClientsAccounted
  BY DEF IInv, ClientsAccounted, Place, Checks, InTry, Inserts
<1>2. QED
  BY <1>1, InvHolds, PTL

\* Whatever was answered with 201 has rows of its own, exactly once.
THEOREM RegistrationsAreUnique == Spec => []RegisteredOnce
<1>1. ASSUME IInv, NEW r \in Registrations, NEW s \in Registrations \ {r},
             pc[r] = "created", pc[s] = "created"
      PROVE  /\ body[s].email # body[r].email
             /\ body[s].company_name # body[r].company_name
  <2>1. /\ Org(r) \in organizations /\ Org(s) \in organizations
        /\ Admin(r) \in administrators /\ Admin(s) \in administrators
    BY <1>1 DEF IInv, Books
  <2>2. Org(r) # Org(s) /\ Admin(r) # Admin(s)
    BY <1>1 DEF Org, Admin
  <2>3. QED
    BY <1>1, <2>1, <2>2 DEF IInv, Books, Org, Admin
<1>2. IInv => RegisteredOnce
  BY <1>1 DEF IInv, RegisteredOnce, Books, Org, Admin
<1>3. QED
  BY <1>2, InvHolds, PTL

\* An organization without administrator is that of a registration which is
\* not finished, or failed, or died.
THEOREM OrphanOrganizations == Spec => []OrphanExplained
<1>1. IInv => OrphanExplained
  <2>1. SUFFICES ASSUME IInv, NEW o \in organizations, ~ HasAdmin(o)
                 PROVE  pc[o.by] \in {"hash", "create_admin", "rollback",
                                     "failed", "dead"}
    BY DEF OrphanExplained
  <2>2. o.by \in Registrations /\ o = Org(o.by)
    BY <2>1 DEF IInv, TypeOK, RegTypeOK, Organization, Books
  <2>3. ASSUME pc[o.by] \in {"commit", "created"}
        PROVE  FALSE
    <3>1. /\ Admin(o.by) \in administrators
          /\ o.organization_id = o.by
      BY <2>1, <2>2, <2>3 DEF IInv, Books
    <3>2. QED
      BY <2>1, <3>1 DEF HasAdmin, Admin
  <2>4. QED
    BY <2>1, <2>3 DEF IInv, Books
<1>2. QED
  BY <1>1, InvHolds, PTL

\* What is in the table organization stays there; an administrator is added by
\* the request whose organization it belongs to, while that is at the insert.
LEMMA TablesGrow ==
  ASSUME IInv, [Next]_vars
  PROVE  /\ organizations \subseteq organizations'
         /\ UNCHANGED body
         /\ \A a \in administrators' \ administrators :
              pc[a.organization_id] = "create_admin"
<1>1. ASSUME NEW r \in Registrations, Step(r)
      PROVE  /\ organizations \subseteq organizations'
             /\ UNCHANGED body
             /\ \A a \in administrators' \ administrators :
                  pc[a.organization_id] = "create_admin"
  BY <1>1
     DEF Step, GoTo, Register, Begin, FindAdmin, FindOrganization,
         CreateOrganization, HashPassword, CreateAdmin, Admin, Commit,
         Rollback, FailBeforeTry, FailInTry
<1>2. QED
  BY <1>1, Steps DEF regVars, vars, Crash, RegistrationsDie

\* An organization that was left without administrator blocks its name.
THEOREM OrphansStay == Spec => OrphanForGood
<1>1. ASSUME IInv, IInv', [Next]_vars, NEW o \in organizations,
             ~ HasAdmin(o), pc[o.by] \in Answers
      PROVE  /\ o \in organizations'
             /\ ~ HasAdmin(o)'
             /\ \A r \in Registrations :
                  body[r].company_name = o.company_name => pc'[r] # "created"
  <2>1. /\ o \in organizations'
        /\ UNCHANGED body
    BY <1>1, TablesGrow
  <2>2. ~ HasAdmin(o)'
    <3>1. SUFFICES ASSUME NEW a \in administrators' \ administrators,
                          a.organization_id = o.organization_id
                   PROVE  FALSE
      BY <1>1 DEF HasAdmin
    <3>2. /\ pc[a.organization_id] = "create_admin"
          /\ a.organization_id \in Registrations
      BY <1>1, <3>1, TablesGrow
         DEF IInv, TypeOK, RegTypeOK, Administrator
    <3>3. o.by = a.organization_id
      BY <1>1, <3>1, <3>2, OrgFields
         DEF IInv, TypeOK, RegTypeOK, Books, Organization
    <3>4. QED
      BY <1>1, <3>2, <3>3 DEF Answers
  <2>3. ASSUME NEW r \in Registrations,
               body[r].company_name = o.company_name, pc'[r] = "created"
        PROVE  FALSE
    <3>1. Org(r)' \in organizations' /\ Admin(r)' \in administrators'
      BY <1>1, <2>3 DEF IInv, Books
    <3>2. Org(r)' = o
      BY <1>1, <2>1, <2>3, <3>1 DEF IInv, Books, Org
    <3>3. o.organization_id = r
      BY <1>1, <2>1, <2>3, <3>2 DEF IInv, Books
    <3>4. QED
      BY <2>2, <3>1, <3>3 DEF HasAdmin, Admin
  <2>4. QED
    BY <2>1, <2>2, <2>3
<1>2. IInv /\ IInv' /\ [Next]_vars =>
        [\A o \in organizations :
           ~ HasAdmin(o) /\ pc[o.by] \in Answers =>
             /\ o \in organizations'
             /\ ~ HasAdmin(o)'
             /\ \A r \in Registrations :
                  body[r].company_name = o.company_name
                    => pc'[r] # "created"]_vars
  BY <1>1
<1>3. QED
  BY <1>2, InvHolds, PTL DEF Spec, OrphanForGood

-----------------------------------------------------------------------------
(* The directory.                                                          *)

\* What the pairs of the directory say in terms of the tables.
LEMMA BookReads ==
  ASSUME IInv
  PROVE  LET names  == {<<o.company_name, o.by>> : o \in organizations}
             admins == {<<a.email, a.organization_id>> : a \in administrators}
         IN  /\ \A r \in Registrations :
                  /\ Book!Has(names, r) => Org(r) \in organizations
                  /\ Org(r) \in organizations => Book!Has(names, r)
                  /\ Book!Has(admins, r) => Admin(r) \in administrators
                  /\ Admin(r) \in administrators => Book!Has(admins, r)
             /\ \A n : Book!Taken(names, n) =>
                         \E o \in organizations : o.company_name = n
             /\ \A e : Book!Taken(admins, e) =>
                         \E a \in administrators : a.email = e
<1> DEFINE names  == {<<o.company_name, o.by>> : o \in organizations}
           admins == {<<a.email, a.organization_id>> : a \in administrators}
<1>1. \A r : Book!Has(names, r) <=> \E o \in organizations : o.by = r
  <2>1. ASSUME NEW r, NEW o \in organizations, o.by = r
        PROVE  Book!Has(names, r)
    <3>1. <<o.company_name, o.by>> \in names /\ <<o.company_name, o.by>>[2] = r
      BY <2>1
    <3>2. QED
      BY <3>1 DEF Book!Has
  <2>2. ASSUME NEW pair \in names
        PROVE  \E o \in organizations : o.by = pair[2]
    OBVIOUS
  <2>3. QED
    BY <2>1, <2>2 DEF Book!Has
<1>2. \A r : Book!Has(admins, r)
               <=> \E a \in administrators : a.organization_id = r
  <2>1. ASSUME NEW r, NEW a \in administrators, a.organization_id = r
        PROVE  Book!Has(admins, r)
    <3>1. /\ <<a.email, a.organization_id>> \in admins
          /\ <<a.email, a.organization_id>>[2] = r
      BY <2>1
    <3>2. QED
      BY <3>1 DEF Book!Has
  <2>2. ASSUME NEW pair \in admins
        PROVE  \E a \in administrators : a.organization_id = pair[2]
    OBVIOUS
  <2>3. QED
    BY <2>1, <2>2 DEF Book!Has
<1>3. \A o \in organizations : o = Org(o.by)
  BY DEF IInv, Books
<1>4. \A a \in administrators : a = Admin(a.organization_id)
  BY DEF IInv, Books
<1>5. \A r \in Registrations : Org(r).by = r /\ Admin(r).organization_id = r
  BY DEF Org, Admin
<1>6. \A n : Book!Taken(names, n) => \E o \in organizations : o.company_name = n
  BY DEF Book!Taken
<1>7. \A e : Book!Taken(admins, e) => \E a \in administrators : a.email = e
  BY DEF Book!Taken
<1>8. QED
  BY <1>1, <1>2, <1>3, <1>4, <1>5, <1>6, <1>7

\* When no answer is settled and no row inserted, the directory stays.
LEMMA BookKept ==
  ASSUME UNCHANGED <<organizations, administrators, body>>,
         \A r \in Registrations : Answer(r)' = Answer(r)
  PROVE  UNCHANGED Book!vars
<1>1. [r \in Registrations |-> Answer(r)]' = [r \in Registrations |-> Answer(r)]
  OBVIOUS
<1>2. QED
  BY <1>1 DEF Book!vars

\* The registrations that are over without 201 have ended.
LEMMA BookEnds ==
  ASSUME UNCHANGED <<organizations, administrators, body>>,
         NEW ended \in SUBSET Registrations,
         \A r \in ended : Answer(r) = "none" /\ Answer(r)' = "over",
         \A r \in Registrations \ ended : Answer(r)' = Answer(r)
  PROVE  Book!Next
<1>1. Book!End(ended)
  BY DEF Book!End
<1>2. QED
  BY <1>1 DEF Book!Next

\* One registration moves: its answer is that of its new label.
LEMMA AnswerMoves ==
  ASSUME RegTypeOK, NEW r \in Registrations, NEW from, NEW to \in Labels,
         GoTo(r, from, to)
  PROVE  /\ pc[r] = from /\ pc'[r] = to
         /\ \A s \in Registrations \ {r} : Answer(s)' = Answer(s)
<1>1. pc \in [Registrations -> Labels]
  BY DEF RegTypeOK, Labels
<1>2. QED
  BY <1>1, GoToType DEF Answer

\* A step between two labels that settle nothing, or that ends the request.
LEMMA BookMoves ==
  ASSUME RegTypeOK, NEW r \in Registrations, NEW from, NEW to \in Labels,
         GoTo(r, from, to), UNCHANGED <<organizations, administrators, body>>,
         LET open == {"new", "connect", "find_admin", "find_organization",
                      "create_organization", "hash", "create_admin", "commit"}
             over == {"rollback", "forbidden", "failed", "error", "dead"}
         IN  \/ from \in open /\ to \in open \cup over
             \/ from \in over /\ to \in over
  PROVE  [Book!Next]_Book!vars
<1> USE DEF Answer, Answers
<1>1. CASE Answer(r)' = Answer(r)
  <2>1. \A s \in Registrations : Answer(s)' = Answer(s)
    BY <1>1, AnswerMoves
  <2>2. QED
    BY <2>1, BookKept
<1>2. CASE Answer(r)' # Answer(r)
  <2>1. Answer(r) = "none" /\ Answer(r)' = "over"
    BY <1>2, AnswerMoves
  <2>2. \A s \in Registrations \ {r} : Answer(s)' = Answer(s)
    BY AnswerMoves
  <2>3. Book!Next
    BY <2>1, <2>2, BookEnds, {r} \in SUBSET Registrations
  <2>4. QED
    BY <2>3
<1>3. QED
  BY <1>1, <1>2

\* The insert of an organization takes its name.
LEMMA BookClaims ==
  ASSUME IInv, NEW r \in Registrations, GoTo(r, "create_organization", "hash"),
         \A o \in organizations : o.company_name # Org(r).company_name,
         organizations' = organizations \cup {Org(r)},
         UNCHANGED <<administrators, body>>
  PROVE  Book!Next
<1> DEFINE names == {<<o.company_name, o.by>> : o \in organizations}
<1>1. /\ pc[r] = "create_organization" /\ pc'[r] = "hash"
      /\ \A s \in Registrations \ {r} : Answer(s)' = Answer(s)
  BY AnswerMoves DEF IInv, TypeOK, Labels, Answers, InTry, Inserts
<1>2. [s \in Registrations |-> Answer(s)]' = [s \in Registrations |-> Answer(s)]
  BY <1>1 DEF Answer, Answers
<1>3. Answer(r) = "none"
  BY <1>1 DEF Answer, Answers
<1>4. Org(r) \notin organizations
  OBVIOUS
<1>5. Org(r).company_name = body[r].company_name /\ Org(r).by = r
  BY DEF Org
<1>6. names' = names \cup {<<body[r].company_name, r>>}
  BY <1>5
<1>7. ~ Book!Has(names, r) /\ ~ Book!Taken(names, body[r].company_name)
  BY <1>4, <1>5, BookReads
<1>8. Book!Claim(r)
  BY <1>2, <1>3, <1>6, <1>7 DEF Book!Claim
<1>9. QED
  BY <1>8 DEF Book!Next

\* The insert of an administrator completes the organization of its request.
LEMMA BookAppoints ==
  ASSUME IInv, NEW r \in Registrations, GoTo(r, "create_admin", "commit"),
         \A a \in administrators : a.email # body[r].email,
         administrators' = administrators \cup {Admin(r)},
         UNCHANGED <<organizations, body>>
  PROVE  Book!Next
<1> DEFINE names  == {<<o.company_name, o.by>> : o \in organizations}
           admins == {<<a.email, a.organization_id>> : a \in administrators}
<1>1. /\ pc[r] = "create_admin" /\ pc'[r] = "commit"
      /\ \A s \in Registrations \ {r} : Answer(s)' = Answer(s)
  BY AnswerMoves DEF IInv, TypeOK, Labels, Answers, InTry, Inserts
<1>2. [s \in Registrations |-> Answer(s)]' = [s \in Registrations |-> Answer(s)]
  BY <1>1 DEF Answer, Answers
<1>3. Answer(r) = "none"
  BY <1>1 DEF Answer, Answers
<1>4. Org(r) \in organizations
  BY <1>1 DEF IInv, Books
<1>5. Admin(r).email = body[r].email /\ Admin(r).organization_id = r
  BY DEF Admin
<1>6. Admin(r) \notin administrators
  BY <1>5
<1>7. admins' = admins \cup {<<body[r].email, r>>}
  BY <1>5
<1>8. /\ Book!Has(names, r) /\ ~ Book!Has(admins, r)
      /\ ~ Book!Taken(admins, body[r].email)
  BY <1>4, <1>6, BookReads
<1>9. Book!Appoint(r)
  BY <1>2, <1>3, <1>7, <1>8 DEF Book!Appoint
<1>10. QED
  BY <1>9 DEF Book!Next

\* 201 confirms what the tables have.
LEMMA BookConfirms ==
  ASSUME IInv, NEW r \in Registrations, GoTo(r, "commit", "created"),
         UNCHANGED <<organizations, administrators, body>>
  PROVE  Book!Next
<1>1. /\ pc[r] = "commit" /\ pc'[r] = "created"
      /\ \A s \in Registrations \ {r} : Answer(s)' = Answer(s)
  BY AnswerMoves DEF IInv, TypeOK, Labels, Answers
<1>2. Answer(r) = "none" /\ Answer(r)' = "yes"
  BY <1>1 DEF Answer, Answers
<1>3. Org(r) \in organizations /\ Admin(r) \in administrators
  BY <1>1 DEF IInv, Books
<1>4. [s \in Registrations |-> Answer(s)]' =
        [[s \in Registrations |-> Answer(s)] EXCEPT ![r] = "yes"]
  BY <1>1, <1>2
<1>5. Book!Confirm(r)
  BY <1>2, <1>3, <1>4, BookReads DEF Book!Confirm
<1>6. QED
  BY <1>5 DEF Book!Next

\* Every step of a registration is one of the directory, or none.
LEMMA BookStep ==
  ASSUME IInv, NEW r \in Registrations, Step(r)
  PROVE  [Book!Next]_Book!vars
<1> USE DEF Labels, Answers, Checks, InTry, Inserts
<1>0. RegTypeOK
  BY DEF IInv, TypeOK
<1>1. CASE Register(r)
  BY <1>0, <1>1, BookMoves DEF Register
<1>2. CASE Begin(r)
  BY <1>0, <1>2, BookMoves DEF Begin
<1>3. CASE FindAdmin(r)
  BY <1>0, <1>3, BookMoves DEF FindAdmin
<1>4. CASE FindOrganization(r)
  <2>1. \E to \in {"forbidden", "create_organization"} :
          GoTo(r, "find_organization", to)
    BY <1>4 DEF FindOrganization
  <2>2. QED
    BY <1>0, <1>4, <2>1, BookMoves DEF FindOrganization
<1>5. CASE CreateOrganization(r)
  <2>1. CASE \E o \in organizations :
                \/ o.company_name = Org(r).company_name
                \/ o.organization_id = Org(r).organization_id
    BY <1>0, <1>5, <2>1, BookMoves DEF CreateOrganization
  <2>2. CASE ~ \E o \in organizations :
                  \/ o.company_name = Org(r).company_name
                  \/ o.organization_id = Org(r).organization_id
    BY <1>5, <2>2, BookClaims DEF CreateOrganization
  <2>3. QED
    BY <2>1, <2>2
<1>6. CASE HashPassword(r)
  BY <1>0, <1>6, BookMoves DEF HashPassword
<1>7. CASE CreateAdmin(r)
  <2>1. CASE \/ \E a \in administrators : a.email = body[r].email
             \/ ~ \E o \in organizations : o.organization_id = r
    BY <1>0, <1>7, <2>1, BookMoves DEF CreateAdmin
  <2>2. CASE ~ \/ \E a \in administrators : a.email = body[r].email
               \/ ~ \E o \in organizations : o.organization_id = r
    BY <1>7, <2>2, BookAppoints DEF CreateAdmin
  <2>3. QED
    BY <2>1, <2>2
<1>8. CASE Commit(r)
  BY <1>8, BookConfirms DEF Commit
<1>9. CASE Rollback(r)
  BY <1>0, <1>9, BookMoves DEF Rollback
<1>10. CASE FailBeforeTry(r)
  <2>1. \E await \in {"connect", "find_admin", "find_organization"} :
          GoTo(r, await, "error")
    BY <1>10 DEF FailBeforeTry
  <2>2. QED
    BY <1>0, <1>10, <2>1, BookMoves DEF FailBeforeTry
<1>11. CASE FailInTry(r)
  <2>1. \E await \in {"create_organization", "create_admin", "hash", "commit"} :
          GoTo(r, await, "rollback")
    BY <1>11 DEF FailInTry
  <2>2. QED
    BY <1>0, <1>11, <2>1, BookMoves DEF FailInTry
<1>12. QED
  BY <1>1, <1>2, <1>3, <1>4, <1>5, <1>6, <1>7, <1>8, <1>9, <1>10, <1>11
     DEF Step

\* A restart ends the registrations that are on their way.
LEMMA BookRestart ==
  ASSUME RegTypeOK, RegistrationsDie
  PROVE  Book!Next
<1> DEFINE ended == {r \in Registrations :
                       pc[r] \notin Answers \cup {"new", "rollback"}}
<1>1. \A r \in Registrations :
        pc'[r] = IF pc[r] \in Answers \cup {"new"} THEN pc[r] ELSE "dead"
  BY DEF RegistrationsDie
<1>2. \A r \in ended : Answer(r) = "none" /\ Answer(r)' = "over"
  BY <1>1 DEF Answer, Answers
<1>3. \A r \in Registrations \ ended : Answer(r)' = Answer(r)
  BY <1>1 DEF Answer, Answers
<1>4. QED
  BY <1>2, <1>3, BookEnds DEF RegistrationsDie

\* The tables of registration and its answers are a directory: names and
\* e-mails are taken once and never given back, an administrator comes only to
\* the organization of its own registration, and 201 needs both.
THEOREM RegistrationKeepsTheDirectory == Spec => DirectorySpec
<1>1. Init => Book!Init
  <2>1. ASSUME RegInit
        PROVE  \A r \in Registrations : Answer(r) = "none"
    BY <2>1 DEF RegInit, Answer, Answers
  <2>2. ASSUME RegInit
        PROVE  /\ {<<o.company_name, o.by>> : o \in organizations} = {}
               /\ {<<a.email, a.organization_id>> : a \in administrators} = {}
    BY <2>2 DEF RegInit
  <2>3. QED
    BY <2>1, <2>2 DEF Init, Book!Init
<1>2. ASSUME IInv, [Next]_vars
      PROVE  [Book!Next]_Book!vars
  <2>1. RegTypeOK
    BY <1>2 DEF IInv, TypeOK
  <2>2. CASE \E r \in Registrations : Step(r)
    BY <1>2, <2>2, BookStep
  <2>3. CASE Grant /\ UNCHANGED <<regVars, faults, crashes>>
    BY <2>3, BookKept DEF regVars, Answer
  <2>4. CASE Crash
    BY <2>1, <2>4, BookRestart DEF Crash
  <2>5. CASE UNCHANGED vars
    BY <2>5, BookKept DEF vars, Answer
  <2>6. QED
    BY <1>2, <2>2, <2>3, <2>4, <2>5, Steps
<1>3. QED
  BY <1>1, <1>2, InvHolds, PTL DEF Spec, DirectorySpec, Book!Spec

=============================================================================

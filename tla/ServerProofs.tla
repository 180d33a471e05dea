------------------------------ MODULE ServerProofs ------------------------------
(* Registrations and invoices in one process, for every set of requests    *)
(* and every size of the pool: the handlers use the pool as PoolUse says,  *)
(* and nothing stops them but a pool that has run dry.                     *)
EXTENDS Server, ConnectionPoolProofs, FiniteSetTheorems

RegistrationLabels == {"new", "connect"} \cup R!Checks \cup R!InTry \cup R!Answers

DraftLabels    == {"new", "get_number", "find_invoice", "set_number",
                   "drafted", "empty", "error", "dead"}
CreationLabels == {"new", "forbidden", "find_company", "create_pdf", "connect",
                   "save_invoice", "save_items", "update_invoice", "commit",
                   "rollback", "created", "failed", "error", "dead"}

\* Where each request can be.
Control ==
  /\ regPc \in [Registrations -> RegistrationLabels]
  /\ invPc \in [Drafts \cup Creations -> DraftLabels \cup CreationLabels]
  /\ \A d \in Drafts : invPc[d] \in DraftLabels
  /\ \A i \in Creations : invPc[i] \in CreationLabels
  /\ crashes \in Nat

-----------------------------------------------------------------------------
(* The handlers, seen from the pool.                                       *)

\* A step of r takes it from one stage to another.
Moves(r, from, to) == Stage(r) = from /\ Stage(r)' = to

\* What one step of a request does to its stage and to the pool.
Uses(r) ==
  \/ /\ \E to \in {"idle", "over", "erred"} : Moves(r, "idle", to)
     /\ UNCHANGED poolVars
  \/ Moves(r, "idle", "looks") /\ Ask(Stmt(r))
  \/ /\ \E to \in {"idle", "erred"} : Moves(r, "looks", to)
     /\ Holds(Stmt(r)) /\ Return(Stmt(r))
  \/ Moves(r, "idle", "connects") /\ Ask(Tx(r)) /\ r \notin Drafts
  \/ Moves(r, "connects", "states") /\ Holds(Tx(r)) /\ Ask(Stmt(r))
  \/ /\ Moves(r, "connects", "erred") /\ Holds(Tx(r))
     /\ Return(Tx(r)) \/ UNCHANGED poolVars
  \/ Moves(r, "runs", "states") /\ Ask(Stmt(r))
  \/ /\ Moves(r, "states", "states")
     /\ Holds(Stmt(r)) /\ ReturnAndAsk(Stmt(r), Stmt(r))
  \/ /\ \E to \in {"runs", "kept", "erred"} : Moves(r, "states", to)
     /\ Holds(Stmt(r)) /\ Return(Stmt(r))
  \/ Moves(r, "runs", "over") /\ Return(Tx(r))
  \/ /\ \E to \in {"runs", "kept"} : Moves(r, "runs", to)
     /\ UNCHANGED poolVars

\* The others stay where they are.
OthersWait(r) == \A s \in Requests \ {r} : Stage(s)' = Stage(s)

\* A step of a registration.
RegistrationStep(r) == /\ R!Register(r) \/ R!Continue(r)
                          \/ R!FailBeforeTry(r) \/ R!FailInTry(r)
                       /\ UNCHANGED <<invPc, crashes>>

\* Each step of a registration does with its tickets what its await says.
LEMMA RegistrationUses ==
  ASSUME Control, NEW r \in Registrations, RegistrationStep(r)
  PROVE  Control' /\ Uses(r) /\ OthersWait(r)
<1> DEFINE Goes(from, to) == regPc[r] = from /\ regPc' = [regPc EXCEPT ![r] = to]
<1>1. ASSUME NEW from \in RegistrationLabels, NEW to \in RegistrationLabels,
             Goes(from, to), UNCHANGED <<invPc, crashes>>
      PROVE  /\ Control' /\ OthersWait(r)
             /\ Moves(r, RegistrationStage(from), RegistrationStage(to))
  BY <1>1, ServerAssumption DEF Control, OthersWait, Moves, Stage
<1> USE DEF RegistrationLabels, RegistrationStage, R!Checks, R!InTry, R!Inserts,
            R!Answers
<1>2. RegistrationStep(r) => UNCHANGED <<invPc, crashes>>
  BY DEF RegistrationStep
<1>3. CASE R!Register(r)
  <2>1. Goes("new", "connect") /\ Ask(Tx(r))
    BY <1>3 DEF R!Register, R!GoTo, R!Ask, R!Tx, Ask, Tx
  <2>2. QED
    BY <1>1, <1>2, <2>1, ServerAssumption DEF Uses
<1>4. CASE R!Begin(r)
  <2>1. Goes("connect", "find_admin") /\ Holds(Tx(r)) /\ Ask(Stmt(r))
    BY <1>4 DEF R!Begin, R!GoTo, R!Ask, R!Tx, R!Stmt, R!Holds, Ask, Tx, Stmt, Holds
  <2>2. QED
    BY <1>1, <1>2, <2>1 DEF Uses
<1>5. CASE R!FindAdmin(r)
  <2>1. /\ Goes("find_admin", "find_organization")
        /\ Holds(Stmt(r)) /\ ReturnAndAsk(Stmt(r), Stmt(r))
    BY <1>5 DEF R!FindAdmin, R!GoTo, R!ReturnAndAsk, R!Without, R!Stmt, R!Holds,
                ReturnAndAsk, Without, Stmt, Holds
  <2>2. QED
    BY <1>1, <1>2, <2>1 DEF Uses
<1>6. CASE R!FindOrganization(r)
  <2>1. /\ Holds(Stmt(r))
        /\ \/ Goes("find_organization", "forbidden") /\ Return(Stmt(r))
           \/ /\ Goes("find_organization", "create_organization")
              /\ ReturnAndAsk(Stmt(r), Stmt(r))
    BY <1>6 DEF R!FindOrganization, R!GoTo, R!Return, R!ReturnAndAsk, R!Without,
                R!Stmt, R!Holds, Return, ReturnAndAsk, Without, Stmt, Holds
  <2>2. QED
    BY <1>1, <1>2, <2>1 DEF Uses
<1>7. CASE R!CreateOrganization(r) \/ R!CreateAdmin(r)
  <2>1. /\ Holds(Stmt(r)) /\ Return(Stmt(r))
        /\ \E from \in R!Inserts, to \in {"rollback", "hash", "commit"} :
             Goes(from, to)
    BY <1>7 DEF R!CreateOrganization, R!CreateAdmin, R!GoTo, R!Return, R!Without,
                R!Stmt, R!Holds, Return, Without, Stmt, Holds
  <2>2. QED
    BY <1>1, <1>2, <2>1 DEF Uses
<1>8. CASE R!HashPassword(r)
  <2>1. Goes("hash", "create_admin") /\ Ask(Stmt(r))
    BY <1>8 DEF R!HashPassword, R!GoTo, R!Ask, R!Stmt, Ask, Stmt
  <2>2. QED
    BY <1>1, <1>2, <2>1 DEF Uses
<1>9. CASE R!Commit(r) \/ R!Rollback(r)
  <2>1. /\ Goes("commit", "created") \/ Goes("rollback", "failed")
        /\ Return(Tx(r))
    BY <1>9 DEF R!Commit, R!Rollback, R!GoTo, R!Return, R!Without, R!Tx,
                Return, Without, Tx
  <2>2. QED
    BY <1>1, <1>2, <2>1 DEF Uses
<1>10. CASE R!FailBeforeTry(r)
  <2>1. \/ /\ Holds(Tx(r)) /\ Goes("connect", "error")
           /\ Return(Tx(r)) \/ UNCHANGED poolVars
        \/ /\ Holds(Stmt(r)) /\ Return(Stmt(r))
           /\ \E from \in R!Checks : Goes(from, "error")
    BY <1>10 DEF R!FailBeforeTry, R!GoTo, R!Return, R!Without, R!Tx, R!Stmt,
                 R!Holds, R!poolVars, poolVars, Return, Without, Tx, Stmt, Holds
  <2>2. QED
    BY <1>1, <1>2, <2>1 DEF Uses
<1>11. CASE R!FailInTry(r)
  <2>1. \/ /\ Holds(Stmt(r)) /\ Return(Stmt(r))
           /\ \E from \in R!Inserts : Goes(from, "rollback")
        \/ /\ \E from \in {"hash", "commit"} : Goes(from, "rollback")
           /\ UNCHANGED poolVars
    BY <1>11 DEF R!FailInTry, R!GoTo, R!Return, R!Without, R!Stmt,
                 R!Holds, R!poolVars, poolVars, Return, Without, Stmt, Holds
  <2>2. QED
    BY <1>1, <1>2, <2>1 DEF Uses
<1>12. QED
  BY <1>3, <1>4, <1>5, <1>6, <1>7, <1>8, <1>9, <1>10, <1>11
     DEF RegistrationStep, R!Continue

\* A step of a draft or a creation.
InvoiceStep(r) == /\ \/ /\ r \in Drafts
                        /\ I!GetId(r) \/ I!ContinueDraft(r)
                     \/ /\ r \in Creations
                        /\ I!Create(r) \/ I!ContinueCreation(r)
                     \/ I!FailBeforeTry(r) \/ I!FailInTry(r)
                  /\ UNCHANGED <<regPc, crashes>>

\* The move of a draft, or of a creation, between two of its own awaits.
LEMMA InvoiceGoes ==
  ASSUME Control, NEW r \in Drafts \cup Creations, NEW from, NEW to,
         invPc[r] = from, invPc' = [invPc EXCEPT ![r] = to],
         UNCHANGED <<regPc, crashes>>,
         r \in Drafts => to \in DraftLabels,
         r \in Creations => to \in CreationLabels
  PROVE  /\ Control' /\ OthersWait(r)
         /\ Moves(r, InvoiceStage(from), InvoiceStage(to))
<1>1. /\ invPc'[r] = to
      /\ \A s \in (Drafts \cup Creations) \ {r} : invPc'[s] = invPc[s]
      /\ invPc' \in [Drafts \cup Creations -> DraftLabels \cup CreationLabels]
  BY DEF Control
<1>2. Control'
  BY <1>1, ServerAssumption DEF Control
<1>3. OthersWait(r)
  BY <1>1, ServerAssumption DEF OthersWait, Stage
<1>4. Moves(r, InvoiceStage(from), InvoiceStage(to))
  BY <1>1, ServerAssumption DEF Moves, Stage
<1>5. QED
  BY <1>2, <1>3, <1>4

\* A draft looks into the tables and has no queryRunner at any await.
LEMMA DraftUses ==
  ASSUME Control, NEW d \in Drafts, InvoiceStep(d)
  PROVE  Control' /\ Uses(d) /\ OthersWait(d)
<1> DEFINE Goes(from, to) == invPc[d] = from /\ invPc' = [invPc EXCEPT ![d] = to]
<1>1. ASSUME NEW from, NEW to \in DraftLabels, Goes(from, to)
      PROVE  /\ Control' /\ OthersWait(d)
             /\ Moves(d, InvoiceStage(from), InvoiceStage(to))
  BY <1>1, InvoiceGoes, ServerAssumption DEF InvoiceStep
<1> USE DEF DraftLabels, InvoiceStage, I!Statements, I!InTry, I!Answers
<1>2. CASE I!GetId(d)
  <2>1. Goes("new", "get_number") /\ UNCHANGED poolVars
    BY <1>2 DEF I!GetId, I!GoTo, I!poolVars, poolVars
  <2>2. QED
    BY <1>1, <2>1 DEF Uses
<1>3. CASE I!GetNumber(d)
  <2>1. Goes("get_number", "find_invoice") /\ Ask(Stmt(d))
    BY <1>3 DEF I!GetNumber, I!GoTo, I!Ask, I!Stmt, Ask, Stmt
  <2>2. QED
    BY <1>1, <2>1 DEF Uses
<1>4. CASE I!FindInvoice(d)
  <2>1. /\ Goes("find_invoice", "get_number") \/ Goes("find_invoice", "set_number")
        /\ Holds(Stmt(d)) /\ Return(Stmt(d))
    BY <1>4 DEF I!FindInvoice, I!GoTo, I!Return, I!Without, I!Stmt, I!Holds,
                Return, Without, Stmt, Holds
  <2>2. QED
    BY <1>1, <2>1 DEF Uses
<1>5. CASE I!SetNumber(d)
  <2>1. /\ Goes("set_number", "empty") \/ Goes("set_number", "drafted")
        /\ UNCHANGED poolVars
    BY <1>5 DEF I!SetNumber, I!GoTo, I!poolVars, poolVars
  <2>2. QED
    BY <1>1, <2>1 DEF Uses
<1>6. CASE I!FailBeforeTry(d)
  <2>1. invPc[d] \in DraftLabels
    BY DEF Control
  <2>2. \/ /\ Goes("get_number", "error") \/ Goes("set_number", "error")
           /\ UNCHANGED poolVars
        \/ Goes("find_invoice", "error") /\ Holds(Stmt(d)) /\ Return(Stmt(d))
    BY <1>6, <2>1 DEF I!FailBeforeTry, I!GoTo, I!Return, I!Without, I!Stmt, I!Holds,
                      I!poolVars, poolVars, Return, Without, Stmt, Holds
  <2>3. QED
    BY <1>1, <2>2 DEF Uses
<1>7. ~ I!FailInTry(d)
  BY DEF I!FailInTry, I!GoTo, Control
<1>8. QED
  BY <1>2, <1>3, <1>4, <1>5, <1>6, <1>7, ServerAssumption
     DEF InvoiceStep, I!ContinueDraft

\* A creation looks up the company first, then connects and keeps its client.
LEMMA CreationUses ==
  ASSUME Control, NEW i \in Creations, InvoiceStep(i)
  PROVE  Control' /\ Uses(i) /\ OthersWait(i)
<1> DEFINE Goes(from, to) == invPc[i] = from /\ invPc' = [invPc EXCEPT ![i] = to]
<1>0. i \notin Drafts
  BY ServerAssumption
<1>1. ASSUME NEW from, NEW to \in CreationLabels, Goes(from, to)
      PROVE  /\ Control' /\ OthersWait(i)
             /\ Moves(i, InvoiceStage(from), InvoiceStage(to))
  BY <1>1, InvoiceGoes, ServerAssumption DEF InvoiceStep
<1> USE DEF CreationLabels, InvoiceStage, I!Statements, I!InTry, I!Answers
<1>2. CASE I!Create(i)
  <2>1. \/ Goes("new", "forbidden") /\ UNCHANGED poolVars
        \/ Goes("new", "find_company") /\ Ask(Stmt(i))
    BY <1>2 DEF I!Create, I!GoTo, I!Ask, I!Stmt, Ask, Stmt, I!poolVars, poolVars
  <2>2. QED
    BY <1>1, <2>1 DEF Uses
<1>3. CASE I!FindCompany(i)
  <2>1. Goes("find_company", "create_pdf") /\ Holds(Stmt(i)) /\ Return(Stmt(i))
    BY <1>3 DEF I!FindCompany, I!GoTo, I!Return, I!Without, I!Stmt, I!Holds,
                Return, Without, Stmt, Holds
  <2>2. QED
    BY <1>1, <2>1 DEF Uses
<1>4. CASE I!CreatePdf(i)
  <2>1. Goes("create_pdf", "connect") /\ Ask(Tx(i))
    BY <1>4 DEF I!CreatePdf, I!GoTo, I!Ask, I!Tx, Ask, Tx
  <2>2. QED
    BY <1>0, <1>1, <2>1 DEF Uses
<1>5. CASE I!Begin(i)
  <2>1. Goes("connect", "save_invoice") /\ Holds(Tx(i)) /\ Ask(Stmt(i))
    BY <1>5 DEF I!Begin, I!GoTo, I!Ask, I!Tx, I!Stmt, I!Holds, Ask, Tx, Stmt, Holds
  <2>2. QED
    BY <1>1, <2>1 DEF Uses
<1>6. CASE I!SaveInvoice(i) \/ I!SaveItems(i)
  <2>1. /\ Goes("save_invoice", "save_items") \/ Goes("save_items", "update_invoice")
        /\ Holds(Stmt(i)) /\ ReturnAndAsk(Stmt(i), Stmt(i))
    BY <1>6 DEF I!SaveInvoice, I!SaveItems, I!GoTo, I!ReturnAndAsk, I!Without,
                I!Stmt, I!Holds, ReturnAndAsk, Without, Stmt, Holds
  <2>2. QED
    BY <1>1, <2>1 DEF Uses
<1>7. CASE I!UpdateInvoice(i)
  <2>1. Goes("update_invoice", "commit") /\ Holds(Stmt(i)) /\ Return(Stmt(i))
    BY <1>7 DEF I!UpdateInvoice, I!GoTo, I!Return, I!Without, I!Stmt, I!Holds,
                Return, Without, Stmt, Holds
  <2>2. QED
    BY <1>1, <2>1 DEF Uses
<1>8. CASE I!Commit(i) \/ I!Rollback(i)
  <2>1. /\ Goes("commit", "created") \/ Goes("rollback", "failed")
        /\ UNCHANGED poolVars
    BY <1>8 DEF I!Commit, I!Rollback, I!GoTo, I!poolVars, poolVars
  <2>2. QED
    BY <1>1, <2>1 DEF Uses
<1>9. CASE I!FailBeforeTry(i)
  <2>1. invPc[i] \in CreationLabels
    BY DEF Control
  <2>2. \/ Goes("create_pdf", "error") /\ UNCHANGED poolVars
        \/ Goes("find_company", "error") /\ Holds(Stmt(i)) /\ Return(Stmt(i))
        \/ /\ Goes("connect", "error") /\ Holds(Tx(i))
           /\ Return(Tx(i)) \/ UNCHANGED poolVars
    BY <1>9, <2>1 DEF I!FailBeforeTry, I!GoTo, I!Return, I!Without, I!Tx, I!Stmt,
                      I!Holds, I!poolVars, poolVars, Return, Without, Tx, Stmt, Holds
  <2>3. QED
    BY <1>1, <2>2 DEF Uses
<1>10. CASE I!FailInTry(i)
  <2>1. \/ /\ Holds(Stmt(i)) /\ Return(Stmt(i))
           /\ \E from \in I!Statements \cap I!InTry : Goes(from, "rollback")
        \/ Goes("commit", "rollback") /\ UNCHANGED poolVars
    BY <1>10 DEF I!FailInTry, I!GoTo, I!Return, I!Without, I!Stmt, I!Holds,
                 I!poolVars, poolVars, Return, Without, Stmt, Holds
  <2>2. QED
    BY <1>1, <2>1 DEF Uses
<1>11. QED
  BY <1>0, <1>2, <1>3, <1>4, <1>5, <1>6, <1>7, <1>8, <1>9, <1>10
     DEF InvoiceStep, I!ContinueCreation

-----------------------------------------------------------------------------
(* Who has which client.                                                   *)

\* Where the tickets of r are, by its stage.
Place(r) ==
  /\ Stage(r) \in {"idle", "looks", "over"} => ~ Holds(Tx(r))
  /\ Stage(r) \in {"runs", "states"} => Holds(Tx(r))
  /\ Stage(r) = "kept" => Holds(Tx(r)) \/ crashes > 0
  /\ IF Stage(r) = "connects" THEN Holds(Tx(r)) \/ Queued(Tx(r))
                              ELSE ~ Queued(Tx(r))
  /\ IF Stage(r) \in {"looks", "states"} THEN Holds(Stmt(r)) \/ Queued(Stmt(r))
                                         ELSE ~ Holds(Stmt(r)) /\ ~ Queued(Stmt(r))
  /\ r \in Drafts => ~ Holds(Tx(r)) /\ Stage(r) \notin {"connects", "runs", "states", "kept"}

\* What a step of r does to the pool is not seen by another request.
OnlyOf(r) == \A u \in Ticket \ {Tx(r), Stmt(r)} :
               /\ Holds(u)' <=> Holds(u)
               /\ Queued(u)' <=> Queued(u)

\* Each step of a request takes it to the place of its next await.
LEMMA UsesPlace ==
  ASSUME PoolInv, NEW r \in Requests, Place(r), Uses(r), UNCHANGED crashes
  PROVE  PoolInv' /\ OnlyOf(r) /\ Place(r)'
<1> USE DEF Moves
<1>0. Tx(r) \in Ticket /\ Stmt(r) \in Ticket /\ Tx(r) # Stmt(r)
  BY Tickets
<1>1. CASE /\ \E to \in {"idle", "over", "erred"} : Moves(r, "idle", to)
           /\ UNCHANGED poolVars
  BY <1>0, <1>1, PoolUnchanged DEF Place, OnlyOf
<1>2. CASE Moves(r, "idle", "looks") /\ Ask(Stmt(r))
  <2>1. ~ Holds(Stmt(r)) /\ ~ Queued(Stmt(r))
    BY <1>2 DEF Place
  <2>2. QED
    BY <1>0, <1>2, <2>1, Asking DEF Place, OnlyOf
<1>3. CASE /\ \E to \in {"idle", "erred"} : Moves(r, "looks", to)
           /\ Holds(Stmt(r)) /\ Return(Stmt(r))
  <2>1. ~ Queued(Stmt(r))
    BY <1>0, <1>3 DEF PoolInv, InPoolOnce
  <2>2. QED
    BY <1>0, <1>3, <2>1, Returning DEF Place, OnlyOf
<1>4. CASE Moves(r, "idle", "connects") /\ Ask(Tx(r)) /\ r \notin Drafts
  <2>1. ~ Holds(Tx(r)) /\ ~ Queued(Tx(r))
    BY <1>4 DEF Place
  <2>2. QED
    BY <1>0, <1>4, <2>1, Asking DEF Place, OnlyOf
<1>5. CASE \/ Moves(r, "connects", "states") /\ Holds(Tx(r)) /\ Ask(Stmt(r))
           \/ Moves(r, "runs", "states") /\ Ask(Stmt(r))
  <2>1. ~ Holds(Stmt(r)) /\ ~ Queued(Stmt(r)) /\ Holds(Tx(r)) /\ ~ Queued(Tx(r))
    BY <1>0, <1>5 DEF Place, PoolInv, InPoolOnce
  <2>2. QED
    BY <1>0, <1>5, <2>1, Asking DEF Place, OnlyOf
<1>6. CASE \/ Moves(r, "connects", "erred") /\ Holds(Tx(r)) /\ Return(Tx(r))
           \/ Moves(r, "runs", "over") /\ Return(Tx(r))
  <2>1. ~ Queued(Tx(r)) /\ ~ Queued(Stmt(r)) /\ ~ Holds(Stmt(r))
    BY <1>0, <1>6 DEF Place, PoolInv, InPoolOnce
  <2>2. QED
    BY <1>0, <1>6, <2>1, Returning DEF Place, OnlyOf
<1>7. CASE /\ \/ Moves(r, "connects", "erred") /\ Holds(Tx(r))
              \/ \E to \in {"runs", "kept"} : Moves(r, "runs", to)
           /\ UNCHANGED poolVars
  <2>1. Holds(Tx(r)) /\ ~ Queued(Tx(r))
    BY <1>0, <1>7 DEF Place, PoolInv, InPoolOnce
  <2>2. QED
    BY <1>0, <1>7, <2>1, PoolUnchanged DEF Place, OnlyOf
<1>8. CASE /\ Moves(r, "states", "states")
           /\ Holds(Stmt(r)) /\ ReturnAndAsk(Stmt(r), Stmt(r))
  BY <1>0, <1>8, ReturningAndAsking DEF Place, OnlyOf
<1>9. CASE /\ \E to \in {"runs", "kept", "erred"} : Moves(r, "states", to)
           /\ Holds(Stmt(r)) /\ Return(Stmt(r))
  <2>1. ~ Queued(Stmt(r))
    BY <1>0, <1>9 DEF PoolInv, InPoolOnce
  <2>2. QED
    BY <1>0, <1>9, <2>1, Returning DEF Place, OnlyOf
<1>10. QED
  BY <1>1, <1>2, <1>3, <1>4, <1>5, <1>6, <1>7, <1>8, <1>9 DEF Uses

\* What a request does with its own tickets is nothing to the others.
LEMMA OthersStay ==
  ASSUME NEW r \in Requests, NEW s \in Requests \ {r},
         OnlyOf(r), OthersWait(r), UNCHANGED crashes, Place(s)
  PROVE  /\ Place(s)'
         /\ Holds(Tx(s))' <=> Holds(Tx(s))
         /\ Queued(Stmt(s))' <=> Queued(Stmt(s))
<1>1. /\ Tx(s) \in Ticket \ {Tx(r), Stmt(r)}
      /\ Stmt(s) \in Ticket \ {Tx(r), Stmt(r)}
  BY Tickets, TicketsDiffer
<1>2. /\ Holds(Tx(s))' <=> Holds(Tx(s))
      /\ Queued(Tx(s))' <=> Queued(Tx(s))
      /\ Holds(Stmt(s))' <=> Holds(Stmt(s))
      /\ Queued(Stmt(s))' <=> Queued(Stmt(s))
  BY <1>1 DEF OnlyOf
<1>3. Stage(s)' = Stage(s)
  BY DEF OthersWait
<1>4. QED
  BY <1>2, <1>3 DEF Place

\* A granted client changes "waits" into "has" for one ticket.
LEMMA PlaceGrant ==
  ASSUME PoolInv, Grant, NEW r \in Requests, Place(r),
         Stage(r)' = Stage(r), UNCHANGED crashes
  PROVE  /\ Place(r)'
         /\ Stage(r) # "connects" => (Holds(Tx(r))' <=> Holds(Tx(r)))
<1>1. Tx(r) \in Ticket /\ Stmt(r) \in Ticket
  BY Tickets
<1>2. PICK t \in Ticket :
        /\ Queued(t)
        /\ \A u \in Ticket : /\ Holds(u)' <=> Holds(u) \/ u = t
                             /\ Queued(u)' <=> Queued(u) /\ u # t
  BY Granting
<1>3. Stage(r) # "connects" => (Holds(Tx(r))' <=> Holds(Tx(r)))
  BY <1>1, <1>2 DEF Place
<1>4. /\ ~ Queued(Tx(r)) => ~ Queued(Tx(r))'
      /\ Holds(Tx(r)) \/ Queued(Tx(r)) <=> Holds(Tx(r))' \/ Queued(Tx(r))'
      /\ Holds(Stmt(r)) \/ Queued(Stmt(r)) <=> Holds(Stmt(r))' \/ Queued(Stmt(r))'
  BY <1>1, <1>2
<1>5. r \in Drafts => Stage(r) # "connects"
  BY DEF Place
<1>6. QED
  BY <1>3, <1>4, <1>5 DEF Place

-----------------------------------------------------------------------------
(* The steps of the server.                                                *)

\* A step is one of a request, of the pool, of the surroundings (which neither
\* moves a request nor touches the pool), or a restart.
LEMMA Steps ==
  ASSUME Next
  PROVE  \/ \E r \in Registrations : RegistrationStep(r)
         \/ \E r \in Drafts \cup Creations : InvoiceStep(r)
         \/ Grant /\ UNCHANGED <<regPc, invPc, crashes>>
         \/ UNCHANGED <<regPc, invPc, crashes, poolVars>>
         \/ Crash
<1>1. CASE Arrive
  BY <1>1 DEF Arrive, Registering, Invoicing, RegistrationStep, InvoiceStep,
              regVars, invoiceVars
<1>2. CASE Serve
  BY <1>2 DEF Serve, regVars, invoiceVars
<1>3. CASE \E r \in Registrations : ContinueRegistration(r)
  BY <1>3 DEF ContinueRegistration, Registering, RegistrationStep, invoiceVars
<1>4. CASE \E d \in Drafts : ContinueDraft(d)
  BY <1>4 DEF ContinueDraft, Invoicing, InvoiceStep, regVars
<1>5. CASE \E i \in Creations : ContinueCreation(i)
  BY <1>5 DEF ContinueCreation, Invoicing, InvoiceStep, regVars
<1>6. CASE Environment
  BY <1>6 DEF Environment, Invoicing, I!SendMail, I!Expire, I!poolVars, poolVars,
              regVars
<1>7. CASE Fail
  BY <1>7 DEF Fail, R!Fail, I!Fail, RegistrationStep, InvoiceStep, regVars,
              invoiceVars
<1>8. QED
  BY <1>1, <1>2, <1>3, <1>4, <1>5, <1>6, <1>7 DEF Next

\* Whatever request moves, it does one thing with the pool.
LEMMA RequestStep ==
  ASSUME Control,
         \/ \E r \in Registrations : RegistrationStep(r)
         \/ \E r \in Drafts \cup Creations : InvoiceStep(r)
  PROVE  /\ Control' /\ UNCHANGED crashes
         /\ \E r \in Requests : Uses(r) /\ OthersWait(r)
BY RegistrationUses, DraftUses, CreationUses, ServerAssumption
   DEF RegistrationStep, InvoiceStep

\* After a restart, whoever had begun is over.
LEMMA CrashStages ==
  ASSUME Control, Crash
  PROVE  /\ Control' /\ crashes' > 0
         /\ \A r \in Requests : \/ Stage(r)' = "over"
                                \/ /\ Stage(r)' \in {"idle", "kept", "erred"}
                                   /\ Stage(r)' = Stage(r)
<1>1. /\ crashes' = crashes + 1
      /\ regPc' = [r \in Registrations |->
                     IF regPc[r] \in R!Answers \cup {"new"} THEN regPc[r] ELSE "dead"]
      /\ invPc' = [r \in Drafts \cup Creations |->
                     IF invPc[r] \in I!Answers \cup {"new"} THEN invPc[r] ELSE "dead"]
  BY DEF Crash, R!RegistrationsDie, I!InvoicesDie
<1>2. Control' /\ crashes' > 0
  BY <1>1 DEF Control, RegistrationLabels, R!Answers, I!Answers, DraftLabels,
              CreationLabels
<1>3. ASSUME NEW r \in Registrations
      PROVE  \/ Stage(r)' = "over"
             \/ Stage(r)' \in {"idle", "kept", "erred"} /\ Stage(r)' = Stage(r)
  BY <1>1 DEF Stage, RegistrationStage, R!Answers, R!Checks, R!Inserts, R!InTry
<1>4. ASSUME NEW r \in Drafts \cup Creations
      PROVE  \/ Stage(r)' = "over"
             \/ Stage(r)' \in {"idle", "kept", "erred"} /\ Stage(r)' = Stage(r)
  BY <1>1, ServerAssumption DEF Stage, InvoiceStage, I!Answers, I!Statements, I!InTry
<1>5. QED
  BY <1>2, <1>3, <1>4 DEF Stage

-----------------------------------------------------------------------------
(* The invariant.                                                          *)

IInv == /\ Control
        /\ PoolInv
        /\ \A r \in Requests : Place(r)

\* Nobody has begun.
LEMMA InvInit == Init => IInv
<1> SUFFICES ASSUME Init PROVE IInv
  OBVIOUS
<1>1. /\ regPc = [r \in Registrations |-> "new"]
      /\ invPc = [r \in Drafts \cup Creations |-> "new"]
      /\ crashes = 0
  BY DEF Init, R!RegInit, I!InvoicesInit
<1>2. PoolInv /\ \A t \in Ticket : ~ Holds(t) /\ ~ Queued(t)
  BY FreshPool DEF Init
<1>3. Control
  BY <1>1 DEF Control, RegistrationLabels, DraftLabels, CreationLabels
<1>4. \A r \in Requests : Stage(r) = "idle"
  BY <1>1 DEF Stage, RegistrationStage, InvoiceStage, R!Checks, R!Inserts, R!InTry,
              I!Statements, I!InTry
<1>5. \A r \in Requests : Place(r)
  BY <1>2, <1>4, Tickets DEF Place
<1>6. QED
  BY <1>2, <1>3, <1>5 DEF IInv

\* Every step keeps it.
LEMMA InvNext == IInv /\ [Next]_vars => IInv'
<1> SUFFICES ASSUME IInv, [Next]_vars PROVE IInv'
  OBVIOUS
<1>0. Control /\ PoolInv /\ \A r \in Requests : Place(r)
  BY DEF IInv
<1>1. CASE \/ \E r \in Registrations : RegistrationStep(r)
           \/ \E r \in Drafts \cup Creations : InvoiceStep(r)
  <2>1. PICK r \in Requests : Uses(r) /\ OthersWait(r)
    BY <1>0, <1>1, RequestStep
  <2>2. Control' /\ UNCHANGED crashes
    BY <1>0, <1>1, RequestStep
  <2>3. PoolInv' /\ OnlyOf(r) /\ Place(r)'
    BY <1>0, <2>1, <2>2, UsesPlace
  <2>4. \A s \in Requests \ {r} : Place(s)'
    BY <1>0, <2>1, <2>2, <2>3, OthersStay
  <2>5. QED
    BY <2>2, <2>3, <2>4 DEF IInv
<1>2. ASSUME UNCHANGED <<regPc, invPc, crashes>>
      PROVE  Control' /\ \A r \in Requests : Stage(r)' = Stage(r)
  BY <1>0, <1>2 DEF Control, Stage
<1>3. CASE Grant /\ UNCHANGED <<regPc, invPc, crashes>>
  BY <1>0, <1>2, <1>3, Granting, PlaceGrant DEF IInv
<1>4. CASE UNCHANGED <<regPc, invPc, crashes, poolVars>>
  <2>1. PoolInv' /\ \A u \in Ticket : /\ Holds(u)' <=> Holds(u)
                                      /\ Queued(u)' <=> Queued(u)
    BY <1>0, <1>4, PoolUnchanged
  <2>2. \A r \in Requests : Place(r)'
    BY <1>0, <1>2, <1>4, <2>1, Tickets DEF Place
  <2>3. QED
    BY <1>2, <1>4, <2>1, <2>2 DEF IInv
<1>5. CASE Crash
  <2>1. PoolInv' /\ \A t \in Ticket : ~ Holds(t)' /\ ~ Queued(t)'
    BY <1>5, ResetEmpties DEF Crash
  <2>2. \A r \in Requests : Place(r)'
    BY <1>0, <1>5, <2>1, CrashStages, Tickets DEF Place
  <2>3. QED
    BY <1>0, <1>5, <2>1, <2>2, CrashStages DEF IInv
<1>6. CASE UNCHANGED vars
  BY <1>4, <1>6 DEF vars, regVars, invoiceVars, poolVars
<1>7. QED
  BY <1>1, <1>3, <1>4, <1>5, <1>6, Steps

\* So it holds in every state.
LEMMA InvHolds == Spec => []IInv
BY InvInit, InvNext, PTL DEF Spec

-----------------------------------------------------------------------------
(* The theorems.                                                           *)

\* The requests that hold something, or that are over, in terms of stages.
LEMMA StageOf ==
  ASSUME Control, NEW r \in Requests
  PROVE  /\ r \in Answered <=> Stage(r) \in {"over", "kept", "erred"}
         /\ Stage(r) # "idle" => r \in Accepted
         /\ r \in Keepers <=> /\ Stage(r) \in {"states", "kept", "erred"}
                              /\ r \notin Drafts
<1>1. CASE r \in Registrations
  BY <1>1, ServerAssumption
     DEF Control, Answered, Accepted, Keepers, Stage, RegistrationStage,
         RegistrationLabels, R!Answers, R!Checks, R!Inserts, R!InTry
<1>2. CASE r \in Drafts \cup Creations
  <2>1. Stage(r) = InvoiceStage(invPc[r])
    BY <1>2, ServerAssumption DEF Stage
  <2>2. r \in Creations => r \notin Drafts
    BY ServerAssumption
  <2>3. /\ r \in Drafts => invPc[r] \in DraftLabels
        /\ r \in Creations => invPc[r] \in CreationLabels
    BY DEF Control
  <2>4. r \notin Registrations
    BY <1>2, ServerAssumption
  <2>5. QED
    BY <1>2, <2>1, <2>2, <2>3, <2>4
       DEF Answered, Accepted, Keepers, InvoiceStage, DraftLabels,
           CreationLabels, I!Answers, I!Statements, I!InTry
<1>3. CASE r \notin Registrations \cup Drafts \cup Creations
  BY <1>3 DEF Answered, Accepted, Keepers, Stage
<1>4. QED
  BY <1>1, <1>2, <1>3

\* Both components account for the clients of the pool that they share.
THEOREM ClientsAreAccounted ==
  Spec => [](R!ClientsAccounted /\ I!ClientsAccounted)
<1>1. ASSUME IInv, NEW r \in Registrations
      PROVE  /\ regPc[r] \in R!Checks \cup R!InTry => R!Holds(R!Tx(r))
             /\ regPc[r] = "forbidden" => R!Holds(R!Tx(r)) \/ crashes > 0
             /\ regPc[r] \in {"new", "created", "failed", "dead"} => ~ R!Holds(R!Tx(r))
             /\ R!Holds(R!Stmt(r)) => regPc[r] \in R!Checks \cup R!Inserts
             /\ regPc[r] \in R!Checks \cup R!Inserts
                  => R!Holds(R!Stmt(r)) \/ R!Queued(R!Stmt(r))
  <2>1. Place(r) /\ Stage(r) = RegistrationStage(regPc[r])
    BY <1>1, ServerAssumption DEF IInv, Stage
  <2>2. /\ R!Holds(R!Tx(r)) <=> Holds(Tx(r))
        /\ R!Holds(R!Stmt(r)) <=> Holds(Stmt(r))
        /\ R!Queued(R!Stmt(r)) <=> Queued(Stmt(r))
    BY DEF R!Holds, R!Queued, R!Tx, R!Stmt, Holds, Queued, Tx, Stmt
  <2>3. QED
    BY <2>1, <2>2
       DEF Place, RegistrationStage, R!Answers, R!Checks, R!Inserts, R!InTry
<1>2. ASSUME IInv, NEW r \in Drafts \cup Creations
      PROVE  /\ Place(r) /\ Stage(r) = InvoiceStage(invPc[r])
             /\ I!Holds(I!Tx(r)) <=> Holds(Tx(r))
             /\ I!Holds(I!Stmt(r)) <=> Holds(Stmt(r))
  BY <1>2, ServerAssumption
     DEF IInv, Stage, I!Holds, I!Tx, I!Stmt, Holds, Tx, Stmt
<1>3. IInv => R!ClientsAccounted
  BY <1>1 DEF R!ClientsAccounted
<1>4. IInv => I!ClientsAccounted
  BY <1>2 DEF I!ClientsAccounted, Place, InvoiceStage, I!Answers, I!Statements,
              I!InTry
<1>5. QED
  BY <1>3, <1>4, InvHolds, PTL

\* The server stops only when its pool has run dry, for any number of requests
\* and clients.
THEOREM ServerNeverStuck == Spec => []NeverStuck
<1>1. ASSUME IInv, NEW c \in Clients, NEW s \in Requests,
             \/ holder[c] = Stmt(s)
             \/ holder[c] = Tx(s) /\ s \notin Answered /\ ~ Queued(Stmt(s))
      PROVE  CanContinue(s)
  <2>1. Place(s) /\ Control
    BY <1>1 DEF IInv
  <2>2. CASE holder[c] = Stmt(s)
    <3>1. Holds(Stmt(s))
      BY <2>2 DEF Holds
    <3>2. Stage(s) \in {"looks", "states"}
      BY <2>1, <3>1 DEF Place
    <3>3. QED
      BY <2>1, <3>1, <3>2, StageOf DEF CanContinue
  <2>3. CASE holder[c] = Tx(s) /\ s \notin Answered /\ ~ Queued(Stmt(s))
    <3>1. Holds(Tx(s))
      BY <2>3 DEF Holds
    <3>2. Stage(s) \notin {"idle", "looks"}
      BY <2>1, <3>1 DEF Place
    <3>3. Stage(s) = "states" => Holds(Stmt(s))
      BY <2>1, <2>3 DEF Place
    <3>4. QED
      BY <2>1, <2>3, <3>1, <3>2, <3>3, StageOf DEF CanContinue
  <2>4. QED
    BY <1>1, <2>2, <2>3
<1>2. ASSUME IInv, NEW r \in Accepted \ Answered, ~ NoClientLeft,
             \A s \in Requests : ~ CanContinue(s)
      PROVE  queue # <<>> /\ \E c \in Clients : holder[c] = Free
  <2>1. PICK c \in Clients : \A s \in Requests :
               holder[c] = Tx(s) => s \notin Answered /\ ~ Queued(Stmt(s))
    BY <1>2 DEF NoClientLeft, Exhausted
  <2>2. holder[c] = Free
    <3>1. holder[c] \in Ticket \cup {Free}
      BY <1>2 DEF IInv, PoolInv, PoolTypeOK
    <3>2. ASSUME holder[c] \in Ticket PROVE FALSE
      <4>1. PICK s \in Requests : holder[c] = Tx(s) \/ holder[c] = Stmt(s)
        BY <3>2 DEF Ticket, Tx, Stmt
      <4>2. CanContinue(s)
        BY <1>1, <1>2, <2>1, <4>1
      <4>3. QED
        BY <1>2, <4>2
    <3>3. QED
      BY <3>1, <3>2
  <2>3. queue # <<>>
    <3>1. r \in Requests
      BY ServerAssumption DEF Accepted
    <3>2. Place(r)
      BY <1>2, <3>1 DEF IInv
    <3>3. Queued(Tx(r)) \/ Queued(Stmt(r))
      BY <1>2, <3>1, <3>2 DEF CanContinue, Place
    <3>4. QED
      BY <3>3 DEF Queued
  <2>4. QED
    BY <2>2, <2>3
<1>3. IInv => NeverStuck
  BY <1>2 DEF NeverStuck
<1>4. QED
  BY <1>3, InvHolds, PTL

\* A pool that runs dry is shared out among as many requests as it has clients.
THEOREM DryPoolIsSharedOut == Spec => []DryTakesAsMany
<1>1. ASSUME IInv, NoClientLeft
      PROVE  Cardinality(Clients) <= Cardinality(Keepers)
  <2> DEFINE f == [c \in Clients |-> CHOOSE r \in Keepers : holder[c] = Tx(r)]
  <2>1. ASSUME NEW c \in Clients
        PROVE  \E r \in Keepers : holder[c] = Tx(r)
    <3>1. PICK r \in Requests : holder[c] = Tx(r) /\ (r \in Answered \/ Queued(Stmt(r)))
      BY <1>1 DEF NoClientLeft, Exhausted
    <3>2. Holds(Tx(r)) /\ Place(r) /\ Control
      BY <1>1, <3>1 DEF IInv, Holds
    <3>3. Stage(r) \in {"states", "kept", "erred"} /\ r \notin Drafts
      BY <3>1, <3>2, StageOf DEF Place
    <3>4. QED
      BY <3>1, <3>2, <3>3, StageOf
  <2>2. \A c \in Clients : f[c] \in Keepers /\ holder[c] = Tx(f[c])
    BY <2>1
  <2>3. \A c \in Clients : holder[c] # Free
    BY <2>2, Tickets, PoolAssumption, ServerAssumption DEF Keepers
  <2>4. \A c, d \in Clients : f[c] = f[d] => c = d
    <3>1. SUFFICES ASSUME NEW c \in Clients, NEW d \in Clients, f[c] = f[d]
                   PROVE  c = d
      OBVIOUS
    <3>2. holder[c] = holder[d]
      BY <2>2, <3>1
    <3>3. QED
      BY <1>1, <2>3, <3>2 DEF IInv, PoolInv, InPoolOnce
  <2>5. f \in Injection(Clients, Keepers)
    BY <2>2, <2>4 DEF Injection, IsInjective
  <2>6. IsFiniteSet(Keepers)
    BY FS_Subset, ServerAssumption DEF Keepers
  <2>7. QED
    BY <2>5, <2>6, FS_Injection
<1>2. IInv => DryTakesAsMany
  BY <1>1 DEF DryTakesAsMany
<1>3. QED
  BY <1>2, InvHolds, PTL

\* While the pool is dry, no step of a request frees a client.
LEMMA DryStep ==
  ASSUME IInv, NoClientLeft, NEW r \in Requests, Uses(r)
  PROVE  /\ UNCHANGED holder
         /\ \A t \in Ticket : Queued(t) => Queued(t)'
<1>0. PoolInv /\ PoolTypeOK /\ Place(r) /\ Control
  BY DEF IInv, PoolInv
<1>1. ~ Holds(Stmt(r))
  BY TicketsDiffer, Tickets DEF NoClientLeft, Exhausted, Holds, Tx, Stmt
<1>2. Holds(Tx(r)) => r \in Answered \/ Queued(Stmt(r))
  BY TicketsDiffer DEF NoClientLeft, Exhausted, Holds
<1>3. CASE UNCHANGED poolVars
  BY <1>3 DEF poolVars, Queued
<1>4. ASSUME NEW t \in Ticket, Ask(t)
      PROVE  UNCHANGED holder /\ \A u \in Ticket : Queued(u) => Queued(u)'
  BY <1>0, <1>4, Appending DEF Ask
<1>5. ~ (Stage(r) \in {"connects", "runs"} /\ Holds(Tx(r)))
  BY <1>0, <1>2, StageOf DEF Place
<1>6. Stage(r) # "runs"
  BY <1>0, <1>5 DEF Place
<1>7. QED
  BY <1>1, <1>3, <1>4, <1>5, <1>6, Tickets DEF Uses, Moves

\* No waiting request gives up, no answer and no error frees a client: a dry
\* pool stays dry until the restart.
THEOREM DryPoolStaysDry == Spec => ExhaustedForGood
<1>1. ASSUME Control, Control',
             \A s \in Requests : \/ Stage(s)' = Stage(s)
                                 \/ Stage(s) \notin {"over", "kept", "erred"}
      PROVE  \A s \in Requests : s \in Answered => s \in Answered'
  <2>1. SUFFICES ASSUME NEW s \in Requests, s \in Answered
                 PROVE  s \in Answered'
    OBVIOUS
  <2>2. Stage(s)' \in {"over", "kept", "erred"}
    BY <1>1, <2>1, StageOf
  <2>3. s \in Answered' <=> Stage(s)' \in {"over", "kept", "erred"}
    <3>1. CASE s \in Registrations
      BY <1>1, <3>1, ServerAssumption
         DEF Control, Answered, Stage, RegistrationStage,
             RegistrationLabels, R!Answers, R!Checks, R!Inserts, R!InTry
    <3>2. CASE s \in Drafts \cup Creations
      BY <1>1, <3>2, ServerAssumption
         DEF Control, Answered, Stage, InvoiceStage, DraftLabels,
             CreationLabels, I!Answers, I!Statements, I!InTry
    <3>3. CASE s \notin Registrations \cup Drafts \cup Creations
      BY <3>3 DEF Answered, Stage
    <3>4. QED
      BY <3>1, <3>2, <3>3
  <2>4. QED
    BY <2>2, <2>3
<1>2. ASSUME NoClientLeft, UNCHANGED holder,
             \A s \in Requests : s \in Answered => s \in Answered',
             \A t \in Ticket : Queued(t) => Queued(t)'
      PROVE  NoClientLeft'
  BY <1>2, Tickets DEF NoClientLeft, Exhausted, Tx
<1>3. ASSUME IInv, [Next]_vars, NoClientLeft
      PROVE  NoClientLeft' \/ crashes' # crashes
  <2>0. Control /\ PoolInv /\ PoolTypeOK /\ Control'
    BY <1>3, InvNext DEF IInv, PoolInv
  <2>1. CASE \/ \E r \in Registrations : RegistrationStep(r)
             \/ \E r \in Drafts \cup Creations : InvoiceStep(r)
    <3>1. PICK r \in Requests : Uses(r) /\ OthersWait(r)
      BY <2>0, <2>1, RequestStep
    <3>2. Stage(r) \notin {"over", "kept", "erred"}
      BY <3>1 DEF Uses, Moves
    <3>3. \A s \in Requests : s \in Answered => s \in Answered'
      BY <1>1, <2>0, <3>1, <3>2 DEF OthersWait
    <3>4. QED
      BY <1>2, <1>3, <3>1, <3>3, DryStep
  <2>2. ASSUME UNCHANGED <<regPc, invPc, poolVars>>
        PROVE  NoClientLeft'
    BY <1>3, <2>2 DEF NoClientLeft, Exhausted, Answered, Queued, Tx, Stmt, poolVars
  <2>3. CASE Grant /\ UNCHANGED <<regPc, invPc, crashes>>
    <3>1. \A c \in Clients : holder[c] # Free
      BY <1>3, Tickets, PoolAssumption DEF NoClientLeft, Exhausted
    <3>2. QED
      BY <2>3, <3>1 DEF Grant
  <2>4. CASE Crash
    BY <2>0, <2>4 DEF Crash, Control
  <2>5. QED
    BY <1>3, <2>1, <2>2, <2>3, <2>4, Steps DEF vars, regVars, invoiceVars, poolVars
<1>4. IInv /\ [Next]_vars => [NoClientLeft => NoClientLeft' \/ crashes' # crashes]_vars
  BY <1>3
<1>5. QED
  BY <1>4, InvHolds, PTL DEF Spec, ExhaustedForGood

-----------------------------------------------------------------------------
(* The server implements PoolUse.                                          *)

\* One step of a request is one of PoolUse.
LEMMA UsesPool ==
  ASSUME PoolInv, NEW r \in Requests, Place(r), Place(r)', Uses(r),
         PoolInv', OnlyOf(r), OthersWait(r)
  PROVE  Pool!Uses(r)
<1>0. /\ Tx(r) \in Ticket /\ Stmt(r) \in Ticket /\ Tx(r) # Stmt(r)
      /\ \A s \in Requests \ {r} : Tx(s) \in Ticket \ {Tx(r), Stmt(r)}
  BY Tickets, TicketsDiffer
<1>1. \A s \in Requests \ {r} : Phase(s)' = Phase(s)
  BY <1>0 DEF Phase, OthersWait, OnlyOf
<1>2. ASSUME NEW from, NEW to, Phase(r) = from, Phase(r)' = to
      PROVE  Pool!Goes(r, from, to)
  BY <1>1, <1>2 DEF Pool!Goes
<1>3. ASSUME NEW from \in {"idle", "looks", "connects", "runs", "states"},
             NEW to \in {"idle", "looks", "connects", "runs", "states", "over"},
             Moves(r, from, to)
      PROVE  Pool!Goes(r, from, to)
  BY <1>2, <1>3 DEF Moves, Phase
<1>4. ASSUME NEW from \in {"idle", "looks", "connects", "runs", "states"},
             NEW to \in {"kept", "erred"}, Moves(r, from, to)
      PROVE  Pool!Goes(r, from, IF Holds(Tx(r))' THEN "unreleased" ELSE "over")
  BY <1>2, <1>4 DEF Moves, Phase
<1> USE DEF Pool!Uses, Pool!Ask, Pool!Return, Pool!ReturnAndAsk, Pool!Without, Pool!Holds,
            Pool!Tx, Pool!Stmt, Pool!poolVars
<1>5. CASE /\ \E to \in {"idle", "over", "erred"} : Moves(r, "idle", to)
           /\ UNCHANGED poolVars
  <2>1. ~ Holds(Tx(r))'
    BY <1>0, <1>5, PoolUnchanged DEF Place, Moves
  <2>2. \E to \in {"idle", "over"} : Pool!Goes(r, "idle", to)
    BY <1>3, <1>4, <1>5, <2>1
  <2>3. QED
    BY <1>5, <2>2 DEF Pool!Pause, poolVars
<1>6. CASE Moves(r, "idle", "looks") /\ Ask(Stmt(r))
  BY <1>3, <1>6 DEF Pool!Look, Ask, Stmt
<1>7. CASE /\ \E to \in {"idle", "erred"} : Moves(r, "looks", to)
           /\ Holds(Stmt(r)) /\ Return(Stmt(r))
  <2>1. ~ Holds(Tx(r))'
    BY <1>0, <1>7, Returning DEF Place, Moves
  <2>2. \E to \in {"idle", "over"} : Pool!Goes(r, "looks", to)
    BY <1>3, <1>4, <1>7, <2>1
  <2>3. QED
    BY <1>7, <2>2 DEF Pool!Looked, Return, Without, Holds, Stmt
<1>8. CASE Moves(r, "idle", "connects") /\ Ask(Tx(r))
  BY <1>3, <1>8 DEF Pool!Connect, Ask, Tx
<1>9. CASE Moves(r, "connects", "states") /\ Holds(Tx(r)) /\ Ask(Stmt(r))
  BY <1>3, <1>9 DEF Pool!Begin, Ask, Holds, Tx, Stmt
<1>10. CASE Moves(r, "connects", "erred") /\ Holds(Tx(r)) /\ Return(Tx(r))
  <2>1. ~ Holds(Tx(r))'
    BY <1>0, <1>10, Returning
  <2>2. Pool!Goes(r, "connects", "over")
    BY <1>4, <1>10, <2>1
  <2>3. QED
    BY <1>10, <2>2 DEF Pool!FailToBegin, Return, Without, Holds, Tx
<1>11. CASE Moves(r, "connects", "erred") /\ Holds(Tx(r)) /\ UNCHANGED poolVars
  <2>1. Holds(Tx(r))'
    BY <1>0, <1>11, PoolUnchanged
  <2>2. Pool!Goes(r, "connects", "unreleased")
    BY <1>4, <1>11, <2>1
  <2>3. QED
    BY <1>11, <2>2 DEF Pool!FailToBegin, poolVars, Holds, Tx
<1>12. CASE Moves(r, "runs", "states") /\ Ask(Stmt(r))
  BY <1>3, <1>12 DEF Pool!Statement, Ask, Stmt
<1>13. CASE /\ Moves(r, "states", "states")
            /\ Holds(Stmt(r)) /\ ReturnAndAsk(Stmt(r), Stmt(r))
  BY <1>3, <1>13 DEF Pool!NextStatement, ReturnAndAsk, Without, Holds, Stmt
<1>14. CASE /\ \E to \in {"runs", "kept", "erred"} : Moves(r, "states", to)
            /\ Holds(Stmt(r)) /\ Return(Stmt(r))
  <2>1. Holds(Tx(r))'
    BY <1>0, <1>14, Returning DEF Place, Moves
  <2>2. \E to \in {"runs", "unreleased"} : Pool!Goes(r, "states", to)
    BY <1>3, <1>4, <1>14, <2>1
  <2>3. QED
    BY <1>14, <2>2 DEF Pool!LastStatement, Return, Without, Holds, Stmt
<1>15. CASE Moves(r, "runs", "over") /\ Return(Tx(r))
  BY <1>3, <1>15 DEF Pool!Release, Return, Without, Tx
<1>16. CASE /\ \E to \in {"runs", "kept"} : Moves(r, "runs", to)
            /\ UNCHANGED poolVars
  <2>1. Holds(Tx(r))'
    BY <1>0, <1>16, PoolUnchanged DEF Place, Moves
  <2>2. \E to \in {"runs", "unreleased"} : Pool!Goes(r, "runs", to)
    BY <1>3, <1>4, <1>16, <2>1
  <2>3. QED
    BY <1>16, <2>2 DEF Pool!KeepClient, poolVars
<1>17. QED
  BY <1>5, <1>6, <1>7, <1>8, <1>9, <1>10, <1>11, <1>12, <1>13, <1>14, <1>15, <1>16
     DEF Uses

\* A step of the server is a step of PoolUse or changes nothing there.
LEMMA PoolNext == IInv /\ IInv' /\ [Next]_vars => [Pool!Next]_Pool!useVars
<1> SUFFICES ASSUME IInv, IInv', [Next]_vars
             PROVE  Pool!Next \/ UNCHANGED Pool!useVars
  OBVIOUS
<1>0. /\ Control /\ PoolInv /\ \A r \in Requests : Place(r)
      /\ PoolInv' /\ \A r \in Requests : Place(r)'
  BY DEF IInv
<1>1. CASE \/ \E r \in Registrations : RegistrationStep(r)
           \/ \E r \in Drafts \cup Creations : InvoiceStep(r)
  <2>1. PICK r \in Requests : Uses(r) /\ OthersWait(r)
    BY <1>0, <1>1, RequestStep
  <2>2. OnlyOf(r)
    BY <1>0, <1>1, <2>1, UsesPlace, RequestStep
  <2>3. Pool!Uses(r)
    BY <1>0, <2>1, <2>2, UsesPool
  <2>4. QED
    BY <2>3 DEF Pool!Next
<1>2. CASE Grant /\ UNCHANGED <<regPc, invPc, crashes>>
  <2>1. \A r \in Requests : Stage(r)' = Stage(r)
    BY <1>2 DEF Stage
  <2>2. \A r \in Requests : Phase(r)' = Phase(r)
    BY <1>0, <1>2, <2>1, PlaceGrant DEF Phase
  <2>3. [r \in Requests |-> Phase(r)]' = [r \in Requests |-> Phase(r)]
    BY <2>2
  <2>4. QED
    BY <1>2, <2>3 DEF Grant, Pool!Grant, Pool!Next
<1>3. CASE UNCHANGED <<regPc, invPc, crashes, poolVars>>
  <2>1. \A r \in Requests : Phase(r)' = Phase(r)
    BY <1>3 DEF Phase, Stage, Holds, poolVars, Tx
  <2>2. [r \in Requests |-> Phase(r)]' = [r \in Requests |-> Phase(r)]
    BY <2>1
  <2>3. QED
    BY <1>3, <2>2 DEF Pool!useVars, poolVars
<1>4. CASE Crash
  <2> DEFINE begun == {r \in Requests : Phase(r)' = "over"}
  <2>1. \A r \in Requests : ~ Holds(Tx(r))'
    BY <1>4, ResetEmpties, Tickets DEF Crash
  <2>2. \A r \in Requests : \/ Phase(r)' = "over"
                            \/ Phase(r)' = "idle" /\ Phase(r) = "idle"
    BY <1>0, <1>4, <2>1, CrashStages DEF Phase
  <2>3. [r \in Requests |-> Phase(r)]' =
          [r \in Requests |-> IF r \in begun THEN "over" ELSE "idle"]
    BY <2>2
  <2>4. begun \in SUBSET Requests /\ \A r \in Requests \ begun : Phase(r) = "idle"
    BY <2>2
  <2>5. Pool!Restart
    BY <1>4, <2>3, <2>4 DEF Pool!Restart, Crash, Pool!ResetPool, ResetPool
  <2>6. QED
    BY <2>5 DEF Pool!Next
<1>5. CASE UNCHANGED vars
  BY <1>3, <1>5 DEF vars, regVars, invoiceVars, poolVars
<1>6. QED
  BY <1>1, <1>2, <1>3, <1>4, <1>5, Steps

\* Registrations and invoices together use the pool as PoolUse says: its initial
\* states are those of the server, and each step is one of its steps or none.
THEOREM ServerUsesPool == Spec => PoolSpec
<1>1. Init => Pool!Init
  <2>1. ASSUME Init PROVE \A r \in Requests : Phase(r) = "idle"
    BY <2>1 DEF Init, R!RegInit, I!InvoicesInit, Phase, Stage, RegistrationStage,
                InvoiceStage, R!Checks, R!Inserts, R!InTry, I!Statements, I!InTry
  <2>2. QED
    BY <2>1 DEF Init, Pool!Init, PoolInit, Pool!PoolInit
<1>2. QED
  BY <1>1, PoolNext, InvHolds, PTL DEF Spec, PoolSpec, Pool!Spec

=============================================================================

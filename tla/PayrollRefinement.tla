-------------------------- MODULE PayrollRefinement --------------------------
(* The payroll core implements the payment ledger, proved for every value  *)
(* of the constants.                                                       *)
EXTENDS PayrollProofs, PayrollLedger

-----------------------------------------------------------------------------
(* What the steps do to the books, read through the refinement mapping.    *)

\* The requests about to insert a payment stay as they are.
InsertsStay == \A q \in Procs :
  /\ pc'[q] = "st_insert" <=> pc[q] = "st_insert"
  /\ pc[q] = "st_insert" => req'[q] = req[q]

\* Only addHash and the insert of a payment touch payments and what is marked;
\* beside addHash only an upload touches what sheets brought.
LEMMA OthersKeepBooks ==
  ASSUME TypeOK, NEW p \in Procs,
         Start(p) \/ (Continue(p) /\ ~ AddHash(p) /\ ~ InsertPayment(p))
  PROVE  /\ InsertsStay /\ UNCHANGED <<payments, chain, stranded>>
         /\ ~ UploadTransfers(p) => brought' = brought
<1>1. /\ UNCHANGED <<payments, chain, stranded>>
      /\ ~ UploadTransfers(p) => brought' = brought
  BY DEF Start, EditTransfer, DeleteTransfer, DeleteMultipleFind,
    CreateFromDbEmployees, UploadTransfers, SaveTransactionCheck,
    CreateEmployeeCheck, EditEmployeeFind, RemoveEmployeeFind, AddWallet,
    Continue, DeleteMultiple, CreateFromDbPending,
    CreateFromDbLoad, CreateFromDbSave, UploadEmployee, GetTransaction,
    GetTransactionReceipt, CreateEmployee, EditEmployee,
    RemoveEmployeeTransfers, RemoveEmployee, db
<1>2. ASSUME NEW q \in Procs, q # p
      PROVE  pc'[q] = pc[q] /\ req'[q] = req[q]
  BY <1>2, OneRequestMoves
<1>3. \A label, r : label # "st_insert" /\ Await(p, label, r)
                    => pc'[p] # "st_insert"
  BY DEF Await, TypeOK
<1>4. pc[p] # "st_insert" /\ pc'[p] # "st_insert"
  <2>1. CASE Start(p)
    <3>1. CASE UploadTransfers(p)
      BY <1>3, <3>1, SheetRows DEF UploadTransfers, Call
    <3>2. CASE ~ UploadTransfers(p)
      BY <1>3, <2>1, <3>2 DEF Start, Call, EditTransfer, DeleteTransfer,
        DeleteMultipleFind, CreateFromDbEmployees, SaveTransactionCheck,
        CreateEmployeeCheck, EditEmployeeFind, RemoveEmployeeFind, AddWallet
    <3>3. QED
      BY <3>1, <3>2
  <2>2. CASE Continue(p) /\ ~ AddHash(p) /\ ~ InsertPayment(p)
    BY <1>3, <2>2 DEF Continue, Respond, DeleteMultiple, CreateFromDbPending,
      CreateFromDbLoad, CreateFromDbSave, UploadEmployee, GetTransaction,
      GetTransactionReceipt, CreateEmployee, EditEmployee,
      RemoveEmployeeTransfers, RemoveEmployee
  <2>3. QED
    BY <2>1, <2>2
<1>5. QED
  BY <1>1, <1>2, <1>4 DEF InsertsStay

\* What is marked then stays the same.
LEMMA MarkedKept ==
  ASSUME InsertsStay, UNCHANGED <<payments, stranded>>
  PROVE  Marked' = Marked
BY DEF InsertsStay, Marked, Recorded, InsertUnderWay

\* When an insert ends without a payment, its hash is among the stranded.
LEMMA MarkedGivenUp ==
  ASSUME TypeOK, NEW p \in Procs, pc[p] = "st_insert", Respond(p),
         stranded' = stranded \cup {req[p].hash}, payments' = payments
  PROVE  Marked' = Marked
<1>1. pc'[p] = "idle" /\ \A q \in Procs : q # p => /\ pc'[q] = pc[q]
                                                   /\ req'[q] = req[q]
  BY DEF Respond, Await, TypeOK
<1>2. QED
  BY <1>1 DEF Marked, Recorded, InsertUnderWay

-----------------------------------------------------------------------------
(* Steps of the tables that are steps of the ledger.                       *)

\* A step that opens the transfers in S ...
LEMMA IsReopen ==
  ASSUME NEW S \in SUBSET Tids,
         \A t \in Tids : (StateOf(t))' = IF t \in S THEN Open ELSE StateOf(t),
         Marked' = Marked, UNCHANGED <<payments, chain, brought>>
  PROVE  Ledger!Next
<1>1. Ledger!Reopen(S)
  BY DEF Ledger!Reopen, Ledger!Set, Recorded, Mined
<1>2. QED
  BY <1>1 DEF Ledger!Next

\* ... one that drops them ...
LEMMA IsDrop ==
  ASSUME NEW S \in SUBSET Tids,
         \A t \in Tids : (StateOf(t))' = IF t \in S THEN Absent ELSE StateOf(t),
         Marked' = Marked, UNCHANGED <<payments, chain, brought>>
  PROVE  Ledger!Next
<1>1. Ledger!Drop(S)
  BY DEF Ledger!Drop, Ledger!Set, Recorded, Mined
<1>2. QED
  BY <1>1 DEF Ledger!Next

\* ... and one that leaves them alone.
LEMMA IsStutter ==
  ASSUME \A t \in Tids : (StateOf(t))' = StateOf(t),
         Marked' = Marked, UNCHANGED <<payments, chain, brought>>
  PROVE  UNCHANGED Ledger!vars
BY DEF Ledger!vars, Recorded, Mined

\* The step of another request, or of this one, that keeps the books.
LEMMA TransfersStep ==
  ASSUME Safety, NEW p \in Procs, ~ UploadTransfers(p),
         Start(p) \/ (Continue(p) /\ ~ AddHash(p) /\ ~ InsertPayment(p))
  PROVE  [Ledger!Next]_(Ledger!vars)
<1>1. Marked' = Marked /\ UNCHANGED <<payments, chain, brought>>
  BY OthersKeepBooks, MarkedKept DEF Safety
<1>2. CASE transfers' = transfers
  BY <1>1, <1>2, IsStutter DEF StateOf
<1>3. CASE EditTransfer(p)
  <2>1. \A t \in Tids : (StateOf(t))' = StateOf(t)
    BY <1>3, LedgerAssumption, ConstantsAssumption
    DEF EditTransfer, StateOf, Safety, TypeOK, Table, TransferRow
  <2>2. QED
    BY <1>1, <2>1, IsStutter
<1>4. CASE DeleteTransfer(p)
  <2>1. PICK d \in Tids : transfers' = [transfers EXCEPT ![d] = Absent]
    BY <1>4 DEF DeleteTransfer
  <2>2. \A t \in Tids :
          (StateOf(t))' = IF t \in {d} THEN Absent ELSE StateOf(t)
    BY <2>1 DEF StateOf, Safety, TypeOK, Table
  <2>3. QED
    BY <1>1, <2>2, IsDrop
<1>5. CASE DeleteMultiple(p)
  <2>1. req[p].tids \in SUBSET Tids
    BY DEF Safety, TypeOK, Request
  <2>2. \A t \in Tids :
          (StateOf(t))' = IF t \in req[p].tids THEN Absent ELSE StateOf(t)
    BY <1>5 DEF DeleteMultiple, StateOf
  <2>3. QED
    BY <1>1, <2>1, <2>2, IsDrop
<1>6. CASE RemoveEmployeeTransfers(p)
  <2> DEFINE gone == {t \in Tids : Pending(t) /\ transfers[t].wallet = req[p].wallet}
  <2>1. \A t \in Tids :
          (StateOf(t))' = IF t \in gone THEN Absent ELSE StateOf(t)
    BY <1>6 DEF RemoveEmployeeTransfers, StateOf
  <2>2. QED
    BY <1>1, <2>1, IsDrop
<1>7. CASE CreateFromDbSave(p)
  <2> DEFINE open == {t \in Tids : (StateOf(t))' = Open}
  <2>1. ASSUME NEW t \in Tids, transfers[t] # Absent
        PROVE  transfers'[t] # Absent
    <3>1. req[p].loaded \in Table /\ req[p].list \in Table
          /\ transfers \in Table
      BY DEF Safety, TypeOK, Request
    <3>2. \/ transfers'[t] = transfers[t]
          \/ req[p].list[t] # Absent /\ transfers'[t] = req[p].list[t]
          \/ /\ req[p].list[t] # Absent /\ req[p].loaded[t] # Absent
             /\ transfers'[t] =
                  Merge(transfers[t], req[p].loaded[t], req[p].list[t])
      BY <1>7, <2>1 DEF CreateFromDbSave
    <3>3. CASE transfers'[t] =
                 Merge(transfers[t], req[p].loaded[t], req[p].list[t])
               /\ req[p].list[t] # Absent /\ req[p].loaded[t] # Absent
      <4>1. transfers'[t] \in TransferRow
        BY <2>1, <3>1, <3>3, MergeType DEF Table
      <4>2. QED
        BY <4>1, ConstantsAssumption
    <3>4. QED
      BY <2>1, <3>2, <3>3
  <2>2. ASSUME NEW t \in Tids
        PROVE  (StateOf(t))' = IF t \in open THEN Open ELSE StateOf(t)
    <3>1. CASE Completed(t)'
      BY <1>7, <3>1, SaveKeepsHash DEF StateOf, Completed, Safety
    <3>2. CASE transfers'[t] = Absent
      BY <2>1, <3>2, LedgerAssumption DEF StateOf
    <3>3. CASE transfers'[t] # Absent /\ ~ Completed(t)'
      BY <3>3 DEF StateOf, Completed
    <3>4. QED
      BY <3>1, <3>2, <3>3
  <2>3. QED
    BY <1>1, <2>2, IsReopen
<1>8. CASE ~ (\/ EditTransfer(p) \/ DeleteTransfer(p) \/ DeleteMultiple(p)
              \/ RemoveEmployeeTransfers(p) \/ CreateFromDbSave(p))
  <2>1. transfers' = transfers
    BY <1>8 DEF Start, DeleteMultipleFind, CreateFromDbEmployees,
      SaveTransactionCheck, CreateEmployeeCheck, EditEmployeeFind,
      RemoveEmployeeFind, AddWallet, Continue, CreateFromDbPending,
      CreateFromDbLoad, UploadEmployee, GetTransaction,
      GetTransactionReceipt, CreateEmployee, EditEmployee, RemoveEmployee, db
  <2>2. QED
    BY <1>2, <2>1
<1>9. QED
  BY <1>3, <1>4, <1>5, <1>6, <1>7, <1>8

\* An upload imports rows under ids that no transfer has.
LEMMA UploadStep ==
  ASSUME Safety, TidsIssued, NEW p \in Procs, UploadTransfers(p)
  PROVE  Ledger!Next
<1>1. PICK o \in Orgs, ws \in SUBSET Wallets, es \in SUBSET FreshEids,
           S \in SUBSET FreshTids :
        /\ Await(p, "up_employee",
                 [NoRequest EXCEPT !.org = o, !.wallets = ws, !.eids = es])
        /\ issued' = issued \cup S \cup es
        /\ brought' = brought \cup {t \in S : transfers'[t].hash # NoHash}
        /\ \A t \in Tids \ S : transfers'[t] = transfers[t]
        /\ \A t \in S : /\ transfers'[t] \in TransferRow
                        /\ transfers'[t].org = o
                        /\ transfers'[t].wallet \in ws
  BY SheetRows
<1> DEFINE now(t) == (StateOf(t))'
           as == [t \in S |-> now(t)]
<1>2. S \subseteq Tids /\ \A t \in S : StateOf(t) = Absent
  BY DEF FreshTids, TidsIssued, StateOf
<1>3. \A t \in S : /\ now(t) \in Hashes \cup {Open}
                   /\ now(t) # Open <=> transfers'[t].hash # NoHash
  BY <1>1, LedgerAssumption, ConstantsAssumption DEF StateOf, TransferRow
<1>4. Marked' = Marked /\ UNCHANGED <<payments, chain>>
  <2>1. Start(p)
    BY DEF Start
  <2>2. QED
    BY <2>1, OthersKeepBooks, MarkedKept DEF Safety
<1>5. \A t \in Tids : (StateOf(t))' = IF t \in S THEN as[t] ELSE StateOf(t)
  BY <1>1, <1>2 DEF StateOf
<1> HIDE DEF now
<1>6. as \in [S -> Hashes \cup {Open}] /\ DOMAIN as = S
  BY <1>3
<1>7. brought' = brought \cup {t \in S : as[t] # Open}
  <2>1. {t \in S : as[t] # Open} = {t \in S : transfers'[t].hash # NoHash}
    BY <1>3
  <2>2. QED
    BY <1>1, <2>1
<1> HIDE DEF as
<1>8. Ledger!Import(as)
  BY <1>2, <1>4, <1>5, <1>6, <1>7 DEF Ledger!Import, Recorded, Mined
<1>9. QED
  BY <1>2, <1>6, <1>8 DEF Ledger!Next

\* addHash marks the transfers that still exist, with a mined transaction.
LEMMA AddHashStep ==
  ASSUME Safety, NEW p \in Procs, AddHash(p) PROVE Ledger!Next
<1> DEFINE h == req[p].hash
           S == req[p].tids
           found == {t \in S : StateOf(t) # Absent}
<1>1. /\ h \in Hashes /\ Mined(h) /\ req[p].tids \subseteq Tids
      /\ transfers \in Table
  BY DEF Safety, SeenMined, TypeOK, LocalsSet, Request, AddHash
<1>2. /\ UNCHANGED <<payments, chain, stranded>>
      /\ brought' = brought \ S
      /\ pc[p] = "st_mark" /\ pc'[p] = "st_insert" /\ req'[p] = req[p]
      /\ \A q \in Procs : q # p => pc'[q] = pc[q] /\ req'[q] = req[q]
  BY DEF Safety, AddHash, Await, TypeOK
<1>3. Marked' = Marked \cup {h}
  BY <1>1, <1>2 DEF Marked, Recorded, InsertUnderWay
<1>4. \A t \in Tids : transfers[t] # Absent <=> StateOf(t) # Absent
  BY <1>1, LedgerAssumption, ConstantsAssumption
  DEF StateOf, Table, TransferRow
<1>5. ASSUME NEW t \in Tids
      PROVE  (StateOf(t))' = IF t \in found THEN h ELSE StateOf(t)
  <2>1. CASE t \in found
    <3>1. transfers'[t] = [transfers[t] EXCEPT !.hash = h]
      BY <1>4, <2>1 DEF AddHash
    <3>2. transfers[t] \in TransferRow
      BY <1>1, <1>4, <2>1 DEF Table
    <3>3. transfers'[t] \in TransferRow /\ transfers'[t].hash = h
      BY <1>1, <3>1, <3>2 DEF TransferRow
    <3>4. QED
      BY <1>1, <2>1, <3>3, ConstantsAssumption DEF StateOf
  <2>2. CASE t \notin found
    BY <1>4, <2>2 DEF AddHash, StateOf
  <2>3. QED
    BY <2>1, <2>2
<1>6. /\ S \in SUBSET Tids
      /\ found = {t \in S : [u \in Tids |-> StateOf(u)][t] # Absent}
  BY <1>1
<1> HIDE DEF h, S, found
<1>7. Ledger!Mark(h, S)
  BY <1>1, <1>2, <1>3, <1>5, <1>6
  DEF Ledger!Mark, Ledger!Set, Recorded, Mined
<1>8. QED
  BY <1>1, <1>6, <1>7 DEF Ledger!Next

\* The insert records a marked transaction, or gives it up.
LEMMA InsertStep ==
  ASSUME Safety, NEW p \in Procs, InsertPayment(p)
  PROVE  [Ledger!Next]_(Ledger!vars)
<1> DEFINE h == req[p].hash
           row(n) == [id |-> n, hash |-> h, from |-> Sender[h],
                      status |-> chain[h] = "success"]
<1>1. /\ h \in Hashes /\ pc[p] = "st_insert" /\ Respond(p)
      /\ UNCHANGED <<transfers, chain, brought>>
  BY DEF Safety, TypeOK, LocalsSet, InsertPayment
<1>2. \A t \in Tids : (StateOf(t))' = StateOf(t)
  BY <1>1 DEF StateOf
<1>3. CASE stranded' = stranded \cup {h} /\ payments' = payments
  BY <1>1, <1>2, <1>3, MarkedGivenUp, IsStutter DEF Safety
<1>4. ASSUME NEW n, payments' = payments \cup {row(n)}, ~ Recorded(h),
             stranded' = stranded
      PROVE  Ledger!Next
  <2>1. row(n).hash = h
    OBVIOUS
  <2> HIDE DEF row
  <2>2. \A g : Recorded(g)' <=> Recorded(g) \/ g = h
    BY <1>4, <2>1 DEF Recorded
  <2>3. pc'[p] = "idle" /\ \A q \in Procs : q # p => /\ pc'[q] = pc[q]
                                                     /\ req'[q] = req[q]
    BY <1>1 DEF Respond, Await, Safety, TypeOK
  <2>4. InsertUnderWay(h)
    BY <1>1 DEF InsertUnderWay
  <2>5. \A g \in Hashes : (InsertUnderWay(g))' => InsertUnderWay(g)
    BY <2>3 DEF InsertUnderWay
  <2>6. \A g \in Hashes : InsertUnderWay(g) => (InsertUnderWay(g))' \/ g = h
    BY <2>3 DEF InsertUnderWay
  <2>7. Marked' = Marked
    BY <1>4, <2>2, <2>4, <2>5, <2>6 DEF Marked
  <2>8. h \in Marked \ {g \in Hashes : Recorded(g)}
    BY <1>1, <1>4, <2>4 DEF Marked
  <2>9. {g \in Hashes : Recorded(g)}' = {g \in Hashes : Recorded(g)} \cup {h}
    BY <1>1, <2>2
  <2>10. Ledger!Record(h)
    BY <1>1, <1>2, <2>7, <2>8, <2>9 DEF Ledger!Record, Mined
  <2>11. QED
    BY <1>1, <2>10 DEF Ledger!Next
<1>5. QED
  BY <1>3, <1>4 DEF InsertPayment

-----------------------------------------------------------------------------
(* The initial states and every step map to the ledger's.                  *)

\* The initial states are initial states of the ledger.
LEMMA RefinementInit == Init => Ledger!Init
BY ConstantsAssumption DEF Init, Ledger!Init, StateOf, Empty, Mined, Recorded,
  Marked, InsertUnderWay

\* Every step is one of the ledger's or changes nothing that it sees.
LEMMA RefinementNext ==
  Safety /\ TidsIssued /\ [Next]_vars => [Ledger!Next]_(Ledger!vars)
<1> SUFFICES ASSUME Safety, TidsIssued, [Next]_vars PROVE [Ledger!Next]_(Ledger!vars)
  OBVIOUS
<1>1. ASSUME NEW p \in Procs, Start(p) \/ Continue(p)
      PROVE  [Ledger!Next]_(Ledger!vars)
  BY <1>1, TransfersStep, UploadStep, AddHashStep, InsertStep
<1>2. ASSUME NEW p \in Procs, Abort(p) PROVE [Ledger!Next]_(Ledger!vars)
  <2>1. Respond(p) /\ UNCHANGED <<transfers, payments, chain, brought>>
    BY <1>2 DEF Abort, db
  <2>2. CASE pc[p] = "st_insert"
    BY <1>2, <2>1, <2>2, MarkedGivenUp, IsStutter
    DEF Abort, Safety, StateOf
  <2>3. CASE pc[p] # "st_insert"
    <3>1. InsertsStay
      BY <2>1, <2>3 DEF Respond, Await, InsertsStay, Safety, TypeOK
    <3>2. stranded' = stranded
      BY <1>2, <2>3 DEF Abort
    <3>3. QED
      BY <2>1, <3>1, <3>2, MarkedKept, IsStutter DEF StateOf
  <2>4. QED
    BY <2>2, <2>3
<1>3. ASSUME NEW h \in Hashes, Submit(h) PROVE [Ledger!Next]_(Ledger!vars)
  <2>1. UNCHANGED <<transfers, payments, brought, stranded, pc, req>>
    BY <1>3 DEF Submit, db
  <2>2. \A g \in Hashes : Mined(g)' <=> Mined(g)
    BY <1>3 DEF Submit, Mined, Safety, TypeOK
  <2>3. QED
    BY <2>1, <2>2 DEF Ledger!vars, StateOf, Marked, Recorded, InsertUnderWay
<1>4. ASSUME NEW h \in Hashes, Mine(h) PROVE [Ledger!Next]_(Ledger!vars)
  <2>1. UNCHANGED <<transfers, payments, brought, stranded, pc, req>>
    BY <1>4 DEF Mine, db
  <2>2. /\ ~ Mined(h)
        /\ \A g \in Hashes : Mined(g)' <=> Mined(g) \/ g = h
    BY <1>4 DEF Mine, Mined, Safety, TypeOK
  <2>3. Ledger!MineTx(h)
    BY <2>1, <2>2 DEF Ledger!MineTx, StateOf, Marked, Recorded, InsertUnderWay
  <2>4. QED
    BY <2>3 DEF Ledger!Next
<1>5. CASE UNCHANGED vars
  BY <1>5 DEF vars, Ledger!vars, StateOf, Marked, Recorded, InsertUnderWay,
    Mined
<1>6. QED
  BY <1>1, <1>2, <1>3, <1>4, <1>5 DEF Next

\* However requests interleave, fail or die, the tables keep the books that
\* the ledger specifies.
THEOREM PayrollKeepsTheBooks == Spec => LedgerSpec
BY RefinementInit, RefinementNext, SafetyHolds, IdsHold, PTL
DEF Ids, Spec, LedgerSpec, Ledger!Spec

=============================================================================

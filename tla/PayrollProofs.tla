---------------------------- MODULE PayrollProofs ----------------------------
(* Type correctness and the safety invariants of Payroll, for every set of *)
(* requests, organizations, wallets, transfers and transactions.           *)
EXTENDS Payroll, TLAPS

-----------------------------------------------------------------------------
(* Tables and local variables.                                             *)

\* The local variables of a request that is not running are well typed.
LEMMA NoRequestType == NoRequest \in Request
BY DEF NoRequest, Request, Table, Empty

\* A filtered list is a table of rows, like the lists it was made from.
LEMMA FilterType ==
  ASSUME NEW arr1 \in Table, NEW arr2 \in Table
  PROVE  RemoveExistingObjectsByWalletId(arr1, arr2) \in Table
BY DEF RemoveExistingObjectsByWalletId, Table

\* New transfers are rows of their organization.
LEMMA NewTransfersType ==
  ASSUME NEW o \in Orgs, NEW S, NEW id \in Injections(S, FreshTids),
         NEW wallet \in [S -> Wallets], NEW amount \in [S -> Amounts],
         NEW hash \in [S -> Hashes \cup {NoHash}]
  PROVE  NewTransfers(o, S, id, wallet, amount, hash) \in Table
BY DEF NewTransfers, Table, TransferRow

\* An UPDATE with columns of well typed entities leaves a well typed row.
LEMMA MergeType ==
  ASSUME NEW row \in TransferRow, NEW loaded \in TransferRow,
         NEW entity \in TransferRow
  PROVE  Merge(row, loaded, entity) \in TransferRow
BY DEF Merge, TransferRow

\* Suspending a request at a known await with well typed locals.
LEMMA AwaitType ==
  ASSUME NEW p \in Procs, NEW label \in Labels, NEW r \in Request,
         pc \in [Procs -> Labels], req \in [Procs -> Request],
         \A q \in Procs : LocalsSet(pc[q], req[q]), LocalsSet(label, r),
         Await(p, label, r)
  PROVE  /\ pc' \in [Procs -> Labels] /\ req' \in [Procs -> Request]
         /\ \A q \in Procs : LocalsSet(pc'[q], req'[q])
BY DEF Await

\* Answering a request.
LEMMA RespondType ==
  ASSUME NEW p \in Procs,
         pc \in [Procs -> Labels], req \in [Procs -> Request],
         \A q \in Procs : LocalsSet(pc[q], req[q]), Respond(p)
  PROVE  /\ pc' \in [Procs -> Labels] /\ req' \in [Procs -> Request]
         /\ \A q \in Procs : LocalsSet(pc'[q], req'[q])
<1>1. LocalsSet("idle", NoRequest) /\ "idle" \in Labels
  BY DEF LocalsSet, Labels
<1>2. QED
  BY <1>1, NoRequestType, AwaitType DEF Respond

-----------------------------------------------------------------------------
(* Type correctness, one lemma for the first steps of a request and one    *)
(* for the later ones.                                                     *)

\* The first step of a request keeps the types.
LEMMA TypeStart ==
  ASSUME TypeOK, NEW p \in Procs, Start(p)
  PROVE  TypeOK'
<1> USE ConstantsAssumption
<1>1. CASE EditTransfer(p)
  BY <1>1 DEF TypeOK, EditTransfer, Table, TransferRow
<1>2. CASE DeleteTransfer(p)
  BY <1>2 DEF TypeOK, DeleteTransfer, Table, Request
<1>3. CASE DeleteMultipleFind(p)
  <2>1. PICK ts \in SUBSET Tids :
          Await(p, "del_many", [NoRequest EXCEPT !.tids = ts])
    BY <1>3 DEF DeleteMultipleFind
  <2>2. /\ [NoRequest EXCEPT !.tids = ts] \in Request
        /\ LocalsSet("del_many", [NoRequest EXCEPT !.tids = ts])
        /\ "del_many" \in Labels
    BY NoRequestType DEF Request, LocalsSet, Labels
  <2>3. QED
    BY <1>3, <2>1, <2>2, AwaitType DEF TypeOK, DeleteMultipleFind, db
<1>4. CASE CreateFromDbEmployees(p)
  <2> DEFINE es(o) == {e \in Eids : employees[e] # Absent /\ employees[e].org = o}
             new(o, id) == NewTransfers(o, es(o), id,
                             [e \in es(o) |-> employees[e].wallet],
                             [e \in es(o) |-> 1], [e \in es(o) |-> NoHash])
             r(o, id) == [NoRequest EXCEPT !.org = o, !.list = new(o, id)]
  <2>1. PICK o \in Orgs : \E id \in Injections(es(o), FreshTids) :
          /\ Await(p, "db_pending", r(o, id))
          /\ issued' = issued \cup {id[e] : e \in es(o)}
    BY <1>4 DEF CreateFromDbEmployees
  <2>2. PICK id \in Injections(es(o), FreshTids) :
          /\ Await(p, "db_pending", r(o, id))
          /\ issued' = issued \cup {id[e] : e \in es(o)}
    BY <2>1
  <2>3. [e \in es(o) |-> employees[e].wallet] \in [es(o) -> Wallets]
    BY DEF TypeOK, EmployeeRow
  <2>4. new(o, id) \in Table
    BY <2>3, NewTransfersType
  <2>5. issued' \subseteq Tids \cup Eids
    BY <2>2 DEF TypeOK, Injections, FreshTids
  <2>6. /\ r(o, id) \in Request /\ LocalsSet("db_pending", r(o, id))
        /\ "db_pending" \in Labels
    <3> HIDE DEF new
    <3>1. QED
      BY <2>4, NoRequestType DEF Request, LocalsSet, Labels
  <2> HIDE DEF r
  <2>7. QED
    BY <1>4, <2>2, <2>5, <2>6, AwaitType DEF TypeOK, CreateFromDbEmployees, db
<1>5. CASE UploadTransfers(p)
  <2>1. SUFFICES ASSUME NEW o \in Orgs, NEW ws \in SUBSET Wallets,
                        NEW es \in SUBSET FreshEids,
                        NEW id \in Injections(ws, FreshTids),
                        NEW amount \in [ws -> Amounts],
                        NEW hash \in [ws -> Hashes \cup {NoHash}],
                        InsertFile(p, o, ws, es, id, amount, hash)
                 PROVE  TypeOK'
    BY <1>5 DEF UploadTransfers
  <2>2. NewTransfers(o, ws, id, [w \in ws |-> w], amount, hash) \in Table
    BY NewTransfersType
  <2>3. transfers' \in Table
    BY <2>1, <2>2 DEF InsertFile, TypeOK, Table
  <2>4. issued' \subseteq Tids \cup Eids /\ brought' \subseteq Tids
    BY <2>1 DEF InsertFile, TypeOK, Injections, FreshTids, FreshEids
  <2> DEFINE r == [NoRequest EXCEPT !.org = o, !.wallets = ws, !.eids = es]
  <2>5. /\ r \in Request /\ LocalsSet("up_employee", r)
        /\ "up_employee" \in Labels
    BY NoRequestType DEF Request, LocalsSet, Labels, FreshEids
  <2> HIDE DEF r
  <2>6. Await(p, "up_employee", r)
    BY <2>1 DEF InsertFile, r
  <2>7. QED
    BY <1>5, <2>3, <2>4, <2>5, <2>6, AwaitType DEF TypeOK, UploadTransfers
<1>6. ASSUME NEW h \in Hashes, SaveTransactionCheck(p, h)
      PROVE  TypeOK'
  <2>1. CASE UNCHANGED <<pc, req>>
    BY <1>6, <2>1 DEF TypeOK, SaveTransactionCheck, db
  <2>2. ASSUME NEW ts \in SUBSET Tids,
               Await(p, "st_transaction",
                     [NoRequest EXCEPT !.hash = h, !.tids = ts])
        PROVE  TypeOK'
    <3> DEFINE r == [NoRequest EXCEPT !.hash = h, !.tids = ts]
    <3>1. r \in Request /\ LocalsSet("st_transaction", r)
          /\ "st_transaction" \in Labels
      BY NoRequestType DEF Request, LocalsSet, Labels
    <3>2. QED
      BY <1>6, <2>2, <3>1, AwaitType DEF TypeOK, SaveTransactionCheck, db
  <2>3. QED
    BY <1>6, <2>1, <2>2 DEF SaveTransactionCheck
<1>7. CASE CreateEmployeeCheck(p)
  <2>1. PICK o \in Orgs, w \in Wallets, e \in FreshEids :
          /\ issued' = issued \cup {e}
          /\ Await(p, "em_insert", [NoRequest EXCEPT !.org = o, !.wallet = w,
                                                     !.eids = {e}])
    BY <1>7 DEF CreateEmployeeCheck
  <2> DEFINE r == [NoRequest EXCEPT !.org = o, !.wallet = w, !.eids = {e}]
  <2>2. r \in Request /\ LocalsSet("em_insert", r) /\ "em_insert" \in Labels
    BY NoRequestType DEF Request, LocalsSet, Labels, FreshEids
  <2>3. QED
    BY <1>7, <2>1, <2>2, AwaitType DEF TypeOK, CreateEmployeeCheck, db, FreshEids
<1>8. CASE EditEmployeeFind(p)
  <2>1. PICK e \in Eids, w \in Wallets :
          Await(p, "em_update", [NoRequest EXCEPT !.eids = {e}, !.wallet = w])
    BY <1>8 DEF EditEmployeeFind
  <2> DEFINE r == [NoRequest EXCEPT !.eids = {e}, !.wallet = w]
  <2>2. r \in Request /\ LocalsSet("em_update", r) /\ "em_update" \in Labels
    BY NoRequestType DEF Request, LocalsSet, Labels
  <2>3. QED
    BY <1>8, <2>1, <2>2, AwaitType DEF TypeOK, EditEmployeeFind, db
<1>9. CASE RemoveEmployeeFind(p)
  <2>1. PICK e \in Eids :
          /\ employees[e] # Absent
          /\ Await(p, "rm_transfers",
               [NoRequest EXCEPT !.eids = {e}, !.wallet = employees[e].wallet])
    BY <1>9 DEF RemoveEmployeeFind
  <2> DEFINE r == [NoRequest EXCEPT !.eids = {e},
                                    !.wallet = employees[e].wallet]
  <2>2. employees[e].wallet \in Wallets
    BY <2>1 DEF TypeOK, EmployeeRow
  <2>3. r \in Request /\ LocalsSet("rm_transfers", r)
        /\ "rm_transfers" \in Labels
    BY <2>2, NoRequestType DEF Request, LocalsSet, Labels
  <2>4. QED
    BY <1>9, <2>1, <2>3, AwaitType DEF TypeOK, RemoveEmployeeFind, db
<1>10. CASE AddWallet(p)
  BY <1>10 DEF TypeOK, AddWallet
<1>11. QED
  BY <1>1, <1>2, <1>3, <1>4, <1>5, <1>6, <1>7, <1>8, <1>9, <1>10 DEF Start

\* So does each of its later steps.
LEMMA TypeContinue ==
  ASSUME TypeOK, NEW p \in Procs, Continue(p)
  PROVE  TypeOK'
<1> USE ConstantsAssumption
<1>1. CASE DeleteMultiple(p)
  BY <1>1, RespondType DEF TypeOK, DeleteMultiple, Table
<1>2. CASE CreateFromDbPending(p)
  <2> DEFINE existed == [t \in Tids |->
        IF Pending(t) /\ transfers[t].org = req[p].org THEN transfers[t]
                                                       ELSE Absent]
  <2>1. existed \in Table
    BY DEF TypeOK, Table
  <2>2. req[p].list \in Table /\ req[p] \in Request
    BY DEF TypeOK, Request
  <2>3. RemoveExistingObjectsByWalletId(existed, req[p].list) \in Table
    BY <2>1, <2>2, FilterType
  <2>4. [req[p] EXCEPT !.list =
           RemoveExistingObjectsByWalletId(existed, req[p].list)] \in Request
    BY <2>2, <2>3 DEF Request
  <2> DEFINE r == [req[p] EXCEPT !.list =
                     RemoveExistingObjectsByWalletId(existed, req[p].list)]
  <2>5. LocalsSet("db_load", r) /\ "db_load" \in Labels
    BY <1>2, <2>2 DEF TypeOK, CreateFromDbPending, Request, Labels, LocalsSet
  <2>6. QED
    BY <1>2, <2>4, <2>5, AwaitType DEF TypeOK, CreateFromDbPending, db
<1>3. CASE CreateFromDbLoad(p)
  <2> DEFINE r == [req[p] EXCEPT
                     !.loaded = [t \in Tids |-> IF req[p].list[t] # Absent
                                                THEN transfers[t] ELSE Absent]]
  <2>1. req[p] \in Request /\ req[p].org \in Orgs
    BY <1>3 DEF TypeOK, CreateFromDbLoad, LocalsSet
  <2>2. [t \in Tids |-> IF req[p].list[t] # Absent THEN transfers[t]
                                                  ELSE Absent] \in Table
    BY DEF TypeOK, Table
  <2>3. r \in Request /\ LocalsSet("db_write", r) /\ "db_write" \in Labels
    BY <2>1, <2>2 DEF Request, LocalsSet, Labels
  <2> HIDE DEF r
  <2>4. QED
    BY <1>3, <2>3, AwaitType DEF TypeOK, CreateFromDbLoad, r, db
<1>4. CASE CreateFromDbSave(p)
  <2>1. /\ transfers \in Table
        /\ req[p].list \in Table /\ req[p].loaded \in Table
    BY DEF TypeOK, Request
  <2>2. transfers' \in Table
    <3>1. ASSUME NEW t \in Tids, transfers[t] # Absent,
                 req[p].loaded[t] # Absent, req[p].list[t] # Absent
          PROVE  Merge(transfers[t], req[p].loaded[t], req[p].list[t])
                   \in TransferRow
      <4>1. /\ transfers[t] \in TransferRow /\ req[p].list[t] \in TransferRow
            /\ req[p].loaded[t] \in TransferRow
        BY <2>1, <3>1 DEF Table
      <4>2. QED
        BY <4>1, MergeType
    <3>2. QED
      BY <1>4, <2>1, <3>1 DEF CreateFromDbSave, Table
  <2>3. QED
    BY <1>4, <2>2, RespondType DEF TypeOK, CreateFromDbSave
<1>5. CASE UploadEmployee(p)
  <2>1. PICK w \in req[p].wallets, e \in req[p].eids :
          /\ InsertEmployee(e, req[p].org, w)
          /\ IF req[p].wallets = {w} THEN Respond(p)
             ELSE Await(p, "up_employee",
                        [req[p] EXCEPT !.wallets = @ \ {w}, !.eids = @ \ {e}])
    BY <1>5 DEF UploadEmployee
  <2>2. req[p] \in Request /\ req[p].org \in Orgs /\ e \in Eids /\ w \in Wallets
    BY <1>5, <2>1 DEF TypeOK, UploadEmployee, LocalsSet, Request
  <2>3. employees' \in [Eids -> EmployeeRow \cup {Absent}]
    BY <2>1, <2>2 DEF TypeOK, InsertEmployee, EmployeeRow
  <2> DEFINE rest == [req[p] EXCEPT !.wallets = @ \ {w}, !.eids = @ \ {e}]
  <2>4. rest \in Request /\ LocalsSet("up_employee", rest)
    BY <2>2 DEF Request, LocalsSet
  <2>5. "up_employee" \in Labels
    BY DEF Labels
  <2>6. /\ pc' \in [Procs -> Labels] /\ req' \in [Procs -> Request]
        /\ \A q \in Procs : LocalsSet(pc'[q], req'[q])
    <3>1. CASE req[p].wallets = {w}
      BY <3>1, <2>1, RespondType DEF TypeOK
    <3>2. CASE req[p].wallets # {w}
      BY <3>2, <2>1, <2>4, <2>5, AwaitType DEF TypeOK
    <3>3. QED
      BY <3>1, <3>2
  <2>7. QED
    BY <1>5, <2>3, <2>6 DEF TypeOK, UploadEmployee
<1>6. CASE GetTransaction(p)
  BY <1>6, RespondType, AwaitType DEF TypeOK, GetTransaction, Labels, LocalsSet, db
<1>7. CASE GetTransactionReceipt(p)
  BY <1>7, RespondType, AwaitType DEF TypeOK, GetTransactionReceipt, Labels, LocalsSet, db
<1>8. CASE AddHash(p)
  <2>1. /\ transfers \in Table /\ req[p] \in Request
        /\ req[p].hash \in Hashes
    BY <1>8 DEF TypeOK, AddHash, LocalsSet
  <2>2. transfers' \in Table
    BY <1>8, <2>1 DEF AddHash, Table, TransferRow
  <2>3. LocalsSet("st_insert", req[p]) /\ "st_insert" \in Labels
    BY <2>1 DEF Labels, LocalsSet
  <2>4. QED
    BY <1>8, <2>1, <2>2, <2>3, AwaitType DEF TypeOK, AddHash
<1>9. CASE InsertPayment(p)
  <2>1. req[p].hash \in Hashes
    BY <1>9 DEF TypeOK, InsertPayment, LocalsSet
  <2>2. payments' \subseteq PaymentRow /\ stranded' \subseteq Hashes
    <3> DEFINE row(n) == [id |-> n, hash |-> req[p].hash,
                          from |-> Sender[req[p].hash],
                          status |-> chain[req[p].hash] = "success"]
    <3>1. \A n \in Pids : row(n) \in PaymentRow
      BY <2>1, ConstantsAssumption DEF PaymentRow
    <3>2. payments' = payments
            \/ \E n \in Pids : payments' = payments \cup {row(n)}
      BY <1>9 DEF InsertPayment, FreshPids
    <3>3. stranded' \in {stranded, stranded \cup {req[p].hash}}
      BY <1>9 DEF InsertPayment
    <3> HIDE DEF row
    <3>4. QED
      BY <2>1, <3>1, <3>2, <3>3 DEF TypeOK
  <2>3. QED
    BY <1>9, <2>2, RespondType DEF TypeOK, InsertPayment
<1>10. CASE CreateEmployee(p)
  BY <1>10, RespondType
  DEF TypeOK, CreateEmployee, InsertEmployee, Request, EmployeeRow, LocalsSet
<1>11. CASE EditEmployee(p)
  BY <1>11, RespondType
  DEF TypeOK, EditEmployee, Request, EmployeeRow, LocalsSet
<1>12. CASE RemoveEmployeeTransfers(p)
  BY <1>12, AwaitType DEF TypeOK, RemoveEmployeeTransfers, Table, Labels, LocalsSet
<1>13. CASE RemoveEmployee(p)
  BY <1>13, RespondType DEF TypeOK, RemoveEmployee
<1>14. QED
  BY <1>1, <1>2, <1>3, <1>4, <1>5, <1>6, <1>7, <1>8, <1>9, <1>10, <1>11,
     <1>12, <1>13 DEF Continue

\* One step of the system keeps the types.
LEMMA TypeNext == TypeOK /\ [Next]_vars => TypeOK'
<1> SUFFICES ASSUME TypeOK, [Next]_vars PROVE TypeOK'
  OBVIOUS
<1>1. ASSUME NEW p \in Procs, Abort(p) PROVE TypeOK'
  BY <1>1, RespondType, ConstantsAssumption
  DEF TypeOK, Abort, Request, LocalsSet, db
<1>2. ASSUME NEW h \in Hashes, Submit(h) \/ Mine(h) PROVE TypeOK'
  BY <1>2 DEF TypeOK, Submit, Mine, db, Table, Request, LocalsSet
<1>3. CASE UNCHANGED vars
  BY <1>3 DEF TypeOK, vars, Table, Request, LocalsSet
<1>4. QED
  BY <1>1, <1>2, <1>3, TypeStart, TypeContinue DEF Next

\* The initial tables are empty and no request runs.
LEMMA TypeInit == Init => TypeOK
BY NoRequestType, ConstantsAssumption
DEF Init, TypeOK, Table, Empty, Labels, LocalsSet

\* In every reachable state the tables and the locals have their types.
THEOREM TypeCorrect == Spec => []TypeOK
BY TypeInit, TypeNext, PTL DEF Spec

-----------------------------------------------------------------------------
(* The safety invariants about paid transfers, payment rows and pending   *)
(* transfers, and what becomes of completed ones.                         *)

(***************************************************************************)
(* What has to be added to make them inductive: a savetransaction request  *)
(* that has passed the receipt check holds the hash of a mined             *)
(* transaction, and no list that createFromDb may write carries a hash.    *)
(***************************************************************************)
SeenMined == \A p \in Procs :
  pc[p] \in {"st_mark", "st_insert"} => Mined(req[p].hash)

ListUnpaid == \A p \in Procs : \A t \in Tids :
  req[p].list[t] # Absent => req[p].list[t].hash = NoHash

Safety == /\ TypeOK
          /\ SeenMined
          /\ ListUnpaid
          /\ PaidMeansMined
          /\ RecordsMatchChain
          /\ PayerRegistered
          /\ OrphanHashExplained

-----------------------------------------------------------------------------
(* How the shared state can change in one step.                            *)

\* What an upload does: rows with new ids, which keep the hashes that the sheet
\* brought; then it waits for its employees.
LEMMA SheetRows ==
  ASSUME NEW p \in Procs, UploadTransfers(p)
  PROVE  \E o \in Orgs, ws \in SUBSET Wallets, es \in SUBSET FreshEids,
            S \in SUBSET FreshTids :
           /\ Await(p, "up_employee",
                    [NoRequest EXCEPT !.org = o, !.wallets = ws, !.eids = es])
           /\ issued' = issued \cup S \cup es
           /\ brought' = brought \cup {t \in S : transfers'[t].hash # NoHash}
           /\ \A t \in Tids \ S : transfers'[t] = transfers[t]
           /\ \A t \in S : /\ transfers'[t] \in TransferRow
                           /\ transfers'[t].org = o
                           /\ transfers'[t].wallet \in ws
<1>1. PICK o \in Orgs, ws \in (SUBSET Wallets) \ {{}}, es \in SUBSET FreshEids :
        \E id \in Injections(ws, FreshTids), amount \in [ws -> Amounts],
           hash \in [ws -> Hashes \cup {NoHash}] :
          InsertFile(p, o, ws, es, id, amount, hash)
  BY DEF UploadTransfers
<1>2. PICK id \in Injections(ws, FreshTids), amount \in [ws -> Amounts],
           hash \in [ws -> Hashes \cup {NoHash}] :
        InsertFile(p, o, ws, es, id, amount, hash)
  BY <1>1
<1> DEFINE wallet == [w \in ws |-> w]
           new    == NewTransfers(o, ws, id, wallet, amount, hash)
           S      == {id[w] : w \in ws}
           row(w) == [org |-> o, wallet |-> wallet[w], amount |-> amount[w],
                      hash |-> hash[w]]
<1>3. /\ \A t \in Tids : transfers'[t] = IF new[t] # Absent THEN new[t] ELSE transfers[t]
      /\ brought' = brought \cup {id[w] : w \in {v \in ws : hash[v] # NoHash}}
      /\ issued' = issued \cup S \cup es
      /\ Await(p, "up_employee",
               [NoRequest EXCEPT !.org = o, !.wallets = ws, !.eids = es])
  BY <1>2 DEF InsertFile
<1>4. \A t \in Tids \ S : new[t] = Absent
  BY DEF NewTransfers
<1>5. S \in SUBSET FreshTids /\ FreshTids \subseteq Tids
  BY DEF Injections, FreshTids
<1>6. \A w \in ws : /\ row(w) \in TransferRow /\ row(w).org = o
                    /\ row(w).wallet = w /\ row(w).hash = hash[w]
  BY DEF TransferRow
<1>7. ASSUME NEW w \in ws PROVE new[id[w]] = row(w)
  <2>1. \A x \in ws : id[x] = id[w] => x = w
    BY DEF Injections
  <2>2. (CHOOSE x \in ws : id[x] = id[w]) = w
    BY <2>1
  <2> HIDE DEF wallet
  <2>3. QED
    BY <1>5, <2>2 DEF NewTransfers
<1> HIDE DEF wallet, new, row
<1>8. \A w \in ws : transfers'[id[w]] = row(w)
  <2>1. \A w \in ws : id[w] \in Tids /\ row(w) # Absent
    BY <1>5, <1>6, ConstantsAssumption
  <2>2. QED
    BY <1>3, <1>7, <2>1
<1>9. \A t \in S : /\ transfers'[t] \in TransferRow /\ transfers'[t].org = o
                   /\ transfers'[t].wallet \in ws
  BY <1>6, <1>8
<1>10. {id[w] : w \in {v \in ws : hash[v] # NoHash}}
         = {t \in S : transfers'[t].hash # NoHash}
  BY <1>6, <1>8
<1>11. \A t \in Tids \ S : transfers'[t] = transfers[t]
  BY <1>3, <1>4
<1>12. ws \in SUBSET Wallets /\ S \in SUBSET FreshTids
  BY <1>5
<1> HIDE DEF S
<1> USE <1>12
<1> WITNESS o \in Orgs, ws \in SUBSET Wallets, es \in SUBSET FreshEids,
            S \in SUBSET FreshTids
<1>13. QED
  BY <1>3, <1>9, <1>10, <1>11

\* A request changes only its own control state.
LEMMA OneRequestMoves ==
  ASSUME TypeOK, NEW p \in Procs, Start(p) \/ Continue(p) \/ Abort(p),
         NEW q \in Procs, q # p
  PROVE  pc'[q] = pc[q] /\ req'[q] = req[q]
<1>1. CASE UNCHANGED <<pc, req>>
  BY <1>1
<1>2. CASE \E label, r : Await(p, label, r)
  BY <1>2 DEF Await, TypeOK
<1>3. UNCHANGED <<pc, req>> \/ \E label, r : Await(p, label, r)
  <2>1. CASE Start(p)
    BY <2>1, SheetRows DEF Start, EditTransfer, DeleteTransfer,
      DeleteMultipleFind, CreateFromDbEmployees, SaveTransactionCheck, CreateEmployeeCheck, EditEmployeeFind,
      RemoveEmployeeFind, AddWallet
  <2>2. CASE Continue(p)
    BY <2>2 DEF Continue, Respond, DeleteMultiple, CreateFromDbPending,
      CreateFromDbLoad, CreateFromDbSave, UploadEmployee, GetTransaction,
      GetTransactionReceipt, AddHash, InsertPayment, CreateEmployee,
      EditEmployee, RemoveEmployeeTransfers, RemoveEmployee
  <2>3. CASE Abort(p)
    BY <2>3 DEF Abort, Respond
  <2>4. QED
    BY <2>1, <2>2, <2>3
<1>4. QED
  BY <1>1, <1>2, <1>3

\* What the chain has mined stays mined, with the same outcome.
LEMMA ChainStable ==
  ASSUME TypeOK, [Next]_vars, NEW h \in Hashes, Mined(h)
  PROVE  chain'[h] = chain[h]
<1>1. CASE \E g \in Hashes : Submit(g) \/ Mine(g)
  BY <1>1 DEF TypeOK, Submit, Mine, Mined
<1>2. ASSUME NEW p \in Procs, Start(p) PROVE chain' = chain
  BY <1>2 DEF Start, EditTransfer, DeleteTransfer, DeleteMultipleFind,
    CreateFromDbEmployees, UploadTransfers, SaveTransactionCheck,
    CreateEmployeeCheck, EditEmployeeFind, RemoveEmployeeFind, AddWallet
<1>3. ASSUME NEW p \in Procs, Continue(p) PROVE chain' = chain
  BY <1>3 DEF Continue, DeleteMultiple, CreateFromDbPending,
    CreateFromDbLoad, CreateFromDbSave, UploadEmployee, GetTransaction,
    GetTransactionReceipt, AddHash, InsertPayment, CreateEmployee,
    EditEmployee, RemoveEmployeeTransfers, RemoveEmployee
<1>4. ASSUME NEW p \in Procs, Abort(p) PROVE chain' = chain
  BY <1>4 DEF Abort
<1>5. CASE UNCHANGED vars
  BY <1>5 DEF vars
<1>6. QED
  BY <1>1, <1>2, <1>3, <1>4, <1>5 DEF Next

\* The transfer made from an item.
LEMMA NewTransfersRow ==
  ASSUME NEW o, NEW S, NEW id, NEW wallet, NEW amount, NEW hash, NEW t \in Tids,
         NewTransfers(o, S, id, wallet, amount, hash)[t] # Absent
  PROVE  \E x \in S : /\ id[x] = t
                      /\ NewTransfers(o, S, id, wallet, amount, hash)[t] =
                           [org |-> o, wallet |-> wallet[x], amount |-> amount[x],
                            hash |-> hash[x]]
<1> DEFINE x == CHOOSE x \in S : id[x] = t
<1>1. \E y \in S : id[y] = t
  BY DEF NewTransfers
<1>2. x \in S /\ id[x] = t
  BY <1>1
<1>3. NewTransfers(o, S, id, wallet, amount, hash)[t] =
        [org |-> o, wallet |-> wallet[x], amount |-> amount[x], hash |-> hash[x]]
  BY <1>1 DEF NewTransfers
<1> HIDE DEF x
<1>4. QED
  BY <1>2, <1>3

\* New transfers are not paid when no item brings a hash.
LEMMA NewTransfersUnpaid ==
  ASSUME NEW o, NEW S, NEW id, NEW wallet, NEW amount, NEW hash, NEW t \in Tids,
         \A x \in S : hash[x] = NoHash,
         NewTransfers(o, S, id, wallet, amount, hash)[t] # Absent
  PROVE  NewTransfers(o, S, id, wallet, amount, hash)[t].hash = NoHash
<1> DEFINE row == NewTransfers(o, S, id, wallet, amount, hash)[t]
<1>1. PICK x \in S : row = [org |-> o, wallet |-> wallet[x], amount |-> amount[x],
                            hash |-> hash[x]]
  BY NewTransfersRow
<1> HIDE DEF row
<1>2. row.hash = NoHash
  BY <1>1
<1>3. QED
  BY <1>2 DEF row

\* An UPDATE from an unpaid entity keeps the row's hash or clears it.
LEMMA MergeHash ==
  ASSUME NEW row \in TransferRow, NEW loaded \in TransferRow,
         NEW entity \in TransferRow, entity.hash = NoHash
  PROVE  Merge(row, loaded, entity).hash \in {row.hash, NoHash}
BY DEF Merge, TransferRow

\* What createFromDb saves leaves completed only what was, with the same hash.
LEMMA SaveKeepsHash ==
  ASSUME TypeOK, ListUnpaid, NEW p \in Procs, CreateFromDbSave(p),
         NEW t \in Tids, Completed(t)'
  PROVE  Completed(t) /\ transfers'[t].hash = transfers[t].hash
<1>1. /\ transfers \in Table
      /\ req[p].list \in Table /\ req[p].loaded \in Table
  BY DEF TypeOK, Request
<1>2. CASE transfers'[t] = transfers[t]
  BY <1>2 DEF Completed
<1>3. CASE /\ req[p].list[t] # Absent
           /\ transfers'[t] = req[p].list[t]
  BY <1>3 DEF ListUnpaid, Completed
<1>4. CASE /\ req[p].list[t] # Absent /\ req[p].loaded[t] # Absent
           /\ transfers[t] # Absent
           /\ transfers'[t] =
                Merge(transfers[t], req[p].loaded[t], req[p].list[t])
  <2>1. /\ transfers[t] \in TransferRow /\ req[p].list[t] \in TransferRow
        /\ req[p].loaded[t] \in TransferRow
    BY <1>1, <1>4 DEF Table
  <2>2. transfers'[t].hash \in {transfers[t].hash, NoHash}
    BY <1>4, <2>1, MergeHash DEF ListUnpaid
  <2>3. QED
    BY <1>4, <2>2 DEF Completed
<1>5. QED
  BY <1>2, <1>3, <1>4 DEF CreateFromDbSave, Completed

\* A step that completes a transfer, or changes its hash, is an addHash or the
\* insert of a sheet that brings the hash; and what a sheet brought is forgotten
\* only when an addHash overwrites it.
LEMMA HashArises ==
  ASSUME TypeOK, ListUnpaid, [Next]_vars, NEW t \in Tids, Completed(t)'
  PROVE  \/ /\ Completed(t) /\ transfers'[t].hash = transfers[t].hash
            /\ t \in brought => t \in brought'
         \/ \E p \in Procs : /\ pc[p] = "st_mark" /\ pc'[p] = "st_insert"
                             /\ req'[p] = req[p]
                             /\ transfers'[t].hash = req[p].hash
         \/ t \in brought' \ issued
<1> DEFINE Same == /\ Completed(t) /\ transfers'[t].hash = transfers[t].hash
                   /\ t \in brought => t \in brought'
<1>1. CASE transfers' = transfers /\ brought' = brought
  BY <1>1 DEF Completed
<1>2. ASSUME NEW p \in Procs, EditTransfer(p) PROVE Same
  BY <1>2 DEF TypeOK, Table, TransferRow, EditTransfer, Completed
<1>3. ASSUME NEW p \in Procs, DeleteTransfer(p) PROVE Same
  BY <1>3 DEF TypeOK, Table, DeleteTransfer, Completed
<1>4. ASSUME NEW p \in Procs, UploadTransfers(p)
      PROVE  Same \/ t \in brought' \ issued
  <2>1. PICK S \in SUBSET FreshTids :
          /\ brought' = brought \cup {u \in S : transfers'[u].hash # NoHash}
          /\ \A u \in Tids \ S : transfers'[u] = transfers[u]
    BY <1>4, SheetRows
  <2>2. CASE t \in S
    BY <2>1, <2>2 DEF FreshTids, Completed
  <2>3. CASE t \notin S
    BY <2>1, <2>3 DEF Completed
  <2>4. QED
    BY <2>2, <2>3
<1>5. ASSUME NEW p \in Procs, DeleteMultiple(p) PROVE Same
  BY <1>5 DEF DeleteMultiple, Completed
<1>6. ASSUME NEW p \in Procs, CreateFromDbSave(p) PROVE Same
  BY <1>6, SaveKeepsHash DEF CreateFromDbSave
<1>7. ASSUME NEW p \in Procs, RemoveEmployeeTransfers(p) PROVE Same
  BY <1>7 DEF RemoveEmployeeTransfers, Completed
<1>8. ASSUME NEW p \in Procs, AddHash(p)
      PROVE  \/ Same
             \/ /\ pc[p] = "st_mark" /\ pc'[p] = "st_insert"
                /\ req'[p] = req[p]
                /\ transfers'[t].hash = req[p].hash
  <2>1. /\ transfers \in Table
        /\ pc'[p] = "st_insert" /\ req'[p] = req[p] /\ pc[p] = "st_mark"
    BY <1>8 DEF TypeOK, AddHash, Await
  <2>2. CASE transfers'[t] = transfers[t] /\ t \notin req[p].tids
    BY <1>8, <2>2 DEF AddHash, Completed
  <2>3. CASE /\ transfers[t] # Absent
             /\ transfers'[t] = [transfers[t] EXCEPT !.hash = req[p].hash]
    <3>1. transfers[t] \in TransferRow
      BY <2>1, <2>3 DEF Table
    <3>2. transfers'[t].hash = req[p].hash
      BY <2>3, <3>1 DEF TransferRow
    <3>3. QED
      BY <2>1, <3>2
  <2>4. QED
    BY <1>8, <2>2, <2>3 DEF AddHash, Completed
<1>9. ASSUME NEW p \in Procs,
             \/ DeleteMultipleFind(p) \/ CreateFromDbEmployees(p)
             \/ \E h \in Hashes : SaveTransactionCheck(p, h)
             \/ CreateEmployeeCheck(p) \/ EditEmployeeFind(p)
             \/ RemoveEmployeeFind(p) \/ AddWallet(p)
             \/ CreateFromDbPending(p) \/ CreateFromDbLoad(p)
             \/ UploadEmployee(p) \/ GetTransaction(p)
             \/ GetTransactionReceipt(p) \/ InsertPayment(p)
             \/ CreateEmployee(p) \/ EditEmployee(p) \/ RemoveEmployee(p)
             \/ Abort(p)
      PROVE  transfers' = transfers /\ brought' = brought
  BY <1>9 DEF DeleteMultipleFind, CreateFromDbEmployees,
    SaveTransactionCheck, CreateEmployeeCheck, EditEmployeeFind,
    RemoveEmployeeFind, AddWallet, CreateFromDbPending, CreateFromDbLoad,
    UploadEmployee, GetTransaction, GetTransactionReceipt, InsertPayment,
    CreateEmployee, EditEmployee, RemoveEmployee, Abort, db
<1>10. CASE \E h \in Hashes : Submit(h) \/ Mine(h)
  BY <1>1, <1>10 DEF Submit, Mine, db
<1>11. CASE UNCHANGED vars
  BY <1>1, <1>11 DEF vars
<1>12. QED
  BY <1>1, <1>2, <1>3, <1>4, <1>5, <1>6, <1>7, <1>8, <1>9, <1>10, <1>11
  DEF Next, Start, Continue

\* Payment rows are only added: one of a mined, registered, unrecorded
\* transaction, by the request that holds its hash.
LEMMA PaymentsArise ==
  ASSUME TypeOK, [Next]_vars
  PROVE  \/ payments' = payments
         \/ \E p \in Procs :
              LET h == req[p].hash
              IN /\ pc[p] = "st_insert" /\ Registered(Sender[h]) /\ ~ Recorded(h)
                 /\ \E n \in Pids :
                      payments' = payments \cup
                        {[id |-> n, hash |-> h, from |-> Sender[h],
                          status |-> chain[h] = "success"]}
                 /\ orgWallet' = orgWallet
<1>1. ASSUME NEW p \in Procs, InsertPayment(p)
      PROVE  \/ payments' = payments
             \/ LET h == req[p].hash
                IN /\ pc[p] = "st_insert" /\ Registered(Sender[h])
                   /\ ~ Recorded(h)
                   /\ \E n \in Pids :
                        payments' = payments \cup
                          {[id |-> n, hash |-> h, from |-> Sender[h],
                            status |-> chain[h] = "success"]}
                   /\ orgWallet' = orgWallet
  BY <1>1 DEF InsertPayment, FreshPids
<1>2. ASSUME NEW p \in Procs, Start(p) PROVE payments' = payments
  BY <1>2 DEF Start, EditTransfer, DeleteTransfer, DeleteMultipleFind,
    CreateFromDbEmployees, UploadTransfers, SaveTransactionCheck,
    CreateEmployeeCheck, EditEmployeeFind, RemoveEmployeeFind, AddWallet, db
<1>3. ASSUME NEW p \in Procs, Continue(p), ~ InsertPayment(p)
      PROVE  payments' = payments
  BY <1>3 DEF Continue, DeleteMultiple, CreateFromDbPending,
    CreateFromDbLoad, CreateFromDbSave, UploadEmployee, GetTransaction,
    GetTransactionReceipt, AddHash, CreateEmployee, EditEmployee,
    RemoveEmployeeTransfers, RemoveEmployee, db
<1>4. ASSUME NEW p \in Procs, Abort(p) PROVE payments' = payments
  BY <1>4 DEF Abort, db
<1>5. CASE \E h \in Hashes : Submit(h) \/ Mine(h)
  BY <1>5 DEF Submit, Mine, db
<1>6. CASE UNCHANGED vars
  BY <1>6 DEF vars
<1>7. QED
  BY <1>1, <1>2, <1>3, <1>4, <1>5, <1>6 DEF Next

\* A wallet that payments come from stays registered.
LEMMA PayerStays ==
  ASSUME TypeOK, [Next]_vars, NEW r \in payments, Registered(r.from)
  PROVE  Registered(r.from)'
<1>1. ASSUME NEW p \in Procs, AddWallet(p) PROVE Registered(r.from)'
  <2>1. PICK o \in Orgs : orgWallet[o] = r.from
    BY DEF Registered
  <2>2. orgWallet'[o] = r.from
    BY <1>1, <2>1 DEF AddWallet, TypeOK
  <2>3. QED
    BY <2>2 DEF Registered
<1>2. ASSUME NEW p \in Procs, Start(p), ~ AddWallet(p)
      PROVE  orgWallet' = orgWallet
  BY <1>2 DEF Start, EditTransfer, DeleteTransfer, DeleteMultipleFind,
    CreateFromDbEmployees, UploadTransfers, SaveTransactionCheck,
    CreateEmployeeCheck, EditEmployeeFind, RemoveEmployeeFind, db
<1>3. ASSUME NEW p \in Procs, Continue(p) PROVE orgWallet' = orgWallet
  BY <1>3 DEF Continue, DeleteMultiple, CreateFromDbPending,
    CreateFromDbLoad, CreateFromDbSave, UploadEmployee, GetTransaction,
    GetTransactionReceipt, AddHash, InsertPayment, CreateEmployee,
    EditEmployee, RemoveEmployeeTransfers, RemoveEmployee, db
<1>4. ASSUME NEW p \in Procs, Abort(p) PROVE orgWallet' = orgWallet
  BY <1>4 DEF Abort, db
<1>5. CASE \E h \in Hashes : Submit(h) \/ Mine(h)
  BY <1>5 DEF Submit, Mine, db, Registered
<1>6. CASE UNCHANGED vars
  BY <1>6 DEF vars, Registered
<1>7. QED
  BY <1>1, <1>2, <1>3, <1>4, <1>5, <1>6 DEF Next, Registered

\* A request leaves the await before the insert only with the payment
\* recorded or its hash given up; and nobody forgets what was given up.
LEMMA InsertEnds ==
  ASSUME TypeOK, [Next]_vars, NEW p \in Procs, pc[p] = "st_insert"
  PROVE  \/ pc'[p] = "st_insert" /\ req'[p] = req[p]
         \/ \E r \in payments' : r.hash = req[p].hash
         \/ req[p].hash \in stranded'
<1>1. CASE InsertPayment(p)
  <2> DEFINE row(n) == [id |-> n, hash |-> req[p].hash,
                        from |-> Sender[req[p].hash],
                        status |-> chain[req[p].hash] = "success"]
  <2>1. CASE Recorded(req[p].hash)
    BY <1>1, <2>1 DEF InsertPayment, Recorded
  <2>2. ASSUME NEW n, payments' = payments \cup {row(n)}
        PROVE  \E r \in payments' : r.hash = req[p].hash
    <3>1. row(n) \in payments' /\ row(n).hash = req[p].hash
      BY <2>2
    <3>2. QED
      BY <3>1
  <2>3. QED
    BY <1>1, <2>1, <2>2 DEF InsertPayment
<1>2. CASE Abort(p)
  BY <1>2 DEF Abort
<1>3. ASSUME NEW q \in Procs, q # p, Start(q) \/ Continue(q) \/ Abort(q)
      PROVE  pc'[p] = "st_insert" /\ req'[p] = req[p]
  BY <1>3, OneRequestMoves
<1>4. CASE Start(p)
  BY <1>4 DEF Start, Call, EditTransfer, DeleteTransfer, DeleteMultipleFind,
    CreateFromDbEmployees, UploadTransfers, SaveTransactionCheck,
    CreateEmployeeCheck, EditEmployeeFind, RemoveEmployeeFind, AddWallet
<1>5. CASE Continue(p) /\ ~ InsertPayment(p)
  BY <1>5 DEF Continue, DeleteMultiple, CreateFromDbPending,
    CreateFromDbLoad, CreateFromDbSave, UploadEmployee, GetTransaction,
    GetTransactionReceipt, AddHash, CreateEmployee, EditEmployee,
    RemoveEmployeeTransfers, RemoveEmployee
<1>6. CASE \E h \in Hashes : Submit(h) \/ Mine(h)
  BY <1>6 DEF Submit, Mine
<1>7. CASE UNCHANGED vars
  BY <1>7 DEF vars
<1>8. QED
  BY <1>1, <1>2, <1>3, <1>4, <1>5, <1>6, <1>7 DEF Next

\* A hash that was given up is remembered.
LEMMA StrandedGrows ==
  ASSUME [Next]_vars PROVE stranded \subseteq stranded'
<1>1. ASSUME NEW p \in Procs, Start(p) PROVE stranded' = stranded
  BY <1>1 DEF Start, EditTransfer, DeleteTransfer, DeleteMultipleFind,
    CreateFromDbEmployees, UploadTransfers, SaveTransactionCheck,
    CreateEmployeeCheck, EditEmployeeFind, RemoveEmployeeFind, AddWallet
<1>2. ASSUME NEW p \in Procs, Continue(p) PROVE stranded \subseteq stranded'
  BY <1>2 DEF Continue, DeleteMultiple, CreateFromDbPending,
    CreateFromDbLoad, CreateFromDbSave, UploadEmployee, GetTransaction,
    GetTransactionReceipt, AddHash, InsertPayment, CreateEmployee,
    EditEmployee, RemoveEmployeeTransfers, RemoveEmployee
<1>3. ASSUME NEW p \in Procs, Abort(p) PROVE stranded \subseteq stranded'
  BY <1>3 DEF Abort
<1>4. CASE \E h \in Hashes : Submit(h) \/ Mine(h)
  BY <1>4 DEF Submit, Mine
<1>5. CASE UNCHANGED vars
  BY <1>5 DEF vars
<1>6. QED
  BY <1>1, <1>2, <1>3, <1>4, <1>5 DEF Next

-----------------------------------------------------------------------------
(* The inductive invariant.                                                *)

\* It holds in the initial state ...
LEMMA SafetyInit == Init => Safety
<1> SUFFICES ASSUME Init PROVE Safety
  OBVIOUS
<1>1. TypeOK
  BY TypeInit
<1>2. /\ SeenMined /\ ListUnpaid /\ PaidMeansMined /\ RecordsMatchChain
      /\ PayerRegistered /\ OrphanHashExplained
  BY DEF Init, SeenMined, ListUnpaid, PaidMeansMined, RecordsMatchChain,
    PayerRegistered, OrphanHashExplained, Completed, Empty, NoRequest
<1>3. QED
  BY <1>1, <1>2 DEF Safety

\* The receipt check comes before the await at which a request marks.
LEMMA SeenMinedNext ==
  ASSUME TypeOK, SeenMined, [Next]_vars PROVE SeenMined'
<1> SUFFICES ASSUME NEW p \in Procs, pc'[p] \in {"st_mark", "st_insert"}
             PROVE  chain'[req'[p].hash] \in {"success", "reverted"}
  BY DEF SeenMined, Mined
<1>1. CASE pc'[p] = pc[p] /\ req'[p] = req[p]
  <2>1. Mined(req[p].hash) /\ req[p].hash \in Hashes
    BY <1>1 DEF SeenMined, TypeOK, LocalsSet
  <2>2. QED
    BY <1>1, <2>1, ChainStable DEF Mined
<1>2. ASSUME NEW q \in Procs, q # p, Start(q) \/ Continue(q) \/ Abort(q)
      PROVE  pc'[p] = pc[p] /\ req'[p] = req[p]
  BY <1>2, OneRequestMoves
<1>3. CASE GetTransactionReceipt(p)
  <2>1. Mined(req[p].hash) /\ req'[p] = req[p] /\ chain' = chain
    BY <1>3 DEF GetTransactionReceipt, Respond, Await, TypeOK
  <2>2. QED
    BY <2>1 DEF Mined
<1>4. CASE AddHash(p)
  <2>1. Mined(req[p].hash) /\ req'[p] = req[p] /\ chain' = chain
    BY <1>4 DEF AddHash, Await, TypeOK, SeenMined
  <2>2. QED
    BY <2>1 DEF Mined
<1>5. CASE UNCHANGED <<pc, req>>
  BY <1>1, <1>5
<1>6. \A label, r : label \notin {"st_mark", "st_insert"}
                     => ~ Await(p, label, r)
  BY DEF Await, TypeOK
<1>7. CASE Start(p)
  BY <1>5, <1>6, <1>7, SheetRows DEF Start, EditTransfer, DeleteTransfer,
    DeleteMultipleFind, CreateFromDbEmployees,
    SaveTransactionCheck, CreateEmployeeCheck, EditEmployeeFind,
    RemoveEmployeeFind, AddWallet
<1>8. CASE Abort(p)
  BY <1>6, <1>8 DEF Abort, Respond
<1>9. CASE Continue(p) /\ ~ GetTransactionReceipt(p) /\ ~ AddHash(p)
  BY <1>6, <1>9 DEF Continue, Respond, DeleteMultiple, CreateFromDbPending,
    CreateFromDbLoad, CreateFromDbSave, UploadEmployee, GetTransaction,
    InsertPayment, CreateEmployee, EditEmployee, RemoveEmployeeTransfers,
    RemoveEmployee
<1>10. CASE \E h \in Hashes : Submit(h) \/ Mine(h)
  BY <1>5, <1>10 DEF Submit, Mine
<1>11. CASE UNCHANGED vars
  BY <1>5, <1>11 DEF vars
<1>12. QED
  BY <1>1, <1>2, <1>3, <1>4, <1>7, <1>8, <1>9, <1>10, <1>11 DEF Next

\* createFromDb puts new transfers and pending ones in its list, no other.
LEMMA ListUnpaidNext ==
  ASSUME TypeOK, ListUnpaid, [Next]_vars PROVE ListUnpaid'
<1> SUFFICES ASSUME NEW p \in Procs, NEW t \in Tids,
                    req'[p].list[t] # Absent
             PROVE  req'[p].list[t].hash = NoHash
  BY DEF ListUnpaid
<1> DEFINE Unpaid(list) == list[t] # Absent => list[t].hash = NoHash
<1>1. CASE req'[p].list = req[p].list
  BY <1>1 DEF ListUnpaid
<1>2. ASSUME NEW q \in Procs, q # p, Start(q) \/ Continue(q) \/ Abort(q)
      PROVE  req'[p] = req[p]
  BY <1>2, OneRequestMoves
<1>3. CASE req'[p].list = Empty
  BY <1>3 DEF Empty
<1>4. CASE CreateFromDbEmployees(p)
  <2> DEFINE es(o) == {e \in Eids : employees[e] # Absent /\ employees[e].org = o}
             new(o, id) == NewTransfers(o, es(o), id,
                             [e \in es(o) |-> employees[e].wallet],
                             [e \in es(o) |-> 1], [e \in es(o) |-> NoHash])
  <2>1. PICK o \in Orgs : \E id \in Injections(es(o), FreshTids) :
          Await(p, "db_pending",
                [NoRequest EXCEPT !.org = o, !.list = new(o, id)])
    BY <1>4 DEF CreateFromDbEmployees
  <2>2. PICK id \in Injections(es(o), FreshTids) :
          Await(p, "db_pending",
                [NoRequest EXCEPT !.org = o, !.list = new(o, id)])
    BY <2>1
  <2>3. Unpaid(new(o, id))
    <3> DEFINE hash == [e \in es(o) |-> NoHash]
    <3>1. \A e \in es(o) : hash[e] = NoHash
      OBVIOUS
    <3> HIDE DEF hash
    <3>2. Unpaid(NewTransfers(o, es(o), id, [e \in es(o) |-> employees[e].wallet],
                              [e \in es(o) |-> 1], hash))
      BY <3>1, NewTransfersUnpaid
    <3>3. QED
      BY <3>2 DEF hash
  <2> HIDE DEF new
  <2>4. req'[p].list = new(o, id)
    BY <2>2 DEF Await, TypeOK, NoRequest
  <2>5. QED
    BY <2>3, <2>4
<1>5. CASE CreateFromDbPending(p)
  <2> DEFINE existed == [u \in Tids |->
        IF Pending(u) /\ transfers[u].org = req[p].org THEN transfers[u]
                                                       ELSE Absent]
             list == RemoveExistingObjectsByWalletId(existed, req[p].list)
  <2>1. req'[p].list = list
    <3>1. req[p] \in Request
      BY DEF TypeOK
    <3>2. req'[p] = [req[p] EXCEPT !.list = list]
      BY <1>5 DEF CreateFromDbPending, Await, TypeOK
    <3> HIDE DEF list
    <3>3. QED
      BY <3>1, <3>2 DEF Request
  <2>2. Unpaid(existed)
    BY DEF Pending
  <2>3. Unpaid(req[p].list)
    BY DEF ListUnpaid
  <2>4. list[t] \in {existed[t], req[p].list[t], Absent}
    <3> HIDE DEF existed
    <3>1. QED
      BY DEF RemoveExistingObjectsByWalletId
  <2> HIDE DEF list, existed
  <2>5. QED
    BY <2>1, <2>2, <2>3, <2>4
<1>6. CASE CreateFromDbLoad(p)
  <2> DEFINE loaded == [u \in Tids |-> IF req[p].list[u] # Absent
                                       THEN transfers[u] ELSE Absent]
  <2>1. req[p] \in Request
    BY DEF TypeOK
  <2>2. req'[p] = [req[p] EXCEPT !.loaded = loaded]
    BY <1>6 DEF CreateFromDbLoad, Await, TypeOK
  <2> HIDE DEF loaded
  <2>3. QED
    BY <1>1, <2>1, <2>2 DEF Request
<1>7. CASE UploadEmployee(p)
  <2>1. PICK w \in req[p].wallets, e \in req[p].eids :
          IF req[p].wallets = {w} THEN Respond(p)
          ELSE Await(p, "up_employee",
                     [req[p] EXCEPT !.wallets = @ \ {w}, !.eids = @ \ {e}])
    BY <1>7 DEF UploadEmployee
  <2>2. req[p] \in Request
    BY DEF TypeOK
  <2>3. CASE Respond(p)
    BY <1>3, <2>3 DEF Respond, Await, TypeOK, NoRequest
  <2>4. CASE Await(p, "up_employee",
                   [req[p] EXCEPT !.wallets = @ \ {w}, !.eids = @ \ {e}])
    <3>1. req'[p] = [req[p] EXCEPT !.wallets = @ \ {w}, !.eids = @ \ {e}]
      BY <2>4 DEF Await, TypeOK
    <3>2. req'[p].list = req[p].list
      BY <2>2, <3>1 DEF Request
    <3>3. QED
      BY <1>1, <3>2
  <2>5. QED
    BY <2>1, <2>3, <2>4
<1>8. CASE Respond(p)
  BY <1>3, <1>8 DEF Respond, Await, TypeOK, NoRequest
<1>9. CASE UNCHANGED req
  BY <1>1, <1>9
<1>10. CASE \E label : Await(p, label, req[p])
  BY <1>1, <1>10 DEF Await, TypeOK
<1>11. CASE Continue(p) /\ ~ CreateFromDbPending(p) /\ ~ CreateFromDbLoad(p)
            /\ ~ UploadEmployee(p)
  BY <1>8, <1>10, <1>11 DEF Continue, DeleteMultiple, CreateFromDbSave,
    GetTransaction, GetTransactionReceipt, AddHash, InsertPayment,
    CreateEmployee, EditEmployee, RemoveEmployeeTransfers, RemoveEmployee
<1>12. CASE Start(p) /\ ~ CreateFromDbEmployees(p)
  <2>1. ASSUME NEW label, NEW o, NEW w, NEW h, NEW ts, NEW es, NEW ws,
               \/ Await(p, label, [NoRequest EXCEPT !.tids = ts])
               \/ Await(p, label, [NoRequest EXCEPT !.hash = h, !.tids = ts])
               \/ Await(p, label, [NoRequest EXCEPT !.org = o, !.wallets = ws,
                                                    !.eids = es])
               \/ Await(p, label, [NoRequest EXCEPT !.org = o, !.wallet = w,
                                                    !.eids = es])
               \/ Await(p, label, [NoRequest EXCEPT !.eids = es, !.wallet = w])
        PROVE  req'[p].list = Empty
    BY <2>1 DEF Await, TypeOK, NoRequest
  <2>2. UNCHANGED req \/ req'[p].list = Empty
    BY <1>12, <2>1, SheetRows DEF Start, EditTransfer, DeleteTransfer,
      DeleteMultipleFind, SaveTransactionCheck,
      CreateEmployeeCheck, EditEmployeeFind, RemoveEmployeeFind, AddWallet
  <2>3. QED
    BY <1>3, <1>9, <2>2
<1>13. CASE Abort(p)
  BY <1>8, <1>13 DEF Abort
<1>14. CASE \E h \in Hashes : Submit(h) \/ Mine(h)
  BY <1>9, <1>14 DEF Submit, Mine
<1>15. CASE UNCHANGED vars
  BY <1>9, <1>15 DEF vars
<1>16. QED
  BY <1>1, <1>2, <1>4, <1>5, <1>6, <1>7, <1>11, <1>12, <1>13, <1>14, <1>15
  DEF Next

\* ... every step preserves it ...
LEMMA SafetyNext == Safety /\ [Next]_vars => Safety'
<1> SUFFICES ASSUME Safety, [Next]_vars PROVE Safety'
  OBVIOUS
<1> USE DEF Safety
<1>1. TypeOK'
  BY TypeNext
<1>2. SeenMined'
  BY SeenMinedNext
<1>3. ListUnpaid'
  BY ListUnpaidNext
<1>4. PaidMeansMined'
  <2> SUFFICES ASSUME NEW t \in Tids, t \notin brought', Completed(t)'
               PROVE  chain'[transfers'[t].hash] \in {"success", "reverted"}
    BY DEF PaidMeansMined, Mined
  <2>1. CASE /\ Completed(t) /\ transfers'[t].hash = transfers[t].hash
             /\ t \notin brought
    <3>1. Mined(transfers[t].hash) /\ transfers[t].hash \in Hashes
      BY <2>1 DEF PaidMeansMined, TypeOK, Table, TransferRow, Completed
    <3>2. QED
      BY <2>1, <3>1, ChainStable DEF Mined
  <2>2. ASSUME NEW p \in Procs, pc[p] = "st_mark",
               transfers'[t].hash = req[p].hash
        PROVE  chain'[transfers'[t].hash] \in {"success", "reverted"}
    <3>1. Mined(req[p].hash) /\ req[p].hash \in Hashes
      BY <2>2 DEF SeenMined, TypeOK, LocalsSet
    <3>2. QED
      BY <2>2, <3>1, ChainStable DEF Mined
  <2>3. QED
    BY <2>1, <2>2, HashArises
<1>5. RecordsMatchChain'
  <2>1. ASSUME NEW r \in payments
        PROVE  /\ Mined(r.hash) /\ r.hash \in Hashes
               /\ chain'[r.hash] = chain[r.hash]
               /\ r.from = Sender[r.hash]
               /\ r.status = (chain[r.hash] = "success")
    <3>1. Mined(r.hash) /\ r.hash \in Hashes
      BY DEF RecordsMatchChain, TypeOK, PaymentRow
    <3>2. QED
      BY <3>1, ChainStable DEF RecordsMatchChain
  <2>2. CASE payments' = payments
    BY <2>1, <2>2 DEF RecordsMatchChain, Mined
  <2>3. ASSUME NEW p \in Procs, pc[p] = "st_insert", ~ Recorded(req[p].hash),
               NEW n, payments' = payments \cup
                 {[id |-> n, hash |-> req[p].hash,
                   from |-> Sender[req[p].hash],
                   status |-> chain[req[p].hash] = "success"]}
        PROVE  RecordsMatchChain'
    <3> DEFINE h   == req[p].hash
               row == [id |-> n, hash |-> h, from |-> Sender[h],
                       status |-> chain[h] = "success"]
    <3>1. Mined(h) /\ h \in Hashes
      BY <2>3 DEF SeenMined, TypeOK, LocalsSet
    <3>2. chain'[h] = chain[h]
      BY <3>1, ChainStable
    <3>3. /\ row.hash = h /\ row.from = Sender[h]
          /\ row.status = (chain[h] = "success")
      OBVIOUS
    <3> HIDE DEF row
    <3>4. \A r \in payments' : /\ chain'[r.hash] \in {"success", "reverted"}
                               /\ r.from = Sender[r.hash]
                               /\ r.status = (chain'[r.hash] = "success")
      BY <2>1, <2>3, <3>1, <3>2, <3>3 DEF row, Mined
    <3>5. \A r, s \in payments' : r.hash = s.hash => r = s
      BY <2>3, <3>3 DEF row, Recorded, RecordsMatchChain
    <3>6. QED
      BY <3>4, <3>5 DEF RecordsMatchChain, Mined
  <2>4. QED
    BY <2>2, <2>3, PaymentsArise
<1>6. PayerRegistered'
  <2>1. ASSUME NEW r \in payments PROVE Registered(r.from)'
    BY PayerStays DEF PayerRegistered
  <2>2. CASE payments' = payments
    BY <2>1, <2>2 DEF PayerRegistered
  <2>3. ASSUME NEW p \in Procs, Registered(Sender[req[p].hash]),
               orgWallet' = orgWallet,
               NEW n, payments' = payments \cup
                 {[id |-> n, hash |-> req[p].hash,
                   from |-> Sender[req[p].hash],
                   status |-> chain[req[p].hash] = "success"]}
        PROVE  PayerRegistered'
    BY <2>1, <2>3 DEF PayerRegistered, Registered
  <2>4. QED
    BY <2>2, <2>3, PaymentsArise
<1>7. OrphanHashExplained'
  <2> SUFFICES ASSUME NEW t \in Tids, t \notin brought', Completed(t)'
               PROVE  \/ \E r \in payments' : r.hash = transfers'[t].hash
                      \/ \E p \in Procs : /\ pc'[p] = "st_insert"
                                          /\ req'[p].hash = transfers'[t].hash
                      \/ transfers'[t].hash \in stranded'
    BY DEF OrphanHashExplained, Recorded, InsertUnderWay
  <2>1. CASE \E p \in Procs : /\ pc'[p] = "st_insert" /\ req'[p] = req[p]
                              /\ transfers'[t].hash = req[p].hash
    BY <2>1
  <2>2. CASE /\ Completed(t) /\ transfers'[t].hash = transfers[t].hash
             /\ t \notin brought
    <3>1. payments \subseteq payments'
      BY PaymentsArise
    <3>2. CASE Recorded(transfers[t].hash)
      BY <2>2, <3>1, <3>2 DEF Recorded
    <3>3. CASE transfers[t].hash \in stranded
      BY <2>2, <3>3, StrandedGrows
    <3>4. ASSUME NEW p \in Procs, pc[p] = "st_insert",
                 req[p].hash = transfers[t].hash
          PROVE  \/ pc'[p] = "st_insert" /\ req'[p] = req[p]
                 \/ \E r \in payments' : r.hash = req[p].hash
                 \/ req[p].hash \in stranded'
      BY <3>4, InsertEnds
    <3>5. QED
      BY <2>2, <3>2, <3>3, <3>4 DEF OrphanHashExplained, InsertUnderWay
  <2>3. QED
    BY <2>1, <2>2, HashArises
<1>8. QED
  BY <1>1, <1>2, <1>3, <1>4, <1>5, <1>6, <1>7

-----------------------------------------------------------------------------
\* ... so it holds in every reachable state.
LEMMA SafetyHolds == Spec => []Safety
BY SafetyInit, SafetyNext, PTL DEF Spec

\* Whatever runs concurrently and dies half way, a completed transfer names a
\* mined transaction, unless its hash is what a sheet brought.
THEOREM CompletedTransfersAreMined == Spec => []PaidMeansMined
BY SafetyHolds, PTL DEF Safety

\* Payment rows agree with the chain and none is there twice, although the
\* check for a duplicate and the insert are four awaits apart.
THEOREM PaymentsMatchTheChain == Spec => []RecordsMatchChain
BY SafetyHolds, PTL DEF Safety

\* The payer of every payment is an organization's wallet for good.
THEOREM PayersStayRegistered == Spec => []PayerRegistered
BY SafetyHolds, PTL DEF Safety

\* A completed transfer lacks its payment only while the insert is under way,
\* after it was given up, or when its hash came with a sheet.
THEOREM OrphansAreExplained == Spec => []OrphanHashExplained
BY SafetyHolds, PTL DEF Safety

-----------------------------------------------------------------------------
(* Closed books.                                                           *)

\* A request is at an await of saveTransaction because it was at one before, for
\* the same transaction, or because its check has just found no payment.
LEMMA SavingArises ==
  ASSUME TypeOK, [Next]_vars, NEW p \in Procs, pc'[p] \in Saving
  PROVE  \/ pc[p] \in Saving /\ req'[p].hash = req[p].hash
         \/ ~ Recorded(req'[p].hash) /\ payments' = payments
<1> USE DEF Saving
<1>1. CASE UNCHANGED <<pc, req>>
  BY <1>1
<1>2. ASSUME NEW q \in Procs, q # p, Start(q) \/ Continue(q) \/ Abort(q)
      PROVE  pc'[p] = pc[p] /\ req'[p] = req[p]
  BY <1>2, OneRequestMoves
<1>3. \A label, r : Await(p, label, r) => pc'[p] = label /\ req'[p] = r
  BY DEF Await, TypeOK
<1>4. \A label, r : label \notin Saving => ~ Await(p, label, r)
  BY <1>3
<1>5. ASSUME NEW h \in Hashes, SaveTransactionCheck(p, h)
      PROVE  \/ UNCHANGED <<pc, req>>
             \/ ~ Recorded(req'[p].hash) /\ payments' = payments
  <2>1. CASE Recorded(h)
    BY <1>5, <2>1 DEF SaveTransactionCheck
  <2>2. CASE ~ Recorded(h)
    <3>1. PICK ts \in SUBSET Tids :
            Await(p, "st_transaction", [NoRequest EXCEPT !.hash = h, !.tids = ts])
      BY <1>5, <2>2 DEF SaveTransactionCheck
    <3>2. req'[p] = [NoRequest EXCEPT !.hash = h, !.tids = ts]
      BY <1>3, <3>1
    <3>3. req'[p].hash = h
      BY <3>2 DEF NoRequest
    <3>4. QED
      BY <1>5, <2>2, <3>3 DEF SaveTransactionCheck, db
  <2>3. QED
    BY <2>1, <2>2
<1>6. CASE Start(p)
  <2>1. CASE \E h \in Hashes : SaveTransactionCheck(p, h)
    BY <1>1, <1>5, <2>1
  <2>2. CASE ~ \E h \in Hashes : SaveTransactionCheck(p, h)
    BY <1>1, <1>4, <1>6, <2>2, SheetRows DEF Start, EditTransfer, DeleteTransfer,
      DeleteMultipleFind, CreateFromDbEmployees, CreateEmployeeCheck, EditEmployeeFind, RemoveEmployeeFind, AddWallet
  <2>3. QED
    BY <2>1, <2>2
<1>7. CASE GetTransaction(p) \/ GetTransactionReceipt(p) \/ AddHash(p)
  BY <1>3, <1>4, <1>7
     DEF GetTransaction, GetTransactionReceipt, AddHash, Respond
<1>8. CASE Continue(p) /\ ~ (GetTransaction(p) \/ GetTransactionReceipt(p)
                              \/ AddHash(p))
  BY <1>4, <1>8 DEF Continue, Respond, DeleteMultiple, CreateFromDbPending,
    CreateFromDbLoad, CreateFromDbSave, UploadEmployee, InsertPayment,
    CreateEmployee, EditEmployee, RemoveEmployeeTransfers, RemoveEmployee
<1>9. CASE Abort(p)
  BY <1>4, <1>9 DEF Abort, Respond
<1>10. CASE \E h \in Hashes : Submit(h) \/ Mine(h)
  BY <1>1, <1>10 DEF Submit, Mine
<1>11. CASE UNCHANGED vars
  BY <1>1, <1>11 DEF vars
<1>12. QED
  BY <1>1, <1>2, <1>6, <1>7, <1>8, <1>9, <1>10, <1>11 DEF Next

\* Once a payment is recorded and nobody is on the way with its transaction,
\* nobody ever marks a transfer with it again; a sheet can bring a new one.
THEOREM BooksStayClosed == Spec => ClosedForGood
<1>1. ASSUME Safety, [Next]_vars, NEW h \in Hashes, Closed(h)
      PROVE  Closed(h)' /\ PaidBy(h)' \ PaidBy(h) \subseteq brought' \ issued
  <2>1. Recorded(h) /\ \A p \in Procs : pc[p] \in Saving => req[p].hash # h
    BY <1>1 DEF Closed
  <2>2. payments \subseteq payments'
    BY <1>1, PaymentsArise DEF Safety
  <2>3. Recorded(h)'
    BY <2>1, <2>2 DEF Recorded
  <2>4. ASSUME NEW p \in Procs, pc'[p] \in Saving
        PROVE  req'[p].hash # h
    BY <1>1, <2>1, <2>4, SavingArises DEF Safety
  <2>5. ASSUME NEW t \in Tids, Completed(t)', transfers'[t].hash = h
        PROVE  t \in PaidBy(h) \/ t \in brought' \ issued
    <3>1. \A p \in Procs : pc[p] = "st_mark" => req[p].hash # h
      BY <2>1 DEF Saving
    <3>2. (Completed(t) /\ transfers[t].hash = h) \/ t \in brought' \ issued
      BY <1>1, <2>5, <3>1, HashArises DEF Safety
    <3>3. QED
      BY <3>2 DEF PaidBy
  <2>6. PaidBy(h)' \ PaidBy(h) \subseteq brought' \ issued
    BY <2>5 DEF PaidBy
  <2>7. QED
    BY <2>3, <2>4, <2>6 DEF Closed
<1>2. Safety /\ [Next]_vars =>
        [\A h \in Hashes :
           Closed(h) => /\ Closed(h)'
                        /\ PaidBy(h)' \ PaidBy(h) \subseteq brought' \ issued]_vars
  BY <1>1
<1>3. QED
  BY <1>2, SafetyHolds, PTL DEF Spec, ClosedForGood

-----------------------------------------------------------------------------
(***************************************************************************)
(* Pending transfers.  What they need is that ids are new when they are    *)
(* drawn and that every request at an await was allowed to get there.      *)
(***************************************************************************)
Generating == {"db_pending", "db_load", "db_write"}
Hiring     == {"up_employee", "em_insert"}

Called == \A p \in Procs :
  /\ pc[p] = "del_many" => "deleteMultiple" \in Slots[p]
  /\ pc[p] \in Generating => "createFromDb" \in Slots[p]
  /\ pc[p] = "em_update" => "editEmployee" \in Slots[p]
  /\ pc[p] \in {"rm_transfers", "rm_row"} => "removeEmployee" \in Slots[p]

TidsIssued ==
  /\ \A t \in Tids : transfers[t] # Absent => t \in issued
  /\ \A p \in Procs : pc[p] \in Generating =>
       \A t \in Tids : req[p].list[t] # Absent => t \in issued

EidsIssued ==
  /\ \A e \in Eids : employees[e] # Absent => e \in issued
  /\ \A p \in Procs : pc[p] \in Hiring =>
       /\ \A e \in req[p].eids : e \in issued /\ employees[e] = Absent
       /\ \A q \in Procs \ {p} : pc[q] \in Hiring => req[p].eids \cap req[q].eids = {}

EmployeesUnique ==
  \A e, f \in Eids : employees[e] # Absent /\ employees[e] = employees[f] => e = f

Ids == TypeOK /\ ListUnpaid /\ Called /\ TidsIssued /\ EidsIssued /\ EmployeesUnique

-----------------------------------------------------------------------------
\* A step of a request, by what becomes of its control state.
Ends(p)  == pc'[p] = "idle" /\ req'[p] = NoRequest
Stays(p) == UNCHANGED <<pc, req>>
Goes(p)  ==
  /\ \/ pc'[p] \in {"st_transaction", "st_receipt", "st_mark", "st_insert"}
     \/ pc'[p] = "del_many" /\ "deleteMultiple" \in Slots[p]
     \/ pc'[p] = "em_update" /\ "editEmployee" \in Slots[p]
     \/ pc'[p] = "rm_transfers" /\ "removeEmployee" \in Slots[p]
     \/ pc'[p] = "rm_row" /\ pc[p] = "rm_transfers"

\* A step ends its request, leaves it, or brings it to an await; only these
\* actions lead to one where a list or new ids are kept.
LEMMA ControlSteps ==
  ASSUME TypeOK, NEW p \in Procs, Start(p) \/ Continue(p) \/ Abort(p)
  PROVE  \/ Ends(p) \/ Stays(p) \/ Goes(p)
         \/ CreateFromDbEmployees(p) \/ CreateFromDbPending(p) \/ CreateFromDbLoad(p)
         \/ UploadTransfers(p)
         \/ UploadEmployee(p) /\ pc'[p] = "up_employee"
         \/ CreateEmployeeCheck(p)
<1> USE DEF Ends, Stays, Goes, Await, Respond, Call, TypeOK
<1>1. CASE Start(p)
  BY <1>1 DEF Start, EditTransfer, DeleteTransfer, DeleteMultipleFind,
    SaveTransactionCheck, EditEmployeeFind, RemoveEmployeeFind, AddWallet
<1>2. CASE Continue(p)
  BY <1>2 DEF Continue, DeleteMultiple, CreateFromDbSave, UploadEmployee,
    GetTransaction, GetTransactionReceipt, AddHash, InsertPayment, CreateEmployee,
    EditEmployee, RemoveEmployeeTransfers, RemoveEmployee
<1>3. CASE Abort(p)
  BY <1>3 DEF Abort
<1>4. QED
  BY <1>1, <1>2, <1>3

\* Ids are never forgotten.
LEMMA IssuedGrows ==
  ASSUME [Next]_vars PROVE issued \subseteq issued'
<1>1. ASSUME NEW p \in Procs, Start(p) PROVE issued \subseteq issued'
  BY <1>1, SheetRows DEF Start, EditTransfer, DeleteTransfer,
    DeleteMultipleFind, CreateFromDbEmployees, SaveTransactionCheck, CreateEmployeeCheck,
    EditEmployeeFind, RemoveEmployeeFind, AddWallet
<1>2. ASSUME NEW p \in Procs, Continue(p) PROVE issued \subseteq issued'
  BY <1>2 DEF Continue, DeleteMultiple, CreateFromDbPending,
    CreateFromDbLoad, CreateFromDbSave, UploadEmployee, GetTransaction,
    GetTransactionReceipt, AddHash, InsertPayment, CreateEmployee,
    EditEmployee, RemoveEmployeeTransfers, RemoveEmployee
<1>3. ASSUME NEW p \in Procs, Abort(p) PROVE issued \subseteq issued'
  BY <1>3 DEF Abort
<1>4. CASE \E h \in Hashes : Submit(h) \/ Mine(h)
  BY <1>4 DEF Submit, Mine
<1>5. CASE UNCHANGED vars
  BY <1>5 DEF vars
<1>6. QED
  BY <1>1, <1>2, <1>3, <1>4, <1>5 DEF Next

\* What generating starts with: new ids, wallets of employees.
LEMMA GeneratedList ==
  ASSUME TypeOK, NEW p \in Procs, CreateFromDbEmployees(p)
  PROVE  /\ pc[p] = "idle" /\ "createFromDb" \in Slots[p] /\ pc'[p] = "db_pending"
         /\ employees' = employees /\ transfers' = transfers
         /\ \A t \in Tids : req'[p].list[t] # Absent =>
              /\ t \in issued' /\ t \notin issued
              /\ req'[p].list[t].org = req'[p].org
              /\ \E e \in Eids : /\ employees[e] # Absent
                                 /\ employees[e].org = req'[p].org
                                 /\ employees[e].wallet = req'[p].list[t].wallet
         /\ EmployeesUnique =>
              \A t, u \in Tids :
                (/\ req'[p].list[t] # Absent /\ req'[p].list[u] # Absent
                 /\ req'[p].list[t].wallet = req'[p].list[u].wallet) => t = u
<1> DEFINE es(o) == {e \in Eids : employees[e] # Absent /\ employees[e].org = o}
           new(o, id) == NewTransfers(o, es(o), id,
                           [e \in es(o) |-> employees[e].wallet],
                           [e \in es(o) |-> 1], [e \in es(o) |-> NoHash])
<1>1. PICK o \in Orgs : \E id \in Injections(es(o), FreshTids) :
        /\ Await(p, "db_pending", [NoRequest EXCEPT !.org = o, !.list = new(o, id)])
        /\ issued' = issued \cup {id[e] : e \in es(o)}
  BY DEF CreateFromDbEmployees
<1>2. PICK id \in Injections(es(o), FreshTids) :
        /\ Await(p, "db_pending", [NoRequest EXCEPT !.org = o, !.list = new(o, id)])
        /\ issued' = issued \cup {id[e] : e \in es(o)}
  BY <1>1
<1>3. ASSUME NEW t \in Tids, new(o, id)[t] # Absent
      PROVE  \E e \in es(o) : /\ id[e] = t /\ new(o, id)[t].org = o
                              /\ new(o, id)[t].wallet = employees[e].wallet
  <2> DEFINE wallet == [e \in es(o) |-> employees[e].wallet]
             amount == [e \in es(o) |-> 1]
             hash   == [e \in es(o) |-> NoHash]
             row    == NewTransfers(o, es(o), id, wallet, amount, hash)[t]
  <2>1. new(o, id)[t] = row
    OBVIOUS
  <2>2. \A e \in es(o) : wallet[e] = employees[e].wallet
    OBVIOUS
  <2> HIDE DEF new, wallet, amount, hash, es
  <2>3. PICK e \in es(o) : /\ id[e] = t
                           /\ row = [org |-> o, wallet |-> wallet[e],
                                     amount |-> amount[e], hash |-> hash[e]]
    BY <1>3, <2>1, NewTransfersRow
  <2> HIDE DEF row
  <2>4. row.org = o /\ row.wallet = wallet[e]
    BY <2>3
  <2>5. QED
    BY <2>1, <2>2, <2>3, <2>4
<1> HIDE DEF new
<1>4. /\ req'[p].list = new(o, id) /\ req'[p].org = o /\ pc'[p] = "db_pending"
  BY <1>2 DEF Await, TypeOK, NoRequest
<1>5. /\ pc[p] = "idle" /\ "createFromDb" \in Slots[p]
      /\ employees' = employees /\ transfers' = transfers
  BY DEF CreateFromDbEmployees, Call, db
<1>6. ASSUME NEW t \in Tids, new(o, id)[t] # Absent
      PROVE  /\ t \in issued' /\ t \notin issued
             /\ new(o, id)[t].org = o
             /\ \E e \in Eids : /\ employees[e] # Absent /\ employees[e].org = o
                                /\ employees[e].wallet = new(o, id)[t].wallet
  <2>1. PICK e \in es(o) : /\ id[e] = t /\ new(o, id)[t].org = o
                           /\ new(o, id)[t].wallet = employees[e].wallet
    BY <1>3, <1>6
  <2>2. id[e] \in FreshTids
    BY DEF Injections
  <2>3. QED
    BY <1>2, <2>1, <2>2 DEF FreshTids
<1>7. ASSUME EmployeesUnique, NEW t \in Tids, NEW u \in Tids,
             new(o, id)[t] # Absent, new(o, id)[u] # Absent,
             new(o, id)[t].wallet = new(o, id)[u].wallet
      PROVE  t = u
  <2>1. PICK e \in es(o) : id[e] = t /\ new(o, id)[t].wallet = employees[e].wallet
    BY <1>3, <1>7
  <2>2. PICK f \in es(o) : id[f] = u /\ new(o, id)[u].wallet = employees[f].wallet
    BY <1>3, <1>7
  <2>3. /\ employees[e] \in EmployeeRow /\ employees[f] \in EmployeeRow
        /\ employees[e].org = employees[f].org
        /\ e \in Eids /\ f \in Eids /\ employees[e] # Absent
    BY DEF TypeOK
  <2> HIDE DEF es
  <2>4. employees[e] = employees[f]
    <3>1. employees[e].wallet = employees[f].wallet
      BY <1>7, <2>1, <2>2
    <3>2. \A x, y \in EmployeeRow : x.org = y.org /\ x.wallet = y.wallet => x = y
      BY DEF EmployeeRow
    <3>3. QED
      BY <2>3, <3>1, <3>2
  <2>5. QED
    BY <1>7, <2>1, <2>2, <2>3, <2>4 DEF EmployeesUnique
<1>8. QED
  BY <1>4, <1>5, <1>6, <1>7

\* What an upload inserts: rows with new ids, of wallets whose employees it is
\* still to insert under new ids.
LEMMA UploadedRows ==
  ASSUME TypeOK, NEW p \in Procs, UploadTransfers(p)
  PROVE  /\ pc[p] = "idle" /\ "upload" \in Slots[p] /\ pc'[p] = "up_employee"
         /\ req'[p].eids \subseteq FreshEids \cap issued'
         /\ employees' = employees
         /\ \A t \in Tids : \/ transfers'[t] = transfers[t]
                            \/ /\ t \in issued' /\ t \notin issued
                               /\ transfers'[t] # Absent
                               /\ transfers'[t].org = req'[p].org
                               /\ transfers'[t].wallet \in req'[p].wallets
<1>1. PICK o \in Orgs, ws \in SUBSET Wallets, es \in SUBSET FreshEids,
           S \in SUBSET FreshTids :
        /\ Await(p, "up_employee",
                 [NoRequest EXCEPT !.org = o, !.wallets = ws, !.eids = es])
        /\ issued' = issued \cup S \cup es
        /\ brought' = brought \cup {t \in S : transfers'[t].hash # NoHash}
        /\ \A t \in Tids \ S : transfers'[t] = transfers[t]
        /\ \A t \in S : /\ transfers'[t] \in TransferRow
                        /\ transfers'[t].org = o
                        /\ transfers'[t].wallet \in ws
  BY SheetRows
<1>2. /\ req'[p].org = o /\ req'[p].wallets = ws /\ req'[p].eids = es
      /\ pc'[p] = "up_employee"
  BY <1>1 DEF Await, TypeOK, NoRequest
<1>3. /\ pc[p] = "idle" /\ "upload" \in Slots[p] /\ employees' = employees
  BY DEF UploadTransfers, Call
<1>4. /\ \A t \in S : t \in issued' /\ t \notin issued
      /\ \A e \in es : e \in FreshEids /\ e \in issued'
  BY <1>1 DEF FreshTids
<1>5. \A t \in S : /\ transfers'[t] # Absent /\ transfers'[t].org = req'[p].org
                   /\ transfers'[t].wallet \in req'[p].wallets
  BY <1>1, <1>2, ConstantsAssumption
<1>6. QED
  BY <1>1, <1>2, <1>3, <1>4, <1>5

\* The row is there and is of the same wallet as before.
SameRow(t) == /\ transfers[t] # Absent
              /\ transfers'[t].org = transfers[t].org
              /\ transfers'[t].wallet = transfers[t].wallet

\* A row of the next state was there, or is one that createFromDb or an upload
\* inserts; only createFromDb may make it pending again.
LEMMA TransfersArise ==
  ASSUME TypeOK, [Next]_vars, NEW t \in Tids, transfers'[t] # Absent
  PROVE  \/ /\ SameRow(t)
            /\ \/ transfers'[t].hash = NoHash => transfers[t].hash = NoHash
               \/ \E p \in Procs : CreateFromDbSave(p) /\ req[p].list[t] # Absent
         \/ \E p \in Procs : /\ CreateFromDbSave(p) /\ req[p].list[t] # Absent
                             /\ transfers'[t] = req[p].list[t]
         \/ \E p \in Procs : /\ UploadTransfers(p)
                             /\ t \in issued' /\ t \notin issued
                             /\ transfers'[t].org = req'[p].org
                             /\ transfers'[t].wallet \in req'[p].wallets
<1> DEFINE Kept == SameRow(t) /\ (transfers'[t].hash = NoHash => transfers[t].hash = NoHash)
<1>0. NoHash \notin Hashes /\ (transfers[t] # Absent => transfers[t] \in TransferRow)
  BY ConstantsAssumption DEF TypeOK, Table
<1>1. CASE transfers' = transfers
  BY <1>1 DEF SameRow
<1>2. ASSUME NEW p \in Procs, EditTransfer(p) PROVE Kept
  <2>1. PICK u \in Tids, a \in Amounts : /\ transfers[u] # Absent
                                        /\ transfers' = [transfers EXCEPT ![u].amount = a]
    BY <1>2 DEF EditTransfer
  <2>2. CASE t = u
    <3>1. transfers'[t] = [transfers[t] EXCEPT !.amount = a] /\ transfers[t] # Absent
      BY <2>1, <2>2 DEF TypeOK, Table
    <3>2. QED
      BY <1>0, <3>1 DEF SameRow, TransferRow
  <2>3. CASE t # u
    BY <2>1, <2>3 DEF TypeOK, Table, SameRow
  <2>4. QED
    BY <2>2, <2>3
<1>3. ASSUME NEW p \in Procs, DeleteTransfer(p) \/ DeleteMultiple(p) \/ RemoveEmployeeTransfers(p)
      PROVE  Kept
  <2>1. transfers'[t] = transfers[t]
    BY <1>3 DEF TypeOK, Table, DeleteTransfer, DeleteMultiple, RemoveEmployeeTransfers
  <2>2. QED
    BY <2>1 DEF SameRow
<1>4. ASSUME NEW p \in Procs, UploadTransfers(p)
      PROVE  \/ Kept
             \/ /\ t \in issued' /\ t \notin issued
                /\ transfers'[t].org = req'[p].org
                /\ transfers'[t].wallet \in req'[p].wallets
  BY <1>4, UploadedRows DEF SameRow
<1>5. ASSUME NEW p \in Procs, AddHash(p) PROVE Kept
  <2>1. req[p].hash \in Hashes
    BY <1>5 DEF AddHash, TypeOK, LocalsSet
  <2>2. CASE transfers'[t] = transfers[t]
    BY <2>2 DEF SameRow
  <2>3. CASE /\ transfers[t] # Absent
             /\ transfers'[t] = [transfers[t] EXCEPT !.hash = req[p].hash]
    BY <1>0, <2>1, <2>3 DEF SameRow, TransferRow
  <2>4. QED
    BY <1>5, <2>2, <2>3 DEF AddHash
<1>6. ASSUME NEW p \in Procs, CreateFromDbSave(p)
      PROVE  \/ Kept
             \/ SameRow(t) /\ req[p].list[t] # Absent
             \/ req[p].list[t] # Absent /\ transfers'[t] = req[p].list[t]
  <2>1. req[p].list \in Table /\ req[p].loaded \in Table
    BY DEF TypeOK, Request
  <2>2. CASE transfers'[t] = transfers[t]
    BY <2>2 DEF SameRow
  <2>3. CASE /\ req[p].list[t] # Absent /\ req[p].loaded[t] # Absent
             /\ transfers[t] # Absent
             /\ transfers'[t] = Merge(transfers[t], req[p].loaded[t], req[p].list[t])
    BY <1>0, <2>3 DEF SameRow, Merge, TransferRow
  <2>4. CASE req[p].list[t] # Absent /\ transfers'[t] = req[p].list[t]
    BY <2>4
  <2>5. QED
    BY <1>6, <2>2, <2>3, <2>4 DEF CreateFromDbSave
<1>7. ASSUME NEW p \in Procs,
             \/ DeleteMultipleFind(p) \/ CreateFromDbEmployees(p)
             \/ \E h \in Hashes : SaveTransactionCheck(p, h)
             \/ CreateEmployeeCheck(p) \/ EditEmployeeFind(p)
             \/ RemoveEmployeeFind(p) \/ AddWallet(p)
             \/ CreateFromDbPending(p) \/ CreateFromDbLoad(p)
             \/ UploadEmployee(p) \/ GetTransaction(p)
             \/ GetTransactionReceipt(p) \/ InsertPayment(p)
             \/ CreateEmployee(p) \/ EditEmployee(p) \/ RemoveEmployee(p)
             \/ Abort(p)
      PROVE  transfers' = transfers
  BY <1>7 DEF DeleteMultipleFind, CreateFromDbEmployees,
    SaveTransactionCheck, CreateEmployeeCheck, EditEmployeeFind,
    RemoveEmployeeFind, AddWallet, CreateFromDbPending, CreateFromDbLoad,
    UploadEmployee, GetTransaction, GetTransactionReceipt, InsertPayment,
    CreateEmployee, EditEmployee, RemoveEmployee, Abort, db
<1>8. CASE \E h \in Hashes : Submit(h) \/ Mine(h)
  BY <1>1, <1>8 DEF Submit, Mine, db
<1>9. CASE UNCHANGED vars
  BY <1>1, <1>9 DEF vars
<1> HIDE DEF Kept
<1>10. CASE \E p \in Procs : Start(p) \/ Continue(p) \/ Abort(p)
  <2>1. PICK p \in Procs : Start(p) \/ Continue(p) \/ Abort(p)
    BY <1>10
  <2>2. CASE UploadTransfers(p)
    BY <1>4, <2>2 DEF Kept
  <2>3. CASE CreateFromDbSave(p)
    BY <1>6, <2>3 DEF Kept
  <2>4. CASE \/ EditTransfer(p) \/ DeleteTransfer(p) \/ DeleteMultiple(p)
             \/ RemoveEmployeeTransfers(p) \/ AddHash(p)
    BY <1>2, <1>3, <1>5, <2>4 DEF Kept
  <2>5. CASE ~ (\/ UploadTransfers(p) \/ CreateFromDbSave(p)
                \/ EditTransfer(p) \/ DeleteTransfer(p) \/ DeleteMultiple(p)
                \/ RemoveEmployeeTransfers(p) \/ AddHash(p))
    BY <1>1, <1>7, <2>1, <2>5 DEF Start, Continue
  <2>6. QED
    BY <2>2, <2>3, <2>4, <2>5
<1>11. QED
  BY <1>8, <1>9, <1>10 DEF Next

\* Only four steps change employees.
LEMMA EmployeesStill ==
  ASSUME [Next]_vars,
         ~ \E p \in Procs : \/ UploadEmployee(p) \/ CreateEmployee(p)
                           \/ EditEmployee(p) \/ RemoveEmployee(p)
  PROVE  employees' = employees
<1>1. ASSUME NEW p \in Procs, Start(p) PROVE employees' = employees
  BY <1>1 DEF Start, EditTransfer, DeleteTransfer, DeleteMultipleFind,
    CreateFromDbEmployees, UploadTransfers, SaveTransactionCheck,
    CreateEmployeeCheck, EditEmployeeFind, RemoveEmployeeFind, AddWallet, db
<1>2. ASSUME NEW p \in Procs, Continue(p) PROVE employees' = employees
  BY <1>2 DEF Continue, DeleteMultiple, CreateFromDbPending,
    CreateFromDbLoad, CreateFromDbSave, GetTransaction,
    GetTransactionReceipt, AddHash, InsertPayment, RemoveEmployeeTransfers, db
<1>3. ASSUME NEW p \in Procs, Abort(p) PROVE employees' = employees
  BY <1>3 DEF Abort, db
<1>4. CASE \E h \in Hashes : Submit(h) \/ Mine(h)
  BY <1>4 DEF Submit, Mine, db
<1>5. CASE UNCHANGED vars
  BY <1>5 DEF vars
<1>6. QED
  BY <1>1, <1>2, <1>3, <1>4, <1>5 DEF Next

\* The two that insert do so under an id of their own.
LEMMA Hires ==
  ASSUME TypeOK, NEW p \in Procs, UploadEmployee(p) \/ CreateEmployee(p)
  PROVE  \E e \in req[p].eids, w \in Wallets :
           /\ pc[p] \in Hiring /\ e \in Eids /\ InsertEmployee(e, req[p].org, w)
           /\ issued' = issued /\ transfers' = transfers
           /\ \/ Ends(p) /\ (pc[p] = "up_employee" => req[p].wallets = {w})
              \/ /\ pc'[p] = "up_employee" /\ pc[p] = "up_employee"
                 /\ req'[p].wallets = req[p].wallets \ {w}
                 /\ req'[p].eids = req[p].eids \ {e}
                 /\ req'[p].org = req[p].org
<1>1. /\ req[p] \in Request /\ LocalsSet(pc[p], req[p])
      /\ req[p].wallets \subseteq Wallets /\ req[p].eids \subseteq Eids
  BY DEF TypeOK, Request
<1>2. CASE CreateEmployee(p)
  <2>1. PICK e \in req[p].eids : InsertEmployee(e, req[p].org, req[p].wallet)
    BY <1>2 DEF CreateEmployee
  <2>2. /\ pc[p] = "em_insert" /\ Ends(p) /\ issued' = issued /\ transfers' = transfers
    BY <1>2 DEF CreateEmployee, Ends, Respond, Await, TypeOK
  <2>3. req[p].wallet \in Wallets
    BY <1>1, <2>2 DEF LocalsSet
  <2>4. QED
    BY <1>1, <2>1, <2>2, <2>3 DEF Hiring
<1>3. CASE UploadEmployee(p)
  <2>1. PICK w \in req[p].wallets, e \in req[p].eids :
          /\ InsertEmployee(e, req[p].org, w)
          /\ IF req[p].wallets = {w} THEN Respond(p)
             ELSE Await(p, "up_employee",
                        [req[p] EXCEPT !.wallets = @ \ {w}, !.eids = @ \ {e}])
    BY <1>3 DEF UploadEmployee
  <2>2. pc[p] = "up_employee" /\ issued' = issued /\ transfers' = transfers
    BY <1>3 DEF UploadEmployee
  <2>3. CASE req[p].wallets = {w}
    BY <1>1, <2>1, <2>2, <2>3 DEF Ends, Respond, Await, TypeOK, Hiring
  <2>4. CASE req[p].wallets # {w}
    <3>1. /\ pc'[p] = "up_employee"
          /\ req'[p] = [req[p] EXCEPT !.wallets = @ \ {w}, !.eids = @ \ {e}]
      BY <2>1, <2>4 DEF Await, TypeOK
    <3>2. /\ req'[p].wallets = req[p].wallets \ {w}
          /\ req'[p].eids = req[p].eids \ {e} /\ req'[p].org = req[p].org
      BY <1>1, <3>1 DEF Request
    <3>3. QED
      BY <1>1, <2>1, <2>2, <3>1, <3>2 DEF Hiring
  <2>5. QED
    BY <2>3, <2>4
<1>4. QED
  BY <1>2, <1>3

\* Every step is one of one request, or leaves the requests alone.
LEMMA WhoSteps ==
  ASSUME [Next]_vars
  PROVE  \/ \E p \in Procs : Start(p) \/ Continue(p) \/ Abort(p)
         \/ UNCHANGED <<db, pc, req, issued>>
BY DEF Next, vars, db, Submit, Mine

\* What createFromDb goes on with is what it had, or pending rows of the table.
LEMMA FilteredList ==
  ASSUME TypeOK, NEW p \in Procs, CreateFromDbPending(p)
  PROVE  /\ pc[p] = "db_pending" /\ pc'[p] = "db_load" /\ req'[p].org = req[p].org
         /\ UNCHANGED <<db, issued>>
         /\ \A t \in Tids :
              \/ req'[p].list[t] = Absent
              \/ /\ req'[p].list[t] = req[p].list[t]
                 /\ \A u \in Tids : Pending(u) /\ transfers[u].org = req[p].org
                                    => transfers[u].wallet # req[p].list[t].wallet
              \/ /\ Pending(t) /\ transfers[t].org = req[p].org
                 /\ req'[p].list[t] = transfers[t]
                 /\ \A u \in Tids : req[p].list[u] # Absent
                                    => req[p].list[u].wallet # transfers[t].wallet
<1> DEFINE existed == [u \in Tids |->
      IF Pending(u) /\ transfers[u].org = req[p].org THEN transfers[u] ELSE Absent]
           list == RemoveExistingObjectsByWalletId(existed, req[p].list)
<1>1. /\ pc[p] = "db_pending" /\ pc'[p] = "db_load" /\ UNCHANGED <<db, issued>>
      /\ req'[p] = [req[p] EXCEPT !.list = list]
  BY DEF CreateFromDbPending, Await, TypeOK
<1>2. \A u \in Tids : existed[u] = IF Pending(u) /\ transfers[u].org = req[p].org
                                   THEN transfers[u] ELSE Absent
  OBVIOUS
<1> HIDE DEF existed
<1>3. \A t \in Tids :
      \/ list[t] = Absent
      \/ /\ existed[t] # Absent /\ list[t] = existed[t]
         /\ \A u \in Tids : req[p].list[u] # Absent => req[p].list[u].wallet # existed[t].wallet
      \/ /\ req[p].list[t] # Absent /\ list[t] = req[p].list[t]
         /\ \A u \in Tids : existed[u] # Absent => existed[u].wallet # req[p].list[t].wallet
  BY DEF RemoveExistingObjectsByWalletId, Rows
<1> HIDE DEF list
<1>4. req'[p].list = list /\ req'[p].org = req[p].org
  BY <1>1 DEF TypeOK, Request
<1>5. ASSUME NEW t \in Tids
      PROVE  \/ req'[p].list[t] = Absent
             \/ /\ req'[p].list[t] = req[p].list[t]
                /\ \A u \in Tids : Pending(u) /\ transfers[u].org = req[p].org
                                   => transfers[u].wallet # req[p].list[t].wallet
             \/ /\ Pending(t) /\ transfers[t].org = req[p].org
                /\ req'[p].list[t] = transfers[t]
                /\ \A u \in Tids : req[p].list[u] # Absent
                                   => req[p].list[u].wallet # transfers[t].wallet
  <2>1. CASE list[t] = Absent
    BY <1>4, <2>1
  <2>2. CASE /\ existed[t] # Absent /\ list[t] = existed[t]
             /\ \A u \in Tids : req[p].list[u] # Absent => req[p].list[u].wallet # existed[t].wallet
    BY <1>2, <1>4, <2>2
  <2>3. CASE /\ req[p].list[t] # Absent /\ list[t] = req[p].list[t]
             /\ \A u \in Tids : existed[u] # Absent => existed[u].wallet # req[p].list[t].wallet
    BY <1>2, <1>4, <2>3 DEF Pending
  <2>4. QED
    BY <1>3, <2>1, <2>2, <2>3
<1>6. QED
  BY <1>1, <1>4, <1>5

\* Loading leaves the list alone.
LEMMA LoadedList ==
  ASSUME TypeOK, NEW p \in Procs, CreateFromDbLoad(p)
  PROVE  /\ pc[p] = "db_load" /\ pc'[p] = "db_write"
         /\ req'[p].org = req[p].org /\ req'[p].list = req[p].list
         /\ \A t \in Tids : req[p].list[t] # Absent => req'[p].loaded[t] = transfers[t]
         /\ UNCHANGED <<db, issued>>
<1> DEFINE loaded == [t \in Tids |-> IF req[p].list[t] # Absent THEN transfers[t] ELSE Absent]
<1>1. /\ pc[p] = "db_load" /\ pc'[p] = "db_write" /\ UNCHANGED <<db, issued>>
      /\ req'[p] = [req[p] EXCEPT !.loaded = loaded]
  BY DEF CreateFromDbLoad, Await, TypeOK
<1>2. \A t \in Tids : req[p].list[t] # Absent => loaded[t] = transfers[t]
  OBVIOUS
<1> HIDE DEF loaded
<1>3. QED
  BY <1>1, <1>2 DEF TypeOK, Request

\* A request at an await of generating or hiring was there before, or has just got
\* there from the await before it.
LEMMA GeneratesStill ==
  ASSUME TypeOK, [Next]_vars, NEW p \in Procs, pc'[p] \in Generating
  PROVE  \/ pc'[p] = pc[p] /\ req'[p] = req[p]
         \/ CreateFromDbEmployees(p) \/ CreateFromDbPending(p) \/ CreateFromDbLoad(p)
<1>1. ASSUME NEW q \in Procs, Start(q) \/ Continue(q) \/ Abort(q)
      PROVE  \/ pc'[p] = pc[p] /\ req'[p] = req[p]
             \/ CreateFromDbEmployees(p) \/ CreateFromDbPending(p) \/ CreateFromDbLoad(p)
  <2>1. CASE q # p
    BY <1>1, <2>1, OneRequestMoves
  <2>2. CASE q = p
    <3>1. ~ UploadTransfers(p) /\ ~ CreateEmployeeCheck(p) /\ ~ Ends(p) /\ ~ Goes(p)
      BY UploadedRows DEF Generating, Ends, Goes, CreateEmployeeCheck, Await, TypeOK
    <3>2. QED
      BY <1>1, <2>2, <3>1, ControlSteps DEF Generating, Stays
  <2>3. QED
    BY <2>1, <2>2
<1>2. CASE UNCHANGED <<db, pc, req, issued>>
  BY <1>2
<1>3. QED
  BY <1>1, <1>2, WhoSteps

\* A request that is to insert employees waits, has just drawn new ids, or goes
\* on with those that are left.
LEMMA HiresStill ==
  ASSUME TypeOK, [Next]_vars, NEW p \in Procs, pc'[p] \in Hiring
  PROVE  \/ pc'[p] = pc[p] /\ req'[p] = req[p]
         \/ /\ req'[p].eids \subseteq FreshEids /\ req'[p].eids \subseteq issued'
            /\ employees' = employees /\ pc[p] = "idle"
         \/ /\ UploadEmployee(p) /\ pc[p] = "up_employee"
            /\ req'[p].eids \subseteq req[p].eids
<1>1. ASSUME NEW q \in Procs, Start(q) \/ Continue(q) \/ Abort(q), q = p
      PROVE  \/ pc'[p] = pc[p] /\ req'[p] = req[p]
             \/ /\ req'[p].eids \subseteq FreshEids /\ req'[p].eids \subseteq issued'
                /\ employees' = employees /\ pc[p] = "idle"
             \/ /\ UploadEmployee(p) /\ pc[p] = "up_employee"
                /\ req'[p].eids \subseteq req[p].eids
  <2>1. ~ CreateFromDbEmployees(p) /\ ~ CreateFromDbPending(p) /\ ~ CreateFromDbLoad(p)
        /\ ~ Ends(p) /\ ~ Goes(p)
    BY DEF Hiring, Ends, Goes, Await, TypeOK,
           CreateFromDbEmployees, CreateFromDbPending, CreateFromDbLoad
  <2>2. CASE UploadTransfers(p)
    BY <2>2, UploadedRows
  <2>3. CASE UploadEmployee(p) /\ pc'[p] = "up_employee"
    <3>1. PICK e \in req[p].eids, w \in Wallets :
            \/ Ends(p)
            \/ pc[p] = "up_employee" /\ req'[p].eids = req[p].eids \ {e}
      BY <2>3, Hires
    <3>2. QED
      BY <2>3, <3>1 DEF Ends
  <2>4. CASE CreateEmployeeCheck(p)
    <3>1. PICK o \in Orgs, w \in Wallets, e \in FreshEids :
            /\ issued' = issued \cup {e}
            /\ Await(p, "em_insert", [NoRequest EXCEPT !.org = o, !.wallet = w, !.eids = {e}])
      BY <2>4 DEF CreateEmployeeCheck
    <3>2. req'[p].eids = {e}
      BY <3>1 DEF Await, TypeOK, NoRequest
    <3>3. employees' = employees /\ pc[p] = "idle"
      BY <2>4 DEF CreateEmployeeCheck, Call, db
    <3>4. QED
      BY <3>1, <3>2, <3>3
  <2>5. QED
    BY <1>1, <2>1, <2>2, <2>3, <2>4, ControlSteps DEF Stays
<1>2. ASSUME NEW q \in Procs, Start(q) \/ Continue(q) \/ Abort(q), q # p
      PROVE  pc'[p] = pc[p] /\ req'[p] = req[p]
  BY <1>2, OneRequestMoves
<1>3. CASE UNCHANGED <<db, pc, req, issued>>
  BY <1>3
<1>4. QED
  BY <1>1, <1>2, <1>3, WhoSteps

-----------------------------------------------------------------------------
\* A request gets to an await by the endpoint that it called.
LEMMA CalledNext ==
  ASSUME TypeOK, Called, [Next]_vars PROVE Called'
<1> SUFFICES ASSUME NEW p \in Procs
             PROVE  /\ pc'[p] = "del_many" => "deleteMultiple" \in Slots[p]
                    /\ pc'[p] \in Generating => "createFromDb" \in Slots[p]
                    /\ pc'[p] = "em_update" => "editEmployee" \in Slots[p]
                    /\ pc'[p] \in {"rm_transfers", "rm_row"} => "removeEmployee" \in Slots[p]
  BY DEF Called
<1>1. CASE pc'[p] = pc[p]
  BY <1>1 DEF Called
<1>2. ASSUME Start(p) \/ Continue(p) \/ Abort(p)
      PROVE  \/ pc'[p] = pc[p]
             \/ pc'[p] \notin {"del_many", "em_update", "rm_transfers", "rm_row"} \cup Generating
             \/ Goes(p)
             \/ pc'[p] \in Generating /\ "createFromDb" \in Slots[p]
  <2>1. CASE CreateFromDbEmployees(p)
    BY <2>1, GeneratedList DEF Generating
  <2>2. CASE CreateFromDbPending(p) \/ CreateFromDbLoad(p)
    BY <2>2 DEF Called, Generating, CreateFromDbPending, CreateFromDbLoad, Await, TypeOK
  <2>3. CASE UploadTransfers(p) \/ CreateEmployeeCheck(p)
    BY <2>3, UploadedRows DEF Generating, CreateEmployeeCheck, Await, TypeOK
  <2>4. QED
    BY <1>2, <2>1, <2>2, <2>3, ControlSteps DEF Ends, Stays, Generating
<1>3. CASE Start(p) \/ Continue(p) \/ Abort(p)
  BY <1>1, <1>2, <1>3 DEF Called, Goes, Generating
<1>4. ASSUME NEW q \in Procs, q # p, Start(q) \/ Continue(q) \/ Abort(q)
      PROVE  pc'[p] = pc[p]
  BY <1>4, OneRequestMoves
<1>5. QED
  BY <1>1, <1>3, <1>4, WhoSteps

\* Ids of transfers are drawn before they are used.
LEMMA TidsIssuedNext ==
  ASSUME TypeOK, TidsIssued, [Next]_vars PROVE TidsIssued'
<1>1. issued \subseteq issued'
  BY IssuedGrows
<1>2. ASSUME NEW t \in Tids, transfers'[t] # Absent PROVE t \in issued'
  BY <1>1, <1>2, TransfersArise DEF TidsIssued, SameRow, CreateFromDbSave, Generating
<1>3. ASSUME NEW p \in Procs, pc'[p] \in Generating, NEW t \in Tids, req'[p].list[t] # Absent
      PROVE  t \in issued'
  <2>1. CASE pc'[p] = pc[p] /\ req'[p] = req[p]
    BY <1>1, <1>3, <2>1 DEF TidsIssued
  <2>2. CASE CreateFromDbEmployees(p)
    BY <1>3, <2>2, GeneratedList
  <2>3. CASE CreateFromDbPending(p)
    BY <1>1, <1>3, <2>3, FilteredList DEF TidsIssued, Generating, Pending
  <2>4. CASE CreateFromDbLoad(p)
    BY <1>1, <1>3, <2>4, LoadedList DEF TidsIssued, Generating
  <2>5. QED
    BY <1>3, <2>1, <2>2, <2>3, <2>4, GeneratesStill
<1>4. QED
  BY <1>2, <1>3 DEF TidsIssued

\* The row that is inserted or changed has a wallet that nobody else in the
\* organization has.
LEMMA UniqueNext ==
  ASSUME TypeOK, EidsIssued, EmployeesUnique, [Next]_vars PROVE EmployeesUnique'
<1>1. CASE employees' = employees
  BY <1>1 DEF EmployeesUnique
<1>2. ASSUME NEW e \in Eids, NEW x, employees' = [employees EXCEPT ![e] = x],
             \A f \in Eids : employees[f] # x
      PROVE  EmployeesUnique'
  BY <1>2 DEF TypeOK, EmployeesUnique
<1>3. ASSUME NEW p \in Procs, UploadEmployee(p) \/ CreateEmployee(p) PROVE EmployeesUnique'
  <2>1. PICK e \in Eids, w \in Wallets : InsertEmployee(e, req[p].org, w)
    BY <1>3, Hires
  <2>2. CASE Employed(req[p].org, w)
    BY <1>1, <2>1, <2>2 DEF InsertEmployee
  <2>3. CASE ~ Employed(req[p].org, w)
    <3> DEFINE x == [org |-> req[p].org, wallet |-> w]
    <3>1. pc[p] \in Hiring
      BY <1>3, Hires
    <3>2. x \in EmployeeRow
      BY <3>1 DEF TypeOK, LocalsSet, EmployeeRow, Hiring
    <3>3. \A f \in Eids : employees[f] # x
      BY <2>3, <3>2, ConstantsAssumption DEF Employed
    <3> HIDE DEF x
    <3>4. employees' = [employees EXCEPT ![e] = x]
      BY <2>1, <2>3 DEF InsertEmployee, x
    <3>5. QED
      BY <1>2, <3>3, <3>4
  <2>4. QED
    BY <2>2, <2>3
<1>4. ASSUME NEW p \in Procs, EditEmployee(p) PROVE EmployeesUnique'
  <2>1. PICK e \in req[p].eids :
          employees' = IF employees[e] = Absent \/ Employed(employees[e].org, req[p].wallet)
                       THEN employees
                       ELSE [employees EXCEPT ![e].wallet = req[p].wallet]
    BY <1>4 DEF EditEmployee
  <2>2. CASE employees[e] = Absent \/ Employed(employees[e].org, req[p].wallet)
    BY <1>1, <2>1, <2>2
  <2>3. CASE ~ (employees[e] = Absent \/ Employed(employees[e].org, req[p].wallet))
    <3> DEFINE x == [org |-> employees[e].org, wallet |-> req[p].wallet]
    <3>1. e \in Eids /\ req[p].wallet \in Wallets
      BY <1>4 DEF TypeOK, Request, EditEmployee, LocalsSet
    <3>2. employees[e] \in EmployeeRow
      BY <2>3, <3>1 DEF TypeOK
    <3>3. x \in EmployeeRow /\ [employees[e] EXCEPT !.wallet = req[p].wallet] = x
      BY <3>1, <3>2 DEF EmployeeRow
    <3>4. \A f \in Eids : employees[f] # x
      BY <2>3, <3>3, ConstantsAssumption DEF Employed
    <3>5. employees' = [employees EXCEPT ![e] = x]
      BY <2>1, <2>3, <3>3
    <3> HIDE DEF x
    <3>6. QED
      BY <1>2, <3>1, <3>4, <3>5
  <2>4. QED
    BY <2>2, <2>3
<1>5. ASSUME NEW p \in Procs, RemoveEmployee(p) PROVE EmployeesUnique'
  BY <1>5 DEF RemoveEmployee, EmployeesUnique
<1>6. QED
  BY <1>1, <1>3, <1>4, <1>5, EmployeesStill

\* Ids of employees are drawn by one request each, and used by none but it.
LEMMA EidsIssuedNext ==
  ASSUME TypeOK, EidsIssued, [Next]_vars PROVE EidsIssued'
<1>1. issued \subseteq issued'
  BY IssuedGrows
<1>2. ASSUME NEW e \in Eids, employees'[e] # Absent
      PROVE  \/ employees[e] # Absent
             \/ \E p \in Procs : /\ pc[p] \in Hiring /\ e \in req[p].eids
                                 /\ pc'[p] \in Hiring => e \notin req'[p].eids
  <2>1. CASE employees' = employees
    BY <1>2, <2>1
  <2>2. ASSUME NEW p \in Procs, UploadEmployee(p) \/ CreateEmployee(p), employees[e] = Absent
        PROVE  /\ pc[p] \in Hiring /\ e \in req[p].eids
               /\ pc'[p] \in Hiring => e \notin req'[p].eids
    <3>1. PICK f \in req[p].eids, w \in Wallets :
            /\ pc[p] \in Hiring /\ f \in Eids /\ InsertEmployee(f, req[p].org, w)
            /\ Ends(p) \/ req'[p].eids = req[p].eids \ {f}
      BY <2>2, Hires
    <3>2. e = f
      BY <1>2, <2>2, <3>1 DEF InsertEmployee, TypeOK
    <3>3. QED
      BY <3>1, <3>2 DEF Ends, Hiring
  <2>3. ASSUME NEW p \in Procs, EditEmployee(p) \/ RemoveEmployee(p)
        PROVE  employees[e] # Absent
    BY <1>2, <2>3 DEF EditEmployee, RemoveEmployee, TypeOK
  <2>4. QED
    BY <2>1, <2>2, <2>3, EmployeesStill
<1>3. ASSUME NEW e \in Eids, employees'[e] # Absent PROVE e \in issued'
  BY <1>1, <1>2, <1>3 DEF EidsIssued
<1>4. ASSUME NEW p \in Procs, pc'[p] \in Hiring, NEW e \in req'[p].eids
      PROVE  e \in issued' /\ employees'[e] = Absent
  <2>0. e \in Eids
    BY <1>4, TypeNext DEF TypeOK, Request
  <2>1. CASE /\ req'[p].eids \subseteq FreshEids /\ req'[p].eids \subseteq issued'
             /\ employees' = employees
    BY <1>4, <2>1 DEF FreshEids, EidsIssued
  <2>2. CASE pc[p] \in Hiring /\ e \in req[p].eids
    <3>1. e \in issued /\ employees[e] = Absent
      BY <2>2 DEF EidsIssued
    <3>2. SUFFICES ASSUME employees'[e] # Absent PROVE FALSE
      BY <1>1, <3>1
    <3>3. PICK q \in Procs : /\ pc[q] \in Hiring /\ e \in req[q].eids
                             /\ pc'[q] \in Hiring => e \notin req'[q].eids
      BY <1>2, <2>0, <3>1, <3>2
    <3>4. q # p
      BY <1>4, <3>3
    <3>5. QED
      BY <2>2, <3>3, <3>4 DEF EidsIssued
  <2>3. QED
    BY <1>4, <2>1, <2>2, HiresStill DEF Hiring
<1>5. ASSUME NEW p \in Procs, pc'[p] \in Hiring, NEW q \in Procs \ {p}, pc'[q] \in Hiring
      PROVE  req'[p].eids \cap req'[q].eids = {}
  <2> DEFINE Old(r) == pc[r] \in Hiring /\ req'[r].eids \subseteq req[r].eids
             New(r) == req'[r].eids \subseteq FreshEids /\ pc[r] = "idle"
  <2>1. Old(p) \/ New(p)
    BY <1>5, HiresStill DEF Hiring
  <2>2. Old(q) \/ New(q)
    BY <1>5, HiresStill DEF Hiring
  <2>3. CASE Old(p) /\ Old(q)
    BY <1>5, <2>3 DEF EidsIssued
  <2>4. CASE (Old(p) /\ New(q)) \/ (New(p) /\ Old(q))
    BY <1>5, <2>4 DEF EidsIssued, FreshEids
  <2>5. CASE New(p) /\ New(q)
    <3>1. pc'[p] # pc[p] /\ pc'[q] # pc[q]
      BY <1>5, <2>5 DEF Hiring
    <3>2. QED
      BY <1>5, <3>1, WhoSteps, OneRequestMoves
  <2>6. QED
    BY <2>1, <2>2, <2>3, <2>4, <2>5
<1>6. QED
  BY <1>3, <1>4, <1>5 DEF EidsIssued

\* What the rest relies on.
LEMMA IdsInit == Init => Ids
<1> SUFFICES ASSUME Init PROVE Ids
  OBVIOUS
<1>1. TypeOK /\ ListUnpaid
  BY SafetyInit DEF Safety
<1>2. Called /\ TidsIssued /\ EidsIssued /\ EmployeesUnique
  BY DEF Init, Called, TidsIssued, EidsIssued, EmployeesUnique, Generating, Hiring, Empty
<1>3. QED
  BY <1>1, <1>2 DEF Ids

\* All of it together is inductive.
LEMMA IdsNext == Ids /\ [Next]_vars => Ids'
<1> SUFFICES ASSUME Ids, [Next]_vars PROVE Ids'
  OBVIOUS
<1>1. TypeOK /\ ListUnpaid /\ Called /\ TidsIssued /\ EidsIssued /\ EmployeesUnique
  BY DEF Ids
<1>2. TypeOK' /\ ListUnpaid'
  BY <1>1, TypeNext, ListUnpaidNext
<1>3. Called' /\ TidsIssued' /\ EidsIssued' /\ EmployeesUnique'
  BY <1>1, CalledNext, TidsIssuedNext, EidsIssuedNext, UniqueNext
<1>4. QED
  BY <1>2, <1>3 DEF Ids

\* It holds in every reachable state.
LEMMA IdsHold == Spec => []Ids
BY IdsInit, IdsNext, PTL DEF Spec

-----------------------------------------------------------------------------
(* Completed transfers.                                                    *)

\* Nothing but a delete endpoint or a stale createFromDb makes a completed
\* transfer anything else.
LEMMA Fate ==
  ASSUME Ids, [Next]_vars, NEW t \in Tids, Completed(t), ~ Completed(t)'
  PROVE  Deletable \/ StaleSave(t)
<1>0. TypeOK /\ ListUnpaid /\ Called /\ TidsIssued
  BY DEF Ids
<1>1. ASSUME transfers' = transfers PROVE FALSE
  BY <1>1 DEF Completed
<1>2. transfers[t] \in TransferRow /\ transfers[t].hash # NoHash /\ transfers[t] # Absent
      /\ Absent \notin TransferRow /\ NoHash \notin Hashes
  BY <1>0, ConstantsAssumption DEF TypeOK, Table, Completed
<1>3. ASSUME NEW p \in Procs, DeleteTransfer(p) PROVE Deletable
  BY <1>3 DEF DeleteTransfer, Call, Deletable
<1>4. ASSUME NEW p \in Procs, DeleteMultiple(p) PROVE Deletable
  BY <1>0, <1>4 DEF DeleteMultiple, Called, Deletable
<1>5. ASSUME NEW p \in Procs, EditTransfer(p) PROVE FALSE
  <2>1. PICK u \in Tids, a \in Amounts : /\ transfers[u] # Absent
                                        /\ transfers' = [transfers EXCEPT ![u].amount = a]
    BY <1>5 DEF EditTransfer
  <2>2. CASE t = u
    <3>1. transfers'[t] = [transfers[t] EXCEPT !.amount = a]
      BY <1>0, <2>1, <2>2 DEF TypeOK, Table
    <3>2. transfers'[t].hash = transfers[t].hash /\ transfers'[t] \in TransferRow
      BY <1>2, <3>1 DEF TransferRow
    <3>3. QED
      BY <1>2, <3>2 DEF Completed
  <2>3. CASE t # u
    BY <1>0, <2>1, <2>3 DEF TypeOK, Table, Completed
  <2>4. QED
    BY <2>2, <2>3
<1>6. ASSUME NEW p \in Procs, AddHash(p) PROVE FALSE
  <2>1. req[p].hash \in Hashes
    BY <1>0, <1>6 DEF AddHash, TypeOK, LocalsSet
  <2>2. transfers'[t] = transfers[t] \/ transfers'[t] = [transfers[t] EXCEPT !.hash = req[p].hash]
    BY <1>6 DEF AddHash
  <2>3. transfers'[t] \in TransferRow /\ transfers'[t].hash # NoHash
    BY <1>2, <2>1, <2>2 DEF TransferRow
  <2>4. QED
    BY <1>2, <2>3 DEF Completed
<1>7. ASSUME NEW p \in Procs, RemoveEmployeeTransfers(p) PROVE FALSE
  BY <1>2, <1>7 DEF RemoveEmployeeTransfers, Pending, Completed
<1>8. ASSUME NEW p \in Procs, UploadTransfers(p) PROVE FALSE
  BY <1>0, <1>2, <1>8, UploadedRows DEF TidsIssued, Completed
<1>9. ASSUME NEW p \in Procs, CreateFromDbSave(p) PROVE StaleSave(t)
  <2>1. req[p].list[t] # Absent
    BY <1>9 DEF CreateFromDbSave, Completed
  <2>2. pc[p] = "db_write" /\ pc'[p] = "idle"
    BY <1>0, <1>9 DEF CreateFromDbSave, Respond, Await, TypeOK
  <2>3. QED
    BY <1>0, <2>1, <2>2 DEF ListUnpaid, StaleSave
<1>10. ASSUME NEW p \in Procs,
             \/ DeleteMultipleFind(p) \/ CreateFromDbEmployees(p)
             \/ \E h \in Hashes : SaveTransactionCheck(p, h)
             \/ CreateEmployeeCheck(p) \/ EditEmployeeFind(p)
             \/ RemoveEmployeeFind(p) \/ AddWallet(p)
             \/ CreateFromDbPending(p) \/ CreateFromDbLoad(p)
             \/ UploadEmployee(p) \/ GetTransaction(p)
             \/ GetTransactionReceipt(p) \/ InsertPayment(p)
             \/ CreateEmployee(p) \/ EditEmployee(p) \/ RemoveEmployee(p)
             \/ Abort(p)
      PROVE  transfers' = transfers
  BY <1>10 DEF DeleteMultipleFind, CreateFromDbEmployees,
    SaveTransactionCheck, CreateEmployeeCheck, EditEmployeeFind,
    RemoveEmployeeFind, AddWallet, CreateFromDbPending, CreateFromDbLoad,
    UploadEmployee, GetTransaction, GetTransactionReceipt, InsertPayment,
    CreateEmployee, EditEmployee, RemoveEmployee, Abort, db
<1>11. CASE UNCHANGED <<db, pc, req, issued>>
  BY <1>1, <1>11 DEF db
<1>12. ASSUME NEW p \in Procs, Start(p) \/ Continue(p) \/ Abort(p)
       PROVE  Deletable \/ StaleSave(t)
  BY <1>1, <1>3, <1>4, <1>5, <1>6, <1>7, <1>8, <1>9, <1>10, <1>12 DEF Start, Continue
<1>13. QED
  BY <1>11, <1>12, WhoSteps

-----------------------------------------------------------------------------
(***************************************************************************)
(* Whose transfer it is, and how much.  There may be several copies of a   *)
(* row: in the table and in the lists of the requests that generate.       *)
(***************************************************************************)
\* Two copies of one transfer: the amount differs only after an edit.
Agree(x, y) == /\ x.org = y.org /\ x.wallet = y.wallet
               /\ x.amount = y.amount \/ Editable

CopiesAgree ==
  \A p \in Procs : pc[p] \in Generating =>
    \A t \in Tids : req[p].list[t] # Absent =>
      /\ transfers[t] # Absent => Agree(req[p].list[t], transfers[t])
      /\ pc[p] = "db_write" /\ req[p].loaded[t] # Absent
           => Agree(req[p].list[t], req[p].loaded[t])
      /\ \A q \in Procs : pc[q] \in Generating /\ req[q].list[t] # Absent
           => Agree(req[p].list[t], req[q].list[t])

\* An edit changes no more than an amount.
LEMMA EditedRow ==
  ASSUME TypeOK, NEW p \in Procs, EditTransfer(p), NEW t \in Tids, transfers[t] # Absent
  PROVE  /\ transfers'[t].org = transfers[t].org
         /\ transfers'[t].wallet = transfers[t].wallet
         /\ Editable /\ pc' = pc
<1>1. PICK u \in Tids, a \in Amounts : transfers' = [transfers EXCEPT ![u].amount = a]
  BY DEF EditTransfer
<1>2. transfers'[t] = transfers[t] \/ transfers'[t] = [transfers[t] EXCEPT !.amount = a]
  BY <1>1 DEF TypeOK, Table
<1>3. transfers[t] \in TransferRow
  BY DEF TypeOK, Table
<1>4. transfers'[t].org = transfers[t].org /\ transfers'[t].wallet = transfers[t].wallet
  BY <1>2, <1>3 DEF TransferRow
<1>5. Editable /\ pc' = pc
  BY DEF EditTransfer, Call, Editable
<1>6. QED
  BY <1>4, <1>5

\* What becomes of the row of a transfer that a request saves.
LEMMA SavedRow ==
  ASSUME TypeOK, NEW p \in Procs, CreateFromDbSave(p), NEW t \in Tids
  PROVE  \/ transfers'[t] = transfers[t]
         \/ /\ transfers[t] = Absent /\ req[p].list[t] # Absent
            /\ transfers'[t] = req[p].list[t]
         \/ /\ transfers[t] # Absent /\ req[p].list[t] # Absent /\ req[p].loaded[t] # Absent
            /\ transfers'[t].org = transfers[t].org
            /\ transfers'[t].wallet = transfers[t].wallet
            /\ \/ transfers'[t].amount = transfers[t].amount
               \/ /\ req[p].list[t].amount # req[p].loaded[t].amount
                  /\ transfers'[t].amount = req[p].list[t].amount
<1>1. transfers[t] # Absent => transfers[t] \in TransferRow
  BY DEF TypeOK, Table
<1>2. CASE transfers'[t] = transfers[t]
  BY <1>2
<1>3. CASE /\ req[p].list[t] # Absent /\ transfers[t] = Absent
           /\ transfers'[t] = req[p].list[t]
  BY <1>3
<1>4. CASE /\ transfers[t] # Absent /\ req[p].list[t] # Absent /\ req[p].loaded[t] # Absent
           /\ transfers'[t] = Merge(transfers[t], req[p].loaded[t], req[p].list[t])
  BY <1>1, <1>4 DEF Merge, TransferRow
<1>5. QED
  BY <1>2, <1>3, <1>4 DEF CreateFromDbSave, Rows

\* What was the row of a transfer is still of the same organization, wallet and
\* amount, or was edited, or a save has undone an edit; a row that was not there
\* is a copy or new.
LEMMA ValuesArise ==
  ASSUME TypeOK, TidsIssued, [Next]_vars, NEW t \in Tids, transfers'[t] # Absent
  PROVE  \/ /\ SameRow(t)
            /\ \/ transfers'[t].amount = transfers[t].amount
               \/ Editable /\ pc' = pc
               \/ \E p \in Procs : /\ CreateFromDbSave(p)
                                   /\ req[p].list[t] # Absent /\ req[p].loaded[t] # Absent
                                   /\ req[p].list[t].amount # req[p].loaded[t].amount
                                   /\ transfers'[t].amount = req[p].list[t].amount
         \/ /\ transfers[t] = Absent
            /\ \/ t \notin issued
               \/ \E p \in Procs : /\ CreateFromDbSave(p) /\ req[p].list[t] # Absent
                                   /\ transfers'[t] = req[p].list[t]
<1> DEFINE Kept == SameRow(t) /\ transfers'[t].amount = transfers[t].amount
<1>1. ASSUME transfers'[t] = transfers[t] PROVE Kept
  BY <1>1 DEF SameRow
<1>2. ASSUME NEW p \in Procs, AddHash(p) PROVE Kept
  <2>1. transfers[t] \in TransferRow /\ transfers[t] # Absent
    BY <1>2 DEF AddHash, TypeOK, Table
  <2>2. transfers'[t] = transfers[t] \/ transfers'[t] = [transfers[t] EXCEPT !.hash = req[p].hash]
    BY <1>2 DEF AddHash
  <2>3. QED
    BY <2>1, <2>2 DEF SameRow, TransferRow
<1>3. ASSUME NEW p \in Procs, EditTransfer(p) PROVE SameRow(t) /\ Editable /\ pc' = pc
  <2>1. transfers[t] # Absent
    BY <1>3 DEF EditTransfer, TypeOK, Table
  <2>2. QED
    BY <1>3, <2>1, EditedRow DEF SameRow
<1>4. ASSUME NEW p \in Procs, DeleteTransfer(p) \/ DeleteMultiple(p) \/ RemoveEmployeeTransfers(p)
      PROVE  transfers'[t] = transfers[t]
  BY <1>4 DEF TypeOK, Table, DeleteTransfer, DeleteMultiple, RemoveEmployeeTransfers
<1>5. ASSUME NEW p \in Procs, UploadTransfers(p)
      PROVE  transfers'[t] = transfers[t] \/ (transfers[t] = Absent /\ t \notin issued)
  BY <1>5, UploadedRows DEF TidsIssued
<1>6. ASSUME NEW p \in Procs,
             \/ DeleteMultipleFind(p) \/ CreateFromDbEmployees(p)
             \/ \E h \in Hashes : SaveTransactionCheck(p, h)
             \/ CreateEmployeeCheck(p) \/ EditEmployeeFind(p)
             \/ RemoveEmployeeFind(p) \/ AddWallet(p)
             \/ CreateFromDbPending(p) \/ CreateFromDbLoad(p)
             \/ UploadEmployee(p) \/ GetTransaction(p)
             \/ GetTransactionReceipt(p) \/ InsertPayment(p)
             \/ CreateEmployee(p) \/ EditEmployee(p) \/ RemoveEmployee(p)
             \/ Abort(p)
      PROVE  transfers' = transfers
  BY <1>6 DEF DeleteMultipleFind, CreateFromDbEmployees,
    SaveTransactionCheck, CreateEmployeeCheck, EditEmployeeFind,
    RemoveEmployeeFind, AddWallet, CreateFromDbPending, CreateFromDbLoad,
    UploadEmployee, GetTransaction, GetTransactionReceipt, InsertPayment,
    CreateEmployee, EditEmployee, RemoveEmployee, Abort, db
<1>7. CASE UNCHANGED <<db, pc, req, issued>>
  BY <1>1, <1>7 DEF db
<1>8. ASSUME NEW p \in Procs, CreateFromDbSave(p)
      PROVE  \/ Kept
             \/ /\ transfers[t] = Absent /\ req[p].list[t] # Absent
                /\ transfers'[t] = req[p].list[t]
             \/ /\ SameRow(t) /\ req[p].list[t] # Absent /\ req[p].loaded[t] # Absent
                /\ req[p].list[t].amount # req[p].loaded[t].amount
                /\ transfers'[t].amount = req[p].list[t].amount
  BY <1>1, <1>8, SavedRow DEF SameRow
<1> HIDE DEF Kept
<1>9. ASSUME NEW p \in Procs, Start(p) \/ Continue(p) \/ Abort(p), ~ CreateFromDbSave(p)
      PROVE  \/ Kept \/ (SameRow(t) /\ Editable /\ pc' = pc)
             \/ transfers[t] = Absent /\ t \notin issued
  BY <1>1, <1>2, <1>3, <1>4, <1>5, <1>6, <1>9 DEF Start, Continue
<1>10. QED
  BY <1>1, <1>7, <1>8, <1>9, WhoSteps DEF Kept

\* What a request that generates has in its list is what it had, or a row it has
\* just read, or new.
LEMMA CopiesArise ==
  ASSUME TypeOK, TidsIssued, [Next]_vars, NEW p \in Procs, pc'[p] \in Generating,
         NEW t \in Tids, req'[p].list[t] # Absent
  PROVE  \/ pc[p] \in Generating /\ req'[p].list[t] = req[p].list[t]
         \/ transfers' = transfers /\ transfers[t] # Absent /\ req'[p].list[t] = transfers[t]
         \/ /\ transfers' = transfers /\ transfers[t] = Absent
            /\ t \notin issued /\ CreateFromDbEmployees(p)
<1>1. CASE pc'[p] = pc[p] /\ req'[p] = req[p]
  BY <1>1
<1>2. CASE CreateFromDbEmployees(p)
  BY <1>2, GeneratedList DEF TidsIssued
<1>3. CASE CreateFromDbPending(p)
  BY <1>3, FilteredList DEF Generating, Pending, db
<1>4. CASE CreateFromDbLoad(p)
  BY <1>4, LoadedList DEF Generating
<1>5. QED
  BY <1>1, <1>2, <1>3, <1>4, GeneratesStill

\* No step makes two copies of a transfer disagree but an edit.
LEMMA CopiesAgreeNext == Ids /\ CopiesAgree /\ [Next]_vars => CopiesAgree'
<1> SUFFICES ASSUME Ids, CopiesAgree, [Next]_vars, NEW p \in Procs, pc'[p] \in Generating,
                    NEW t \in Tids, req'[p].list[t] # Absent
             PROVE  /\ transfers'[t] # Absent => Agree(req'[p].list[t], transfers'[t])
                    /\ pc'[p] = "db_write" /\ req'[p].loaded[t] # Absent
                         => Agree(req'[p].list[t], req'[p].loaded[t])
                    /\ \A q \in Procs : pc'[q] \in Generating /\ req'[q].list[t] # Absent
                         => Agree(req'[p].list[t], req'[q].list[t])
  BY DEF CopiesAgree, Agree, Editable
<1>0. TypeOK /\ TidsIssued
  BY DEF Ids
<1> DEFINE Had(q)  == pc[q] \in Generating /\ req[q].list[t] # Absent
                      /\ req'[q].list[t] = req[q].list[t]
           Read(q) == transfers' = transfers /\ transfers[t] # Absent
                      /\ req'[q].list[t] = transfers[t]
           New(q)  == /\ transfers' = transfers /\ transfers[t] = Absent
                      /\ t \notin issued /\ CreateFromDbEmployees(q)
<1>1. \A q \in Procs : pc'[q] \in Generating /\ req'[q].list[t] # Absent
                       => Had(q) \/ Read(q) \/ New(q)
  BY <1>0, CopiesArise
<1>2. transfers'[t] # Absent => Agree(req'[p].list[t], transfers'[t])
  <2> SUFFICES ASSUME transfers'[t] # Absent PROVE Agree(req'[p].list[t], transfers'[t])
    OBVIOUS
  <2>1. CASE Read(p)
    BY <2>1 DEF Agree
  <2>2. CASE Had(p)
    <3>1. \A q \in Procs : CreateFromDbSave(q) /\ req[q].list[t] # Absent
                           => Agree(req[p].list[t], req[q].list[t])
      BY <2>2 DEF CopiesAgree, CreateFromDbSave, Generating
    <3>2. transfers[t] # Absent => Agree(req[p].list[t], transfers[t])
      BY <2>2 DEF CopiesAgree
    <3>3. t \in issued
      BY <1>0, <2>2 DEF TidsIssued
    <3>4. QED
      BY <1>0, <2>2, <3>1, <3>2, <3>3, ValuesArise DEF Agree, SameRow
  <2>3. QED
    BY <1>1, <2>1, <2>2
<1>3. ASSUME pc'[p] = "db_write", req'[p].loaded[t] # Absent
      PROVE  Agree(req'[p].list[t], req'[p].loaded[t])
  <2>1. CASE pc'[p] = pc[p] /\ req'[p] = req[p]
    BY <1>3, <2>1 DEF CopiesAgree
  <2>2. CASE CreateFromDbLoad(p)
    <3>1. /\ req'[p].list = req[p].list /\ pc[p] \in Generating
          /\ req'[p].loaded[t] = transfers[t]
      BY <1>0, <1>3, <2>2, LoadedList DEF Generating
    <3>2. QED
      BY <1>3, <3>1 DEF CopiesAgree
  <2>3. QED
    BY <1>0, <1>3, <2>1, <2>2, GeneratesStill, GeneratedList, FilteredList
<1>4. ASSUME NEW q \in Procs, pc'[q] \in Generating, req'[q].list[t] # Absent
      PROVE  Agree(req'[p].list[t], req'[q].list[t])
  <2>1. CASE Had(p) /\ Had(q)
    BY <2>1 DEF CopiesAgree
  <2>2. CASE Read(p) /\ Read(q)
    BY <2>2 DEF Agree
  <2>3. CASE (Had(p) /\ Read(q)) \/ (Read(p) /\ Had(q))
    <3>1. CASE Had(p) /\ Read(q)
      BY <3>1 DEF CopiesAgree
    <3>2. CASE Read(p) /\ Had(q)
      BY <3>2 DEF CopiesAgree, Agree
    <3>3. QED
      BY <2>3, <3>1, <3>2
  <2>4. CASE New(p) /\ New(q)
    <3>1. p = q
      <4>1. SUFFICES ASSUME p # q PROVE FALSE
        OBVIOUS
      <4>2. pc'[q] = pc[q]
        BY <1>0, <2>4, <4>1, OneRequestMoves DEF Start
      <4>3. QED
        BY <1>0, <2>4, <4>2, GeneratedList
    <3>2. QED
      BY <3>1 DEF Agree
  <2>5. CASE (New(p) /\ ~ New(q)) \/ (~ New(p) /\ New(q))
    <3>1. t \notin issued
      BY <2>5
    <3>2. ~ Had(p) /\ ~ Had(q) /\ ~ Read(p) /\ ~ Read(q)
      BY <1>0, <3>1 DEF TidsIssued
    <3>3. QED
      BY <1>1, <1>4, <2>5, <3>2
  <2>6. (Had(p) \/ Read(p) \/ New(p)) /\ (Had(q) \/ Read(q) \/ New(q))
    BY <1>1, <1>4
  <2> HIDE DEF Had, Read, New
  <2>7. QED
    BY <2>1, <2>2, <2>3, <2>4, <2>5, <2>6
<1>5. QED
  BY <1>2, <1>3, <1>4

-----------------------------------------------------------------------------
(* One pending transfer.                                                   *)

\* What the only generator is about to write is for wallets without a pending
\* transfer, but for the rows that it is going to write back.
Lone(p) ==
  \A t \in Tids : req[p].list[t] # Absent =>
    /\ req[p].list[t].org = req[p].org
    /\ transfers[t] # Absent => /\ transfers[t].org = req[p].list[t].org
                               /\ transfers[t].wallet = req[p].list[t].wallet
    /\ \A u \in Tids : req[p].list[u] # Absent /\ req[p].list[u].wallet = req[p].list[t].wallet
                       => t = u
    /\ pc[p] = "db_pending" => transfers[t] = Absent
    /\ pc[p] # "db_pending" =>
         \A u \in Tids : Pending(u) /\ transfers[u].org = req[p].org
                         /\ transfers[u].wallet = req[p].list[t].wallet => t = u

OnePending ==
  SoleCreator => PendingUnique /\ \A p \in Procs : pc[p] \in Generating => Lone(p)

\* Without uploads only createFromDb makes anything pending.
LEMMA NothingNew ==
  ASSUME TypeOK, SoleCreator, [Next]_vars, ~ \E p \in Procs : CreateFromDbSave(p),
         NEW t \in Tids, transfers'[t] # Absent
  PROVE  SameRow(t) /\ (transfers'[t].hash = NoHash => transfers[t].hash = NoHash)
<1>1. ASSUME NEW p \in Procs PROVE ~ UploadTransfers(p)
  BY DEF UploadTransfers, Call, SoleCreator
<1>2. QED
  BY <1>1, TransfersArise

\* The save adds or revives no second one.
LEMMA SavedOnce ==
  ASSUME Ids, SoleCreator, PendingUnique, [Next]_vars,
         NEW p \in Procs, CreateFromDbSave(p), Lone(p)
  PROVE  PendingUnique'
<1>0. TypeOK /\ Called
  BY DEF Ids
<1>1. /\ pc[p] = "db_write" /\ pc[p] \in Generating
  BY DEF CreateFromDbSave, Generating
<1>2. ASSUME NEW q \in Procs, CreateFromDbSave(q) PROVE q = p
  <2>1. pc[q] \in Generating
    BY <1>2 DEF CreateFromDbSave, Generating
  <2>2. QED
    BY <1>0, <1>1, <2>1 DEF Called, SoleCreator
<1>3. ASSUME NEW q \in Procs PROVE ~ UploadTransfers(q)
  BY DEF UploadTransfers, Call, SoleCreator
<1>4. ASSUME NEW t \in Tids, transfers'[t] # Absent
      PROVE  /\ req[p].list[t] = Absent => transfers'[t] = transfers[t]
             /\ req[p].list[t] # Absent =>
                  /\ transfers'[t].org = req[p].org
                  /\ transfers'[t].wallet = req[p].list[t].wallet
  <2>1. req[p].list[t] = Absent => transfers'[t] = transfers[t]
    BY DEF CreateFromDbSave
  <2>2. SameRow(t) \/ transfers'[t] = req[p].list[t]
    BY <1>0, <1>2, <1>3, <1>4, TransfersArise
  <2>3. QED
    BY <2>1, <2>2 DEF Lone, SameRow
<1>5. SUFFICES ASSUME NEW t \in Tids, NEW u \in Tids,
                      transfers'[t] # Absent, transfers'[t].hash = NoHash,
                      transfers'[u] # Absent, transfers'[u].hash = NoHash,
                      transfers'[t].org = transfers'[u].org,
                      transfers'[t].wallet = transfers'[u].wallet
               PROVE  t = u
  BY DEF PendingUnique, Pending
<1>6. CASE req[p].list[t] # Absent /\ req[p].list[u] # Absent
  BY <1>4, <1>5, <1>6 DEF Lone
<1>7. CASE req[p].list[t] # Absent /\ req[p].list[u] = Absent
  BY <1>1, <1>4, <1>5, <1>7 DEF Lone, Pending
<1>8. CASE req[p].list[t] = Absent /\ req[p].list[u] # Absent
  BY <1>1, <1>4, <1>5, <1>8 DEF Lone, Pending
<1>9. CASE req[p].list[t] = Absent /\ req[p].list[u] = Absent
  BY <1>4, <1>5, <1>9 DEF PendingUnique, Pending
<1>10. QED
  BY <1>6, <1>7, <1>8, <1>9

\* The lists are what they are to be when they are made, and while they wait.
LEMMA LoneNext ==
  ASSUME Ids, SoleCreator, PendingUnique, [Next]_vars,
         NEW p \in Procs, pc'[p] \in Generating, pc[p] \in Generating => Lone(p)
  PROVE  Lone(p)'
<1>0. TypeOK /\ Called /\ TidsIssued /\ EmployeesUnique
  BY DEF Ids
<1>1. CASE pc'[p] = pc[p] /\ req'[p] = req[p]
  <2>1. ASSUME NEW q \in Procs PROVE ~ CreateFromDbSave(q)
    <3>1. SUFFICES ASSUME CreateFromDbSave(q) PROVE FALSE
      OBVIOUS
    <3>2. pc[q] \in Generating /\ pc[p] \in Generating /\ pc'[q] = "idle"
      BY <1>0, <1>1, <3>1 DEF CreateFromDbSave, Respond, Await, TypeOK, Generating
    <3>3. q = p
      BY <1>0, <3>2 DEF Called, SoleCreator
    <3>4. QED
      BY <1>1, <3>2, <3>3 DEF Generating
  <2>2. \A t \in Tids : transfers'[t] # Absent =>
          SameRow(t) /\ (transfers'[t].hash = NoHash => transfers[t].hash = NoHash)
    BY <1>0, <2>1, NothingNew
  <2>3. Lone(p)
    BY <1>1
  <2>4. QED
    BY <1>1, <2>2, <2>3 DEF Lone, SameRow, Pending
<1>2. CASE CreateFromDbEmployees(p)
  <2>1. /\ pc'[p] = "db_pending" /\ transfers' = transfers
        /\ \A t \in Tids : req'[p].list[t] # Absent =>
             /\ req'[p].list[t].org = req'[p].org
             /\ transfers[t] = Absent
    BY <1>0, <1>2, GeneratedList DEF TidsIssued
  <2>2. \A t, u \in Tids :
          (/\ req'[p].list[t] # Absent /\ req'[p].list[u] # Absent
           /\ req'[p].list[t].wallet = req'[p].list[u].wallet) => t = u
    BY <1>0, <1>2, GeneratedList
  <2>3. QED
    BY <2>1, <2>2 DEF Lone
<1>3. CASE CreateFromDbPending(p)
  <2>1. /\ pc[p] = "db_pending" /\ pc'[p] = "db_load" /\ transfers' = transfers
        /\ req'[p].org = req[p].org
    BY <1>0, <1>3, FilteredList DEF db
  <2>2. Lone(p)
    BY <2>1 DEF Generating
  <2> DEFINE A(t) == /\ req'[p].list[t] = req[p].list[t]
                     /\ \A u \in Tids : Pending(u) /\ transfers[u].org = req[p].org
                                        => transfers[u].wallet # req[p].list[t].wallet
             B(t) == /\ Pending(t) /\ transfers[t].org = req[p].org
                     /\ req'[p].list[t] = transfers[t]
  <2>3. \A t \in Tids : req'[p].list[t] # Absent => A(t) \/ B(t)
    BY <1>0, <1>3, FilteredList
  <2>4. ASSUME NEW t \in Tids, req'[p].list[t] # Absent
        PROVE  /\ req'[p].list[t].org = req[p].org
               /\ transfers[t] # Absent => /\ transfers[t].org = req'[p].list[t].org
                                          /\ transfers[t].wallet = req'[p].list[t].wallet
    BY <2>1, <2>2, <2>3, <2>4 DEF Lone
  <2>5. ASSUME NEW t \in Tids, NEW u \in Tids,
               req'[p].list[t] # Absent, req'[p].list[u] # Absent,
               req'[p].list[t].wallet = req'[p].list[u].wallet
        PROVE  t = u
    <3>1. CASE A(t) /\ A(u)
      BY <2>1, <2>2, <2>5, <3>1 DEF Lone
    <3>2. CASE B(t) /\ B(u)
      BY <2>5, <3>2 DEF PendingUnique
    <3>3. CASE (A(t) /\ B(u)) \/ (B(t) /\ A(u))
      BY <2>5, <3>3
    <3>4. QED
      BY <2>3, <2>5, <3>1, <3>2, <3>3
  <2>6. ASSUME NEW t \in Tids, NEW u \in Tids, req'[p].list[t] # Absent,
               Pending(u), transfers[u].org = req[p].org,
               transfers[u].wallet = req'[p].list[t].wallet
        PROVE  t = u
    <3>1. CASE A(t)
      BY <2>6, <3>1
    <3>2. CASE B(t)
      BY <2>6, <3>2 DEF PendingUnique
    <3>3. QED
      BY <2>3, <2>6, <3>1, <3>2
  <2>7. QED
    BY <2>1, <2>4, <2>5, <2>6 DEF Lone, Pending
<1>4. CASE CreateFromDbLoad(p)
  <2>1. /\ pc[p] = "db_load" /\ pc'[p] = "db_write" /\ transfers' = transfers
        /\ req'[p].org = req[p].org /\ req'[p].list = req[p].list
    BY <1>0, <1>4, LoadedList DEF db
  <2>2. Lone(p)
    BY <2>1 DEF Generating
  <2>3. QED
    BY <2>1, <2>2 DEF Lone, Pending
<1>5. QED
  BY <1>0, <1>1, <1>2, <1>3, <1>4, GeneratesStill

\* Only the generator's save makes anything pending, so both parts are kept.
LEMMA OnePendingNext == Ids /\ OnePending /\ [Next]_vars => OnePending'
<1> SUFFICES ASSUME Ids, OnePending, [Next]_vars, SoleCreator
             PROVE  PendingUnique' /\ \A p \in Procs : pc'[p] \in Generating => Lone(p)'
  BY DEF OnePending, SoleCreator
<1>1. PendingUnique /\ \A p \in Procs : pc[p] \in Generating => Lone(p)
  BY DEF OnePending
<1>2. PendingUnique'
  <2>1. CASE \E p \in Procs : CreateFromDbSave(p)
    <3>1. PICK p \in Procs : CreateFromDbSave(p)
      BY <2>1
    <3>2. Lone(p)
      BY <1>1, <3>1 DEF CreateFromDbSave, Generating
    <3>3. QED
      BY <1>1, <3>1, <3>2, SavedOnce
  <2>2. CASE ~ \E p \in Procs : CreateFromDbSave(p)
    <3>1. \A t \in Tids : transfers'[t] # Absent =>
            SameRow(t) /\ (transfers'[t].hash = NoHash => transfers[t].hash = NoHash)
      BY <2>2, NothingNew DEF Ids
    <3>2. QED
      BY <1>1, <3>1 DEF PendingUnique, Pending, SameRow
  <2>3. QED
    BY <2>1, <2>2
<1>3. ASSUME NEW p \in Procs, pc'[p] \in Generating PROVE Lone(p)'
  BY <1>1, <1>3, LoneNext
<1>4. QED
  BY <1>2, <1>3

-----------------------------------------------------------------------------
(* Pending transfers of employees.                                         *)

Backed(o, w) == \/ Employed(o, w)
                \/ \E p \in Procs : pc[p] = "up_employee" /\ req[p].org = o /\ w \in req[p].wallets

AllBacked ==
  NobodyLeaves =>
    /\ \A t \in Tids : transfers[t] # Absent => Backed(transfers[t].org, transfers[t].wallet)
    /\ \A p \in Procs : pc[p] \in Generating =>
         \A t \in Tids : req[p].list[t] # Absent =>
           Backed(req[p].list[t].org, req[p].list[t].wallet)

\* Who is employed stays, and so does who is about to be.
LEMMA BackedStays ==
  ASSUME Ids, NobodyLeaves, [Next]_vars, NEW o, NEW w, Backed(o, w)
  PROVE  Backed(o, w)'
<1>0. TypeOK /\ Called /\ EidsIssued /\ Absent \notin EmployeeRow
  BY ConstantsAssumption DEF Ids
<1>1. ASSUME NEW p \in Procs PROVE ~ EditEmployee(p) /\ ~ RemoveEmployee(p)
  BY <1>0 DEF Called, NobodyLeaves, EditEmployee, RemoveEmployee
<1>2. ASSUME NEW e \in Eids, employees[e] # Absent PROVE employees'[e] = employees[e]
  <2>1. CASE employees' = employees
    BY <2>1
  <2>2. ASSUME NEW p \in Procs, UploadEmployee(p) \/ CreateEmployee(p)
        PROVE  employees'[e] = employees[e]
    <3>1. PICK f \in req[p].eids, v \in Wallets :
            pc[p] \in Hiring /\ f \in Eids /\ InsertEmployee(f, req[p].org, v)
      BY <1>0, <2>2, Hires
    <3>2. f # e
      BY <1>0, <1>2, <3>1 DEF EidsIssued
    <3>3. QED
      BY <1>0, <3>1, <3>2 DEF InsertEmployee, TypeOK
  <2>3. QED
    BY <1>1, <2>1, <2>2, EmployeesStill
<1>3. CASE Employed(o, w)
  BY <1>2, <1>3 DEF Employed, Backed
<1>4. ASSUME NEW p \in Procs, pc[p] = "up_employee", req[p].org = o, w \in req[p].wallets
      PROVE  Backed(o, w)'
  <2>1. CASE pc'[p] = pc[p] /\ req'[p] = req[p]
    BY <1>4, <2>1 DEF Backed
  <2>2. ASSUME UploadEmployee(p) PROVE Backed(o, w)'
    <3>1. PICK e \in req[p].eids, v \in Wallets :
            /\ e \in Eids /\ InsertEmployee(e, o, v)
            /\ \/ req[p].wallets = {v}
               \/ /\ pc'[p] = "up_employee"
                  /\ req'[p].wallets = req[p].wallets \ {v}
                  /\ req'[p].org = req[p].org
      BY <1>0, <1>4, <2>2, Hires
    <3>2. CASE v = w
      <4>1. [org |-> o, wallet |-> w] \in EmployeeRow
        BY <1>0, <1>4, <3>1, <3>2 DEF TypeOK, LocalsSet, EmployeeRow
      <4>2. CASE Employed(o, w)
        BY <1>3, <4>2
      <4>3. CASE ~ Employed(o, w)
        <5>1. employees'[e] = [org |-> o, wallet |-> w] /\ employees'[e] # Absent
          BY <1>0, <3>1, <3>2, <4>1, <4>3 DEF InsertEmployee, TypeOK
        <5>2. QED
          BY <3>1, <5>1 DEF Backed, Employed
      <4>4. QED
        BY <4>2, <4>3
    <3>3. CASE v # w
      BY <1>4, <3>1, <3>3 DEF Backed
    <3>4. QED
      BY <3>2, <3>3
  <2>3. ASSUME Start(p) \/ Continue(p) \/ Abort(p) PROVE UploadEmployee(p)
    <3>1. ~ Abort(p)
      BY <1>0, ConstantsAssumption DEF Abort, TypeOK, NobodyLeaves
    <3>2. ~ Start(p)
      BY <1>4 DEF Start, Call, EditTransfer, DeleteTransfer, DeleteMultipleFind,
        CreateFromDbEmployees, UploadTransfers, SaveTransactionCheck,
        CreateEmployeeCheck, EditEmployeeFind, RemoveEmployeeFind, AddWallet
    <3>3. QED
      BY <1>4, <2>3, <3>1, <3>2 DEF Continue, DeleteMultiple, CreateFromDbPending,
        CreateFromDbLoad, CreateFromDbSave, GetTransaction, GetTransactionReceipt,
        AddHash, InsertPayment, CreateEmployee, EditEmployee,
        RemoveEmployeeTransfers, RemoveEmployee
  <2>4. QED
    BY <1>0, <2>1, <2>2, <2>3, WhoSteps, OneRequestMoves
<1>5. QED
  BY <1>3, <1>4 DEF Backed

\* New transfers are those of employees, or come with the upload of one.
LEMMA AllBackedNext == Ids /\ AllBacked /\ [Next]_vars => AllBacked'
<1> SUFFICES ASSUME Ids, AllBacked, [Next]_vars, NobodyLeaves
             PROVE  /\ \A t \in Tids : transfers'[t] # Absent =>
                         Backed(transfers[t].org, transfers[t].wallet)'
                    /\ \A p \in Procs : pc'[p] \in Generating =>
                         \A t \in Tids : req'[p].list[t] # Absent =>
                           Backed(req[p].list[t].org, req[p].list[t].wallet)'
  BY DEF AllBacked, NobodyLeaves
<1>0. TypeOK
  BY DEF Ids
<1>1. /\ \A t \in Tids : transfers[t] # Absent => Backed(transfers[t].org, transfers[t].wallet)
      /\ \A p \in Procs : pc[p] \in Generating =>
           \A t \in Tids : req[p].list[t] # Absent =>
             Backed(req[p].list[t].org, req[p].list[t].wallet)
  BY DEF AllBacked
<1>2. ASSUME NEW t \in Tids, transfers'[t] # Absent, NEW o, NEW w,
             o = transfers'[t].org, w = transfers'[t].wallet
      PROVE  Backed(o, w)'
  <2>1. CASE SameRow(t)
    <3>1. Backed(o, w)
      BY <1>1, <1>2, <2>1 DEF SameRow
    <3>2. QED
      BY <3>1, BackedStays
  <2>2. ASSUME NEW p \in Procs, CreateFromDbSave(p), req[p].list[t] # Absent,
               transfers'[t] = req[p].list[t]
        PROVE  Backed(o, w)'
    <3>1. Backed(o, w)
      BY <1>1, <1>2, <2>2 DEF CreateFromDbSave, Generating
    <3>2. QED
      BY <3>1, BackedStays
  <2>3. ASSUME NEW p \in Procs, UploadTransfers(p), transfers'[t].org = req'[p].org,
               transfers'[t].wallet \in req'[p].wallets
        PROVE  Backed(o, w)'
    BY <1>0, <1>2, <2>3, UploadedRows DEF Backed
  <2>4. QED
    BY <1>0, <1>2, <2>1, <2>2, <2>3, TransfersArise
<1>3. ASSUME NEW p \in Procs, pc'[p] \in Generating, NEW t \in Tids, req'[p].list[t] # Absent,
             NEW o, NEW w, o = req'[p].list[t].org, w = req'[p].list[t].wallet
      PROVE  Backed(o, w)'
  <2>1. CASE CreateFromDbEmployees(p)
    <3>1. PICK e \in Eids : /\ employees[e] # Absent /\ employees[e].org = o
                           /\ employees[e].wallet = w
      BY <1>0, <1>3, <2>1, GeneratedList
    <3>2. employees[e] \in EmployeeRow /\ employees' = employees
      BY <1>0, <2>1, <3>1, GeneratedList DEF TypeOK
    <3>3. employees[e] = [org |-> o, wallet |-> w]
      BY <3>1, <3>2 DEF EmployeeRow
    <3>4. QED
      BY <3>1, <3>2, <3>3 DEF Backed, Employed
  <2>2. CASE ~ CreateFromDbEmployees(p)
    <3>1. \/ pc[p] \in Generating /\ req'[p].list[t] = req[p].list[t]
          \/ transfers[t] # Absent /\ req'[p].list[t] = transfers[t]
      BY <1>0, <1>3, <2>2, GeneratesStill, FilteredList, LoadedList DEF Generating, Pending
    <3>2. Backed(o, w)
      BY <1>1, <1>3, <3>1
    <3>3. QED
      BY <3>2, BackedStays
  <2>3. QED
    BY <2>1, <2>2
<1>4. QED
  BY <1>2, <1>3 DEF Backed, Employed

-----------------------------------------------------------------------------
\* Both hold at first.
LEMMA PendingInit == Init => OnePending /\ AllBacked /\ CopiesAgree
BY DEF Init, OnePending, AllBacked, CopiesAgree, PendingUnique, Pending, Generating, Empty

\* A completed transfer goes only with a delete or with what createFromDb has read
\* of it before; the removal of its employee leaves it.
THEOREM CompletedStay == Spec => CompletedFate
<1>1. Ids /\ [Next]_vars => [\A t \in Tids : Completed(t) /\ ~ Completed(t)' =>
                             Deletable \/ StaleSave(t)]_vars
  BY Fate
<1>2. QED
  BY <1>1, IdsHold, PTL DEF Spec, CompletedFate

\* A transfer never changes hands, and its amount only by an edit, or by the save
\* of a createFromDb that read the row before an edit and reloaded it after; where
\* nobody may edit, an amount stays what it was.
THEOREM EditsStand == Spec => ValueFate
<1>1. ASSUME Ids, CopiesAgree, [Next]_vars, NEW t \in Tids,
             transfers[t] # Absent, transfers'[t] # Absent
      PROVE  /\ transfers'[t].org = transfers[t].org
             /\ transfers'[t].wallet = transfers[t].wallet
             /\ \/ transfers'[t].amount = transfers[t].amount
                \/ Editable /\ (pc' = pc \/ UndoesEdit(t))
  <2>0. TypeOK /\ TidsIssued
    BY <1>1 DEF Ids
  <2>1. ASSUME NEW p \in Procs, CreateFromDbSave(p),
               req[p].list[t] # Absent, req[p].loaded[t] # Absent,
               req[p].list[t].amount # req[p].loaded[t].amount,
               transfers'[t].amount = req[p].list[t].amount
        PROVE  Editable /\ UndoesEdit(t)
    <3>1. pc[p] = "db_write" /\ pc'[p] = "idle"
      BY <2>0, <2>1 DEF CreateFromDbSave, Respond, Await, TypeOK
    <3>2. Agree(req[p].list[t], req[p].loaded[t])
      BY <1>1, <2>1, <3>1 DEF CopiesAgree, Generating
    <3>3. QED
      BY <2>1, <3>1, <3>2 DEF Agree, UndoesEdit
  <2>2. QED
    BY <1>1, <2>0, <2>1, ValuesArise DEF SameRow
<1>2. Ids /\ CopiesAgree /\ [Next]_vars =>
        [\A t \in Tids : transfers[t] # Absent /\ transfers'[t] # Absent =>
           /\ transfers'[t].org = transfers[t].org
           /\ transfers'[t].wallet = transfers[t].wallet
           /\ \/ transfers'[t].amount = transfers[t].amount
              \/ Editable /\ (pc' = pc \/ UndoesEdit(t))]_vars
  BY <1>1
<1>3. Init => CopiesAgree
  BY PendingInit
<1>4. QED
  BY <1>2, <1>3, CopiesAgreeNext, IdsHold, PTL DEF Spec, ValueFate

\* One generator makes at most one pending transfer of a wallet, whatever
\* interleaves with its awaits.
THEOREM PendingOnce == Spec => []PendingUnique
<1>1. OnePending => PendingUnique
  BY DEF OnePending, PendingUnique
<1>2. QED
  BY <1>1, PendingInit, OnePendingNext, IdsHold, PTL DEF Spec

\* While nobody leaves, every pending transfer is one of an employee.
THEOREM PendingIsBacked == Spec => []PendingBacked
<1>1. AllBacked => PendingBacked
  BY DEF AllBacked, PendingBacked, Backed, Pending
<1>2. QED
  BY <1>1, PendingInit, AllBackedNext, IdsHold, PTL DEF Spec

=============================================================================

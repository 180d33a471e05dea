------------------------------- MODULE Payroll -------------------------------
(***************************************************************************)
(* The payroll core of the CoinSender backend: the tables transfers,       *)
(* employee, payment and organization.wallet_id, the blockchain the        *)
(* payments are made on, and the HTTP requests that read and write them.   *)
(*                                                                         *)
(* A request is a process.  It runs to its next `await' without being      *)
(* interrupted (Node.js has one thread) and every awaited database or RPC  *)
(* call is one atomic step, so an action below is one such call together   *)
(* with the synchronous code that follows it.  Between two steps of a      *)
(* request any other request may take steps.                               *)
(***************************************************************************)
EXTENDS Naturals, FiniteSets

CONSTANTS
  Procs,      \* the requests that can be in flight at the same time
  Orgs,       \* organization_id values
  Wallets,    \* wallets of employees
  Payers,     \* wallets organizations pay from
  Tids,       \* transfer ids; bounds the transfers ever created
  Eids,       \* employee ids; bounds the employees ever created
  Pids,       \* payment ids; enough of them for one payment per transaction
  Hashes,     \* transaction hashes
  Amounts,    \* amounts of a transfer
  Sender,     \* Sender[h] is the wallet that signed transaction h
  Slots,      \* Slots[p] is the set of endpoints that request p may call
  MaxAborts,  \* bounds the requests that die half way
  Absent,     \* no such row
  NoHash,     \* SQL NULL in transfers.hash
  NoWallet    \* SQL NULL in organization.wallet_id

TransferRow == [org : Orgs, wallet : Wallets, amount : Amounts,
                hash : Hashes \cup {NoHash}]
EmployeeRow == [org : Orgs, wallet : Wallets]
PaymentRow  == [id : Pids, hash : Hashes, from : Payers, status : BOOLEAN]

Endpoints == {"createFromDb", "upload", "savetransaction", "editTransfer",
              "deleteTransfer", "deleteMultiple", "createEmployee",
              "editEmployee", "removeEmployee", "addWallet"}

ASSUME ConstantsAssumption ==
  /\ Sender \in [Hashes -> Payers]
  /\ Slots \in [Procs -> SUBSET Endpoints]
  /\ 1 \in Amounts
  /\ MaxAborts \in Nat
  /\ NoHash \notin Hashes
  /\ NoWallet \notin Payers
  /\ Absent \notin TransferRow
  /\ Absent \notin EmployeeRow

VARIABLES
  transfers,  \* table transfers: transfer id -> row
  employees,  \* table employee: employee id -> row
  payments,   \* table payment: a set of rows
  orgWallet,  \* organization.wallet_id
  chain,      \* what the blockchain node says of a transaction
  pc,         \* the await at which a request is suspended
  req,        \* the local variables of a request
  issued,     \* history: ids ever handed out (nanoid and SERIAL never repeat)
  brought,    \* history: transfers whose hash is the one that a sheet brought
  stranded,   \* history: hashes whose payment row was given up after addHash
  aborts      \* number of requests that died half way

db   == <<transfers, employees, payments, orgWallet>>
vars == <<transfers, employees, payments, orgWallet, chain, pc, req,
          issued, brought, stranded, aborts>>

-----------------------------------------------------------------------------
(* Tables and the local state of a request.                                *)

Table == [Tids -> TransferRow \cup {Absent}]
Empty == [t \in Tids |-> Absent]
Rows(table) == {t \in Tids : table[t] # Absent}

Labels == {"idle", "db_pending", "db_load", "db_write", "up_employee",
           "st_transaction", "st_receipt", "st_mark", "st_insert",
           "del_many", "em_insert", "em_update", "rm_transfers", "rm_row"}

Request == [org : Orgs \cup {Absent}, wallet : Wallets \cup {Absent},
            hash : Hashes \cup {NoHash}, tids : SUBSET Tids,
            eids : SUBSET Eids, wallets : SUBSET Wallets,
            list : Table, loaded : Table]

NoRequest == [org |-> Absent, wallet |-> Absent, hash |-> NoHash,
              tids |-> {}, eids |-> {}, wallets |-> {},
              list |-> Empty, loaded |-> Empty]

Call(p, endpoint) == pc[p] = "idle" /\ endpoint \in Slots[p]

Await(p, label, r) == /\ pc'  = [pc EXCEPT ![p] = label]
                      /\ req' = [req EXCEPT ![p] = r]

Respond(p) == Await(p, "idle", NoRequest)

Pending(t)   == transfers[t] # Absent /\ transfers[t].hash = NoHash
Completed(t) == transfers[t] # Absent /\ transfers[t].hash # NoHash

Employed(o, w) == \E e \in Eids : /\ employees[e] # Absent
                                  /\ employees[e] = [org |-> o, wallet |-> w]
Recorded(h)    == \E r \in payments : r.hash = h
Mined(h)       == chain[h] \in {"success", "reverted"}
Registered(a)  == \E o \in Orgs : orgWallet[o] = a

\* Ids nobody has used: nanoid for transfers, a SERIAL key for employees (one
\* is drawn for a refused INSERT too).  A request that will insert employees
\* reserves their ids when it starts: all that matters is that they are new.
FreshTids == Tids \ issued
FreshEids == Eids \ issued
FreshPids == Pids \ {r.id : r \in payments}
Injections(S, T) == {f \in [S -> T] : \A x, y \in S : f[x] = f[y] => x = y}

\* The new transfers of organization o made from the items in S.
NewTransfers(o, S, id, wallet, amount, hash) ==
  [t \in Tids |->
     IF \E x \in S : id[x] = t
     THEN LET x == CHOOSE x \in S : id[x] = t
          IN [org |-> o, wallet |-> wallet[x], amount |-> amount[x],
              hash |-> hash[x]]
     ELSE Absent]

-----------------------------------------------------------------------------
(* Edit, delete and delete-multiple of transfers.                          *)

\* TransfersService.update: by transfer_id and organization, paid or not.
EditTransfer(p) ==
  /\ Call(p, "editTransfer")
  /\ \E t \in Tids, a \in Amounts, o \in Orgs :
       /\ transfers[t] # Absent
       /\ transfers[t].org = o
       /\ transfers' = [transfers EXCEPT ![t].amount = a]
  /\ UNCHANGED <<employees, payments, orgWallet, chain, pc, req, issued,
                 brought, stranded, aborts>>

\* TransfersService.delete: by transfer_id alone.
DeleteTransfer(p) ==
  /\ Call(p, "deleteTransfer")
  /\ \E t \in Tids : transfers' = [transfers EXCEPT ![t] = Absent]
  /\ UNCHANGED <<employees, payments, orgWallet, chain, pc, req, issued,
                 brought, stranded, aborts>>

\* deleteMultipleTransfers: findByIds; 404 when it finds nothing.
DeleteMultipleFind(p) ==
  /\ Call(p, "deleteMultiple")
  /\ \E ts \in SUBSET Tids :
       /\ \E t \in ts : transfers[t] # Absent
       /\ Await(p, "del_many", [NoRequest EXCEPT !.tids = ts])
  /\ UNCHANGED <<db, chain, issued, brought, stranded, aborts>>

\* ... then one DELETE of every id that was asked for.
DeleteMultiple(p) ==
  /\ pc[p] = "del_many"
  /\ transfers' = [t \in Tids |-> IF t \in req[p].tids THEN Absent
                                                       ELSE transfers[t]]
  /\ Respond(p)
  /\ UNCHANGED <<employees, payments, orgWallet, chain, issued, brought,
                 stranded, aborts>>

-----------------------------------------------------------------------------
(* POST transfers/create: a pending transfer for every employee.           *)

\* getAllEmployees, then a new transfer of amount 1 for each employee.
CreateFromDbEmployees(p) ==
  /\ Call(p, "createFromDb")
  /\ \E o \in Orgs :
       LET es == {e \in Eids : employees[e] # Absent /\ employees[e].org = o}
       IN \E id \in Injections(es, FreshTids) :
            LET new == NewTransfers(o, es, id, [e \in es |-> employees[e].wallet],
                                    [e \in es |-> 1], [e \in es |-> NoHash])
            IN /\ Await(p, "db_pending",
                        [NoRequest EXCEPT !.org = o, !.list = new])
               /\ issued' = issued \cup {id[e] : e \in es}
  /\ UNCHANGED <<db, chain, brought, stranded, aborts>>

\* Mutant: the second filter is forgotten, every new transfer is kept.
RemoveExistingObjectsByWalletId_OneFilter(arr1, arr2) ==
  [t \in Tids |->
     IF /\ arr1[t] # Absent
        /\ \A u \in Rows(arr2) : arr2[u].wallet # arr1[t].wallet
     THEN arr1[t] ELSE arr2[t]]

\* helpers removeExistingObjectsByWalletId: what is in one list and whose
\* wallet is not in the other, from both lists.
RemoveExistingObjectsByWalletId(arr1, arr2) ==
  LET Alone(t, own, other) ==
        own[t] # Absent /\ \A u \in Rows(other) : other[u].wallet # own[t].wallet
  IN [t \in Tids |-> IF Alone(t, arr1, arr2) THEN arr1[t]
                     ELSE IF Alone(t, arr2, arr1) THEN arr2[t]
                     ELSE Absent]

\* find the organization's pending transfers and filter.
CreateFromDbPending(p) ==
  /\ pc[p] = "db_pending"
  /\ LET existed == [t \in Tids |->
           IF Pending(t) /\ transfers[t].org = req[p].org THEN transfers[t]
                                                          ELSE Absent]
     IN Await(p, "db_load", [req[p] EXCEPT
          !.list = RemoveExistingObjectsByWalletId(existed, req[p].list)])
  /\ UNCHANGED <<db, chain, issued, brought, stranded, aborts>>

\* Repository.save, first half: TypeORM reloads the rows it was given by id.
CreateFromDbLoad(p) ==
  /\ pc[p] = "db_load"
  /\ Await(p, "db_write", [req[p] EXCEPT
       !.loaded = [t \in Tids |-> IF req[p].list[t] # Absent
                                  THEN transfers[t] ELSE Absent]])
  /\ UNCHANGED <<db, chain, issued, brought, stranded, aborts>>

\* Mutant: UPDATE of every column, whether or not the entity differs.
Merge_AllColumns(row, loaded, entity) ==
  [row EXCEPT !.amount = entity.amount, !.hash = entity.hash]

\* UPDATE of the columns in which the entity differs from the loaded row.
Merge(row, loaded, entity) ==
  [row EXCEPT
     !.amount = IF entity.amount # loaded.amount THEN entity.amount ELSE @,
     !.hash   = IF entity.hash   # loaded.hash   THEN entity.hash   ELSE @]

\* Repository.save, second half, in one database transaction: a row that was
\* not loaded is inserted (the save fails as a whole when its id is taken),
\* a loaded one is updated where it still exists.
CreateFromDbSave(p) ==
  /\ pc[p] = "db_write"
  /\ LET list   == req[p].list
         loaded == req[p].loaded
         taken  == \E t \in Rows(list) :
                     loaded[t] = Absent /\ transfers[t] # Absent
     IN transfers' =
          [t \in Tids |->
             IF taken \/ list[t] = Absent THEN transfers[t]
             ELSE IF loaded[t] = Absent THEN list[t]
             ELSE IF transfers[t] = Absent THEN Absent
             ELSE Merge(transfers[t], loaded[t], list[t])]
  /\ Respond(p)
  /\ UNCHANGED <<employees, payments, orgWallet, chain, issued, brought,
                 stranded, aborts>>

-----------------------------------------------------------------------------
(* POST employee/upload: transfers and employees from a spreadsheet.       *)

\* The unique index (wallet_id, organization_id) refuses a second row.
InsertEmployee(e, o, w) ==
  employees' = IF Employed(o, w) THEN employees
               ELSE [employees EXCEPT ![e] = [org |-> o, wallet |-> w]]

\* The file is valid (no wallet twice); one INSERT of all its transfers,
\* whether or not some of the wallets have a pending one already.  Each row of
\* the sheet is spread into the new row, so a column `hash' is stored as it is,
\* whatever transaction it names, if any; an empty cell is NULL.
InsertFile(p, o, ws, es, id, amount, hash) ==
  /\ Cardinality(es) = Cardinality(ws)
  /\ LET new == NewTransfers(o, ws, id, [w \in ws |-> w], amount, hash)
     IN transfers' = [t \in Tids |-> IF new[t] # Absent THEN new[t]
                                                       ELSE transfers[t]]
  /\ issued' = issued \cup {id[w] : w \in ws} \cup es
  /\ brought' = brought \cup {id[w] : w \in {v \in ws : hash[v] # NoHash}}
  /\ Await(p, "up_employee",
           [NoRequest EXCEPT !.org = o, !.wallets = ws, !.eids = es])

UploadTransfers(p) ==
  /\ Call(p, "upload")
  /\ \E o \in Orgs, ws \in (SUBSET Wallets) \ {{}}, es \in SUBSET FreshEids :
       \E id \in Injections(ws, FreshTids), amount \in [ws -> Amounts],
          hash \in [ws -> Hashes \cup {NoHash}] :
         InsertFile(p, o, ws, es, id, amount, hash)
  /\ UNCHANGED <<employees, payments, orgWallet, chain, stranded, aborts>>

\* Mutant: without orIgnore, an existing employee ends the upload.
UploadEmployee_Conflict(p) ==
  /\ pc[p] = "up_employee"
  /\ \E w \in req[p].wallets, e \in req[p].eids :
       /\ InsertEmployee(e, req[p].org, w)
       /\ IF req[p].wallets = {w} \/ Employed(req[p].org, w) THEN Respond(p)
          ELSE Await(p, "up_employee",
                     [req[p] EXCEPT !.wallets = @ \ {w}, !.eids = @ \ {e}])
  /\ UNCHANGED <<transfers, payments, orgWallet, chain, issued, brought,
                 stranded, aborts>>

\* One INSERT ... ON CONFLICT DO NOTHING per row of the file.
UploadEmployee(p) ==
  /\ pc[p] = "up_employee"
  /\ \E w \in req[p].wallets, e \in req[p].eids :
       /\ InsertEmployee(e, req[p].org, w)
       /\ IF req[p].wallets = {w} THEN Respond(p)
          ELSE Await(p, "up_employee",
                     [req[p] EXCEPT !.wallets = @ \ {w}, !.eids = @ \ {e}])
  /\ UNCHANGED <<transfers, payments, orgWallet, chain, issued, brought,
                 stranded, aborts>>

-----------------------------------------------------------------------------
(* POST payment/savetransaction: transfers were paid by transaction h.     *)

\* Mutant: a hash that is on a transfer counts as added already.
SaveTransactionCheck_ByTransfer(p, h) ==
  /\ Call(p, "savetransaction")
  /\ IF Recorded(h) \/ \E t \in Tids : Completed(t) /\ transfers[t].hash = h
     THEN UNCHANGED <<pc, req>>
     ELSE \E ts \in SUBSET Tids :
            Await(p, "st_transaction",
                  [NoRequest EXCEPT !.hash = h, !.tids = ts])
  /\ UNCHANGED <<db, chain, issued, brought, stranded, aborts>>

\* Mutant: the found payment is not looked at.
SaveTransactionCheck_Unchecked(p, h) ==
  /\ Call(p, "savetransaction")
  /\ \E ts \in SUBSET Tids :
       Await(p, "st_transaction", [NoRequest EXCEPT !.hash = h, !.tids = ts])
  /\ UNCHANGED <<db, chain, issued, brought, stranded, aborts>>

\* findByHashId; refused, 'You have already added transaction', when it finds
\* a payment.
SaveTransactionCheck(p, h) ==
  /\ Call(p, "savetransaction")
  /\ IF Recorded(h) THEN UNCHANGED <<pc, req>>
     ELSE \E ts \in SUBSET Tids :
            Await(p, "st_transaction",
                  [NoRequest EXCEPT !.hash = h, !.tids = ts])
  /\ UNCHANGED <<db, chain, issued, brought, stranded, aborts>>

\* getTransaction answers null for an unknown hash: its use throws, at the
\* latest after the next call, and nothing has been written by then.
GetTransaction(p) ==
  /\ pc[p] = "st_transaction"
  /\ IF chain[req[p].hash] = "unknown" THEN Respond(p)
                                       ELSE Await(p, "st_receipt", req[p])
  /\ UNCHANGED <<db, chain, issued, brought, stranded, aborts>>

\* Mutant: the missing receipt is not noticed before addHash.
GetTransactionReceipt_Late(p) ==
  /\ pc[p] = "st_receipt"
  /\ Await(p, "st_mark", req[p])
  /\ UNCHANGED <<db, chain, issued, brought, stranded, aborts>>

\* getTransactionReceipt answers null until the transaction is mined.
GetTransactionReceipt(p) ==
  /\ pc[p] = "st_receipt"
  /\ IF Mined(req[p].hash) THEN Await(p, "st_mark", req[p]) ELSE Respond(p)
  /\ UNCHANGED <<db, chain, issued, brought, stranded, aborts>>

\* Mutant: the transfers of a reverted transaction are marked, its payment is
\* not inserted.
AddHash_RevertedSkipped(p) ==
  /\ pc[p] = "st_mark"
  /\ transfers' = [t \in Tids |->
       IF t \in req[p].tids /\ transfers[t] # Absent
       THEN [transfers[t] EXCEPT !.hash = req[p].hash] ELSE transfers[t]]
  /\ IF chain[req[p].hash] = "reverted" THEN Respond(p)
                                         ELSE Await(p, "st_insert", req[p])
  /\ brought' = brought \ req[p].tids
  /\ UNCHANGED <<employees, payments, orgWallet, chain, issued, stranded,
                 aborts>>

\* TransfersService.addHash: one UPDATE over the ids that were sent.
AddHash(p) ==
  /\ pc[p] = "st_mark"
  /\ transfers' = [t \in Tids |->
       IF t \in req[p].tids /\ transfers[t] # Absent
       THEN [transfers[t] EXCEPT !.hash = req[p].hash] ELSE transfers[t]]
  /\ Await(p, "st_insert", req[p])
  /\ brought' = brought \ req[p].tids
  /\ UNCHANGED <<employees, payments, orgWallet, chain, issued, stranded,
                 aborts>>

\* Mutant: payment.hash is not unique.
InsertPayment_Twice(p) ==
  /\ pc[p] = "st_insert"
  /\ LET h == req[p].hash
     IN IF Registered(Sender[h])
        THEN /\ \E n \in FreshPids :
                  payments' = payments \cup
                    {[id |-> n, hash |-> h, from |-> Sender[h],
                      status |-> chain[h] = "success"]}
             /\ UNCHANGED stranded
        ELSE stranded' = stranded \cup {h} /\ UNCHANGED payments
  /\ Respond(p)
  /\ UNCHANGED <<transfers, employees, orgWallet, chain, issued, brought,
                 aborts>>

\* INSERT of the payment: refused when the payer is nobody's wallet (foreign
\* key) or the hash is there already (unique); the transfers stay marked.
InsertPayment(p) ==
  /\ pc[p] = "st_insert"
  /\ LET h == req[p].hash
     IN IF Registered(Sender[h]) /\ ~ Recorded(h)
        THEN /\ \E n \in FreshPids :
                  payments' = payments \cup
                    {[id |-> n, hash |-> h, from |-> Sender[h],
                      status |-> chain[h] = "success"]}
             /\ UNCHANGED stranded
        ELSE stranded' = stranded \cup {h} /\ UNCHANGED payments
  /\ Respond(p)
  /\ UNCHANGED <<transfers, employees, orgWallet, chain, issued, brought,
                 aborts>>

-----------------------------------------------------------------------------
(* Employees.                                                              *)

\* EmployeeController.create: findOne by wallet and organization ...
CreateEmployeeCheck(p) ==
  /\ Call(p, "createEmployee")
  /\ \E o \in Orgs, w \in Wallets, e \in FreshEids :
       /\ ~ Employed(o, w)
       /\ issued' = issued \cup {e}
       /\ Await(p, "em_insert", [NoRequest EXCEPT !.org = o, !.wallet = w,
                                                  !.eids = {e}])
  /\ UNCHANGED <<db, chain, brought, stranded, aborts>>

\* ... then INSERT, refused by the unique index when someone was faster.
CreateEmployee(p) ==
  /\ pc[p] = "em_insert"
  /\ \E e \in req[p].eids : InsertEmployee(e, req[p].org, req[p].wallet)
  /\ Respond(p)
  /\ UNCHANGED <<transfers, payments, orgWallet, chain, issued, brought,
                 stranded, aborts>>

\* Mutant: the new wallet is not taken over from the body.
EditEmployeeFind_NoWallet(p) ==
  /\ Call(p, "editEmployee")
  /\ \E e \in Eids, o \in Orgs :
       /\ employees[e] # Absent
       /\ employees[e].org = o
       /\ Await(p, "em_update", [NoRequest EXCEPT !.eids = {e}])
  /\ UNCHANGED <<db, chain, issued, brought, stranded, aborts>>

\* EmployeeService.edit: findOne by id and organization ...
EditEmployeeFind(p) ==
  /\ Call(p, "editEmployee")
  /\ \E e \in Eids, w \in Wallets, o \in Orgs :
       /\ employees[e] # Absent
       /\ employees[e].org = o
       /\ Await(p, "em_update", [NoRequest EXCEPT !.eids = {e}, !.wallet = w])
  /\ UNCHANGED <<db, chain, issued, brought, stranded, aborts>>

\* ... then UPDATE by id, refused when another row of that organization has
\* the wallet.
EditEmployee(p) ==
  /\ pc[p] = "em_update"
  /\ \E e \in req[p].eids :
       LET w == req[p].wallet
       IN employees' =
            IF employees[e] = Absent \/ Employed(employees[e].org, w)
            THEN employees
            ELSE [employees EXCEPT ![e].wallet = w]
  /\ Respond(p)
  /\ UNCHANGED <<transfers, payments, orgWallet, chain, issued, brought,
                 stranded, aborts>>

\* EmployeeService.removeEmployee: findOne by id ...
RemoveEmployeeFind(p) ==
  /\ Call(p, "removeEmployee")
  /\ \E e \in Eids :
       /\ employees[e] # Absent
       /\ Await(p, "rm_transfers",
            [NoRequest EXCEPT !.eids = {e}, !.wallet = employees[e].wallet])
  /\ UNCHANGED <<db, chain, issued, brought, stranded, aborts>>

\* Mutant: paid transfers of the wallet are deleted too.
RemoveEmployeeTransfers_Paid(p) ==
  /\ pc[p] = "rm_transfers"
  /\ transfers' = [t \in Tids |->
       IF transfers[t] # Absent /\ transfers[t].wallet = req[p].wallet
       THEN Absent ELSE transfers[t]]
  /\ Await(p, "rm_row", req[p])
  /\ UNCHANGED <<employees, payments, orgWallet, chain, issued, brought,
                 stranded, aborts>>

\* ... DELETE of the wallet's pending transfers, in every organization ...
RemoveEmployeeTransfers(p) ==
  /\ pc[p] = "rm_transfers"
  /\ transfers' = [t \in Tids |->
       IF Pending(t) /\ transfers[t].wallet = req[p].wallet
       THEN Absent ELSE transfers[t]]
  /\ Await(p, "rm_row", req[p])
  /\ UNCHANGED <<employees, payments, orgWallet, chain, issued, brought,
                 stranded, aborts>>

\* ... and DELETE of the employee.
RemoveEmployee(p) ==
  /\ pc[p] = "rm_row"
  /\ employees' = [e \in Eids |-> IF e \in req[p].eids THEN Absent
                                                        ELSE employees[e]]
  /\ Respond(p)
  /\ UNCHANGED <<transfers, payments, orgWallet, chain, issued, brought,
                 stranded, aborts>>

-----------------------------------------------------------------------------
(* The payer's wallet, the blockchain, and requests that die.              *)

\* Mutant: no foreign key from payment to organization.wallet_id.
AddWallet_NoForeignKey(p) ==
  /\ Call(p, "addWallet")
  /\ \E o \in Orgs, a \in Payers :
       /\ ~ Registered(a)
       /\ orgWallet' = [orgWallet EXCEPT ![o] = a]
  /\ UNCHANGED <<transfers, employees, payments, chain, pc, req, issued,
                 brought, stranded, aborts>>

\* OrganizationService.addWallet: wallet_id is unique, and a wallet that
\* payments refer to cannot be replaced (foreign key ON UPDATE NO ACTION).
AddWallet(p) ==
  /\ Call(p, "addWallet")
  /\ \E o \in Orgs, a \in Payers :
       /\ ~ Registered(a)
       /\ \A r \in payments : r.from # orgWallet[o]
       /\ orgWallet' = [orgWallet EXCEPT ![o] = a]
  /\ UNCHANGED <<transfers, employees, payments, chain, pc, req, issued,
                 brought, stranded, aborts>>

\* External: the client's wallet submits a transaction, the chain mines it.
Submit(h) == /\ chain[h] = "unknown"
             /\ chain' = [chain EXCEPT ![h] = "pending"]
             /\ UNCHANGED <<db, pc, req, issued, brought, stranded, aborts>>

Mine(h) == /\ chain[h] = "pending"
           /\ \E result \in {"success", "reverted"} :
                chain' = [chain EXCEPT ![h] = result]
           /\ UNCHANGED <<db, pc, req, issued, brought, stranded, aborts>>

\* A crash of the server, or an exception of the database or the node, ends
\* a request at the await where it stands; nothing already written is undone.
\* A crash that ends several requests is that many steps of Abort.
Abort(p) ==
  /\ pc[p] # "idle"
  /\ aborts < MaxAborts
  /\ aborts' = aborts + 1
  /\ stranded' = IF pc[p] = "st_insert" THEN stranded \cup {req[p].hash}
                                        ELSE stranded
  /\ Respond(p)
  /\ UNCHANGED <<db, chain, issued, brought>>

-----------------------------------------------------------------------------
Init ==
  /\ transfers = Empty
  /\ employees = [e \in Eids |-> Absent]
  /\ payments = {}
  /\ orgWallet = [o \in Orgs |-> NoWallet]
  /\ chain = [h \in Hashes |-> "unknown"]
  /\ pc = [p \in Procs |-> "idle"]
  /\ req = [p \in Procs |-> NoRequest]
  /\ issued = {}
  /\ brought = {}
  /\ stranded = {}
  /\ aborts = 0

Start(p) ==
  \/ EditTransfer(p) \/ DeleteTransfer(p) \/ DeleteMultipleFind(p)
  \/ CreateFromDbEmployees(p) \/ UploadTransfers(p)
  \/ \E h \in Hashes : SaveTransactionCheck(p, h)
  \/ CreateEmployeeCheck(p) \/ EditEmployeeFind(p) \/ RemoveEmployeeFind(p)
  \/ AddWallet(p)

Continue(p) ==
  \/ DeleteMultiple(p)
  \/ CreateFromDbPending(p) \/ CreateFromDbLoad(p) \/ CreateFromDbSave(p)
  \/ UploadEmployee(p)
  \/ GetTransaction(p) \/ GetTransactionReceipt(p) \/ AddHash(p)
  \/ InsertPayment(p)
  \/ CreateEmployee(p) \/ EditEmployee(p)
  \/ RemoveEmployeeTransfers(p) \/ RemoveEmployee(p)

Next ==
  \/ \E p \in Procs : Start(p) \/ Continue(p) \/ Abort(p)
  \/ \E h \in Hashes : Submit(h) \/ Mine(h)

Spec == Init /\ [][Next]_vars

-----------------------------------------------------------------------------
(* Safety.                                                                 *)

\* A local variable has a value at the awaits where it is still needed.
LocalsSet(label, r) ==
  /\ label \in {"st_transaction", "st_receipt", "st_mark", "st_insert"}
       => r.hash \in Hashes
  /\ label \in {"db_pending", "db_load", "db_write", "up_employee", "em_insert"}
       => r.org \in Orgs
  /\ label \in {"em_insert", "em_update", "rm_transfers"}
       => r.wallet \in Wallets

\* The types of the tables and of the local variables of the requests.
TypeOK ==
  /\ transfers \in Table
  /\ employees \in [Eids -> EmployeeRow \cup {Absent}]
  /\ payments \subseteq PaymentRow
  /\ orgWallet \in [Orgs -> Payers \cup {NoWallet}]
  /\ chain \in [Hashes -> {"unknown", "pending", "success", "reverted"}]
  /\ pc \in [Procs -> Labels]
  /\ req \in [Procs -> Request]
  /\ \A p \in Procs : LocalsSet(pc[p], req[p])
  /\ issued \subseteq Tids \cup Eids
  /\ brought \subseteq Tids
  /\ stranded \subseteq Hashes
  /\ aborts \in 0 .. MaxAborts

\* A transfer that is listed as completed names a transaction the chain has
\* mined, because savetransaction saw the receipt first and no stale entity of
\* createFromDb carries a hash, unless its hash is what a sheet brought: nothing
\* checks that one.
PaidMeansMined ==
  \A t \in Tids \ brought : Completed(t) => Mined(transfers[t].hash)

\* Every payment row tells what the chain says: the sender and the outcome of
\* its transaction; and no transaction is recorded twice, although two
\* savetransaction requests may both have found it unrecorded.
RecordsMatchChain ==
  /\ \A r \in payments : /\ Mined(r.hash)
                         /\ r.from = Sender[r.hash]
                         /\ r.status = (chain[r.hash] = "success")
  /\ \A r, s \in payments : r.hash = s.hash => r = s

\* The payer of every payment stays the wallet of an organization, whatever
\* addWallet calls run between the request's check and its insert or later.
PayerRegistered == \A r \in payments : Registered(r.from)

\* A hash on a transfer without a payment row came with a sheet, or is on its
\* way to one, in a request between addHash and insert, or that insert was given
\* up: nothing else can leave a completed transfer without its payment.
InsertUnderWay(h) == \E p \in Procs : pc[p] = "st_insert" /\ req[p].hash = h
OrphanHashExplained ==
  \A t \in Tids \ brought : Completed(t) =>
    \/ Recorded(transfers[t].hash)
    \/ InsertUnderWay(transfers[t].hash)
    \/ transfers[t].hash \in stranded

\* While one request at a time generates transfers (createFromDb and upload
\* are the two that do), a wallet has at most one pending transfer in an
\* organization, whatever edits, deletes, removals and payments interleave
\* with the generator's four awaits.
SoleCreator ==
  /\ \A p \in Procs : "upload" \notin Slots[p]
  /\ \A p, q \in Procs : "createFromDb" \in Slots[p] \cap Slots[q] => p = q
PendingUnique ==
  SoleCreator =>
    \A t, u \in Tids :
      Pending(t) /\ Pending(u) /\ transfers[t].org = transfers[u].org
        /\ transfers[t].wallet = transfers[u].wallet => t = u

\* While nobody edits or removes employees and no request dies, a pending
\* transfer pays an employee of its organization, or the upload it came with
\* is still inserting that employee.
NobodyLeaves ==
  /\ MaxAborts = 0
  /\ \A p \in Procs : Slots[p] \cap {"editEmployee", "removeEmployee"} = {}
PendingBacked ==
  NobodyLeaves =>
    \A t \in Tids : Pending(t) =>
      \/ Employed(transfers[t].org, transfers[t].wallet)
      \/ \E p \in Procs : /\ pc[p] = "up_employee"
                          /\ req[p].org = transfers[t].org
                          /\ transfers[t].wallet \in req[p].wallets

-----------------------------------------------------------------------------
(* What a step may do.                                                     *)

\* A completed transfer stops being completed only when a delete endpoint
\* deletes it or when createFromDb writes back the copy it read while the
\* transfer was pending; the removal of its employee, in particular, never
\* takes it along, even if it was paid after the removal began.
Deletable == \E p \in Procs :
               Slots[p] \cap {"deleteTransfer", "deleteMultiple"} # {}
StaleSave(t) == \E p \in Procs : /\ pc[p] = "db_write"
                                 /\ pc'[p] = "idle"
                                 /\ req[p].list[t] # Absent
                                 /\ req[p].list[t].hash = NoHash
CompletedFate ==
  [][\A t \in Tids : Completed(t) /\ ~ Completed(t)' =>
       Deletable \/ StaleSave(t)]_vars

\* While its row is there a transfer stays of one organization and one wallet,
\* and its amount changes in an edit, or when a createFromDb undoes one that ran
\* between its two reads of the row: an edit before both reads or after both
\* stands, although the whole row is in what createFromDb writes back.
Editable == \E p \in Procs : "editTransfer" \in Slots[p]
UndoesEdit(t) ==
  \E p \in Procs : LET entity == req[p].list[t]
                       loaded == req[p].loaded[t]
                   IN /\ pc[p] = "db_write" /\ pc'[p] = "idle"
                      /\ entity # Absent /\ loaded # Absent
                      /\ entity.amount # loaded.amount
                      /\ transfers'[t].amount = entity.amount
ValueFate ==
  [][\A t \in Tids : transfers[t] # Absent /\ transfers'[t] # Absent =>
       /\ transfers'[t].org = transfers[t].org
       /\ transfers'[t].wallet = transfers[t].wallet
       /\ \/ transfers'[t].amount = transfers[t].amount
          \/ Editable /\ (pc' = pc \/ UndoesEdit(t))]_vars

\* controllers' 'You have already added transaction': once its payment is
\* recorded, no later step marks a transfer with the hash (a sheet may bring it).
HashAddedOnce ==
  [][\A t \in Tids \ brought' :
       Completed(t)' /\ transfers'[t] # transfers[t] /\ ~ Completed(t)
         => ~ Recorded(transfers'[t].hash)]_vars

\* What remains of that promise.  The books of a transaction are closed when
\* its payment is recorded and no request that passed the check before is still
\* on its way: then they stay closed, and no step marks another transfer with
\* the hash, whoever retries, edits, generates or writes back stale rows.  All
\* that can still name it is a new transfer from a sheet that brought the hash.
Saving    == {"st_transaction", "st_receipt", "st_mark", "st_insert"}
Closed(h) == /\ Recorded(h)
             /\ \A p \in Procs : pc[p] \in Saving => req[p].hash # h
PaidBy(h) == {t \in Tids : Completed(t) /\ transfers[t].hash = h}
ClosedForGood ==
  [][\A h \in Hashes :
       Closed(h) => /\ Closed(h)'
                    /\ PaidBy(h)' \ PaidBy(h) \subseteq brought' \ issued]_vars

-----------------------------------------------------------------------------
(* Progress.                                                               *)

\* The server runs every request it has accepted; a client that has a mined
\* transaction calls savetransaction again until it gets the answer that the
\* transaction was added already.
Fairness ==
  /\ \A p \in Procs : WF_vars(Continue(p))
  /\ \A h \in Hashes : SF_vars(\E p \in Procs : SaveTransactionCheck(p, h))

FairSpec == Spec /\ Fairness

\* Once a transaction is mined and its sender stays some organization's
\* wallet, its payment is recorded in the end, also when requests died or
\* failed between addHash and the insert: a retry heals what they left.
RetryRecords ==
  \A h \in Hashes :
    (Mined(h) /\ [] Registered(Sender[h])) ~> Recorded(h)

=============================================================================

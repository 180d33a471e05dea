------------------------------ MODULE MCPayroll ------------------------------
(* Small instances of Payroll for TLC: who may call what, and symmetry.    *)
EXTENDS PayrollLedger, TLC

CONSTANTS p1, p2, h1, h2, a1, a2

Senders  == [h \in Hashes |-> IF h = h1 THEN a1 ELSE a2]

\* One generator against deletes, payments and changes of the employees.
GenerateSlots ==
  [p \in Procs |-> IF p = p1 THEN {"createFromDb"}
     ELSE {"savetransaction", "deleteTransfer", "deleteMultiple",
           "createEmployee", "editEmployee", "removeEmployee"}]

\* Two savetransaction requests, with transfers from a file.
SaveSlots ==
  [p \in Procs |-> IF p = p1 THEN {"savetransaction", "upload"}
                             ELSE {"savetransaction", "addWallet"}]

\* Uploads and generators next to each other; employees only arrive.
UploadSlots ==
  [p \in Procs |-> {"upload", "createFromDb", "createEmployee",
                    "savetransaction"}]

\* The books: removals and generators against uploads, payments and edits.
LedgerSlots ==
  [p \in Procs |-> IF p = p1 THEN {"removeEmployee", "createFromDb", "addWallet"}
                   ELSE {"upload", "savetransaction", "editTransfer"}]

Symmetric == Permutations(Tids) \cup Permutations(Eids)
             \cup Permutations(Wallets) \cup Permutations(Orgs)
             \cup Permutations(Pids)

=============================================================================

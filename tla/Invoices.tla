------------------------------- MODULE Invoices -------------------------------
(***************************************************************************)
(* Invoices: the drafting of invoice numbers (GET getinvoicenumber) and    *)
(* the creation of an invoice (POST create) of one organization.           *)
(*                                                                         *)
(* A number is random and is kept in the Redis cache while it lives there. *)
(* An invoice is made in steps of their own: a PDF file, a row, its items, *)
(* a mail, a status.  The queryRunner that create opens for a transaction  *)
(* is never released and no statement runs on it.                          *)
(*                                                                         *)
(* Each request is made once; the row it inserts is known by the request.  *)
(***************************************************************************)
EXTENDS ConnectionPool

CONSTANTS
  Drafts,      \* the requests for a number
  Creations,   \* the requests that create an invoice
  Numbers,     \* six-digit numbers
  OldNumbers,  \* those in the cache at first: Redis outlives the server
  Absent,      \* no such row or file
  MaxFaults,   \* bounds the calls that end with an error
  MaxCrashes   \* bounds the restarts of the server

ASSUME InvoicesAssumption == /\ Drafts \subseteq Requests
                             /\ Creations \subseteq Requests
                             /\ Drafts \cap Creations = {}
                             /\ Absent \notin [status : BOOLEAN, items : BOOLEAN]
                             /\ Absent \notin Creations
                             /\ OldNumbers \subseteq Numbers
                             /\ MaxFaults \in Nat
                             /\ MaxCrashes \in Nat

VARIABLES
  cache,       \* Redis: the numbers that are cached
  invoices,    \* table invoices: the row of each creation, with its items
  pdfs,        \* the files by number: the creation whose PDF it is
  mail,        \* what became of the mail of a creation
  number,      \* the number a draft tries, or that a creation is for
  cached,      \* cachedItem = randomNum, the local of a draft
  nested,      \* a draft is inside the recursive call
  pc,          \* the await at which a request is suspended, or its answer
  before,      \* history: the drafts that were answered when one began
  expired,     \* history: the numbers that left the cache
  premarked,   \* history: the creations whose body said they were marked
  faults, crashes

draftVars  == <<cached, nested, before>>
invoiceVars == <<cache, invoices, premarked, pdfs, mail, number, cached,
                 nested, pc, before, expired>>
vars == <<cache, invoices, premarked, pdfs, mail, number, cached, nested, pc,
          before, expired, faults, crashes, holder, queue>>

Row == [status : BOOLEAN, items : BOOLEAN]

Statements == {"find_invoice", "find_company", "save_invoice", "save_items",
               "update_invoice"}
InTry      == {"save_invoice", "save_items", "update_invoice", "commit",
               "rollback"}
Answers    == {"drafted", "empty", "created", "forbidden", "failed", "error",
               "dead"}

TypeOK ==
  /\ cache \subseteq Numbers
  /\ invoices \in [Creations -> Row \cup {Absent}]
  /\ pdfs \in [Numbers -> Creations \cup {Absent}]
  /\ mail \in [Creations -> {"none", "sending", "sent", "lost"}]
  /\ number \in [Drafts \cup Creations -> Numbers]
  /\ cached \in [Drafts -> BOOLEAN]
  /\ nested \in [Drafts -> BOOLEAN]
  /\ pc \in [Drafts \cup Creations ->
               {"new", "get_number", "set_number", "create_pdf", "connect"}
                 \cup Statements \cup InTry \cup Answers]
  /\ before \in [Drafts -> SUBSET Drafts]
  /\ expired \subseteq Numbers
  /\ premarked \subseteq Creations
  /\ PoolTypeOK
  /\ faults \in 0 .. MaxFaults
  /\ crashes \in 0 .. MaxCrashes

InvoicesInit ==
  /\ cache = OldNumbers
  /\ invoices = [i \in Creations |-> Absent]
  /\ pdfs = [n \in Numbers |-> Absent]
  /\ mail = [i \in Creations |-> "none"]
  /\ number \in [Drafts \cup Creations -> Numbers]
  /\ cached = [d \in Drafts |-> FALSE]
  /\ nested = [d \in Drafts |-> FALSE]
  /\ pc = [r \in Drafts \cup Creations |-> "new"]
  /\ before = [d \in Drafts |-> {}]
  /\ expired = {}
  /\ premarked = {}

GoTo(r, from, to) == pc[r] = from /\ pc' = [pc EXCEPT ![r] = to]

-----------------------------------------------------------------------------
(* Drafting a number.                                                      *)

\* getId with its random number
GetId(d) ==
  /\ GoTo(d, "new", "get_number")
  /\ before' = [before EXCEPT ![d] = {e \in Drafts : pc[e] = "drafted"}]
  /\ UNCHANGED <<cache, invoices, premarked, pdfs, mail, number, cached,
                 nested, expired, poolVars>>

\* cacheManager.get in draftInvoiceNumber
GetNumber(d) ==
  /\ GoTo(d, "get_number", "find_invoice")
  /\ cached' = [cached EXCEPT ![d] = number[d] \in cache]
  /\ Ask(Stmt(d))
  /\ UNCHANGED <<cache, invoices, premarked, pdfs, mail, number, nested,
                 before, expired>>

\* Mutant: findOne answers undefined where there is no row, as TypeORM 0.2 did.
FindInvoice_Undefined(d) ==
  /\ Holds(Stmt(d))
  /\ IF cached[d] /\ \E i \in Creations : invoices[i] # Absent
     THEN /\ GoTo(d, "find_invoice", "get_number")
          /\ \E n \in Numbers : number' = [number EXCEPT ![d] = n]
          /\ nested' = [nested EXCEPT ![d] = TRUE]
     ELSE /\ GoTo(d, "find_invoice", "set_number")
          /\ UNCHANGED <<number, nested>>
  /\ Return(Stmt(d))
  /\ UNCHANGED <<cache, invoices, premarked, pdfs, mail, cached, before,
                 expired>>

\* findOne answers null or a row, never undefined: only the cache decides.
\* The result of the recursive call is awaited and dropped.
FindInvoice(d) ==
  /\ Holds(Stmt(d))
  /\ IF cached[d]
     THEN /\ GoTo(d, "find_invoice", "get_number")
          /\ \E n \in Numbers : number' = [number EXCEPT ![d] = n]
          /\ nested' = [nested EXCEPT ![d] = TRUE]
     ELSE /\ GoTo(d, "find_invoice", "set_number")
          /\ UNCHANGED <<number, nested>>
  /\ Return(Stmt(d))
  /\ UNCHANGED <<cache, invoices, premarked, pdfs, mail, cached, before,
                 expired>>

\* setInvoiceNumber and the answer
SetNumber(d) ==
  /\ GoTo(d, "set_number", IF nested[d] THEN "empty" ELSE "drafted")
  /\ cache' = cache \cup {number[d]}
  /\ UNCHANGED <<invoices, premarked, pdfs, mail, number, draftVars, expired,
                 poolVars>>

\* The entry's time to live passes.
Expire(n) ==
  /\ n \in cache
  /\ cache' = cache \ {n}
  /\ expired' = expired \cup {n}
  /\ UNCHANGED <<invoices, premarked, pdfs, mail, number, draftVars, pc,
                 poolVars>>

-----------------------------------------------------------------------------
(* Creating an invoice.                                                    *)

\* Both wallets are checked first; then the company is looked up.
Create(i) ==
  /\ \/ GoTo(i, "new", "forbidden") /\ UNCHANGED poolVars
     \/ GoTo(i, "new", "find_company") /\ Ask(Stmt(i))
  /\ UNCHANGED <<cache, invoices, premarked, pdfs, mail, number, draftVars,
                 expired>>

FindCompany(i) ==
  /\ Holds(Stmt(i))
  /\ GoTo(i, "find_company", "create_pdf")
  /\ Return(Stmt(i))
  /\ UNCHANGED <<cache, invoices, premarked, pdfs, mail, number, draftVars,
                 expired>>

\* createPdf names the file after organization and number; then the
\* queryRunner asks for its client.
CreatePdf(i) ==
  /\ GoTo(i, "create_pdf", "connect")
  /\ pdfs' = [pdfs EXCEPT ![number[i]] = i]
  /\ Ask(Tx(i))
  /\ UNCHANGED <<cache, invoices, premarked, mail, number, draftVars,
                 expired>>

Begin(i) ==
  /\ Holds(Tx(i))
  /\ GoTo(i, "connect", "save_invoice")
  /\ Ask(Stmt(i))
  /\ UNCHANGED <<cache, invoices, premarked, pdfs, mail, number, draftVars,
                 expired>>

\* The row of i is inserted with the status that came with the body, if any.
SaveRow(i, status) ==
  /\ invoices' = [invoices EXCEPT ![i] = [status |-> status, items |-> FALSE]]
  /\ premarked' = premarked \cup {c \in {i} : status = TRUE}

\* Mutant: the column status has no default.
SaveInvoice_Null(i) ==
  /\ Holds(Stmt(i))
  /\ GoTo(i, "save_invoice", "save_items")
  /\ \E status \in BOOLEAN \cup {Absent} : SaveRow(i, status)
  /\ ReturnAndAsk(Stmt(i), Stmt(i))
  /\ UNCHANGED <<cache, pdfs, mail, number, draftVars, expired>>

\* Mutant: the mail is handed over before the items are saved.
SaveInvoice_Mails(i) ==
  /\ Holds(Stmt(i))
  /\ GoTo(i, "save_invoice", "save_items")
  /\ \E status \in BOOLEAN : SaveRow(i, status)
  /\ mail' = [mail EXCEPT ![i] = "sending"]
  /\ ReturnAndAsk(Stmt(i), Stmt(i))
  /\ UNCHANGED <<cache, pdfs, number, draftVars, expired>>

\* save stores the body as it came; the validation lets unknown fields pass, so
\* a status in it is stored too.  Without one the column's default is false.
SaveInvoice(i) ==
  /\ Holds(Stmt(i))
  /\ GoTo(i, "save_invoice", "save_items")
  /\ \E status \in BOOLEAN : SaveRow(i, status)
  /\ ReturnAndAsk(Stmt(i), Stmt(i))
  /\ UNCHANGED <<cache, pdfs, mail, number, draftVars, expired>>

\* After the items, sendInvoiceMessageEmail hands the mail to the transporter
\* and returns without waiting for it; the update is next.
SaveItems(i) ==
  /\ Holds(Stmt(i))
  /\ GoTo(i, "save_items", "update_invoice")
  /\ invoices' = [invoices EXCEPT ![i].items = TRUE]
  /\ mail' = [mail EXCEPT ![i] = "sending"]
  /\ ReturnAndAsk(Stmt(i), Stmt(i))
  /\ UNCHANGED <<cache, premarked, pdfs, number, draftVars, expired>>

\* Mutant: the update matches no row, which TypeORM does not report.
UpdateInvoice_NoRow(i) ==
  /\ Holds(Stmt(i))
  /\ GoTo(i, "update_invoice", "commit")
  /\ Return(Stmt(i))
  /\ UNCHANGED <<cache, invoices, premarked, pdfs, mail, number, draftVars,
                 expired>>

\* Mutant: the client of the update is not given back.
UpdateInvoice_KeepsClient(i) ==
  /\ Holds(Stmt(i))
  /\ GoTo(i, "update_invoice", "commit")
  /\ invoices' = [invoices EXCEPT ![i].status = TRUE]
  /\ UNCHANGED <<cache, premarked, pdfs, mail, number, draftVars, expired,
                 poolVars>>

UpdateInvoice(i) ==
  /\ Holds(Stmt(i))
  /\ GoTo(i, "update_invoice", "commit")
  /\ invoices' = [invoices EXCEPT ![i].status = TRUE]
  /\ Return(Stmt(i))
  /\ UNCHANGED <<cache, premarked, pdfs, mail, number, draftVars, expired>>

\* commitTransaction; nobody releases the queryRunner.
Commit(i) ==
  /\ GoTo(i, "commit", "created")
  /\ UNCHANGED <<cache, invoices, premarked, pdfs, mail, number, draftVars,
                 expired, poolVars>>

\* rollbackTransaction undoes nothing; nobody releases the queryRunner.
Rollback(i) ==
  /\ GoTo(i, "rollback", "failed")
  /\ UNCHANGED <<cache, invoices, premarked, pdfs, mail, number, draftVars,
                 expired, poolVars>>

\* The mail server takes the mail or refuses it; the callback only logs.
SendMail(i) ==
  /\ mail[i] = "sending"
  /\ \E outcome \in {"sent", "lost"} : mail' = [mail EXCEPT ![i] = outcome]
  /\ UNCHANGED <<cache, invoices, premarked, pdfs, number, draftVars, pc,
                 expired, poolVars>>

-----------------------------------------------------------------------------
(* Errors.                                                                 *)

\* Everything before the try: the cache, the browser that prints the PDF, a
\* look-up, a connection that cannot be opened or whose BEGIN fails.
FailBeforeTry(r) ==
  /\ \/ /\ \E await \in {"get_number", "set_number", "create_pdf"} :
             GoTo(r, await, "error")
        /\ UNCHANGED poolVars
     \/ /\ Holds(Stmt(r))
        /\ \E await \in {"find_invoice", "find_company"} :
             GoTo(r, await, "error")
        /\ Return(Stmt(r))
     \/ /\ Holds(Tx(r))
        /\ GoTo(r, "connect", "error")
        /\ Return(Tx(r)) \/ UNCHANGED poolVars
  /\ UNCHANGED <<cache, invoices, premarked, pdfs, mail, number, draftVars,
                 expired>>

\* A statement is refused (no such client, no items in the body) or fails, or
\* the commit does.
FailInTry(i) ==
  /\ \/ /\ Holds(Stmt(i))
        /\ \E await \in Statements \cap InTry : GoTo(i, await, "rollback")
        /\ Return(Stmt(i))
     \/ GoTo(i, "commit", "rollback") /\ UNCHANGED poolVars
  /\ UNCHANGED <<cache, invoices, premarked, pdfs, mail, number, draftVars,
                 expired>>

\* The process ends, and with it the mails it has not sent.  Tables, files
\* and cache stay.
InvoicesDie ==
  /\ pc' = [r \in Drafts \cup Creations |->
              IF pc[r] \in Answers \cup {"new"} THEN pc[r] ELSE "dead"]
  /\ mail' = [i \in Creations |->
                IF mail[i] = "sending" THEN "lost" ELSE mail[i]]
  /\ UNCHANGED <<cache, invoices, premarked, pdfs, number, draftVars,
                 expired>>

-----------------------------------------------------------------------------
(* The specification of invoices alone with the pool.                      *)

ContinueDraft(d) == GetNumber(d) \/ FindInvoice(d) \/ SetNumber(d)

ContinueCreation(i) ==
  \/ FindCompany(i)
  \/ CreatePdf(i)
  \/ Begin(i)
  \/ SaveInvoice(i)
  \/ SaveItems(i)
  \/ UpdateInvoice(i)
  \/ Commit(i)
  \/ Rollback(i)

Fail(r) == /\ faults < MaxFaults
           /\ faults' = faults + 1
           /\ FailBeforeTry(r) \/ FailInTry(r)

Crash == /\ crashes < MaxCrashes
         /\ crashes' = crashes + 1
         /\ InvoicesDie
         /\ ResetPool
         /\ UNCHANGED faults

Init == InvoicesInit /\ PoolInit /\ faults = 0 /\ crashes = 0

Next ==
  \/ /\ \/ \E d \in Drafts : GetId(d) \/ ContinueDraft(d)
        \/ \E i \in Creations : Create(i) \/ ContinueCreation(i) \/ SendMail(i)
        \/ \E n \in Numbers : Expire(n)
        \/ Grant /\ UNCHANGED invoiceVars
     /\ UNCHANGED <<faults, crashes>>
  \/ \E r \in Drafts \cup Creations : Fail(r) /\ UNCHANGED crashes
  \/ Crash

Spec == Init /\ [][Next]_vars

-----------------------------------------------------------------------------
(* Properties.                                                             *)

\* A number that somebody was given before a request began is not given to it
\* again unless it has left the cache; requests that overlap may share one.
DraftedOnce ==
  \A d \in Drafts : \A e \in before[d] :
    pc[d] = "drafted" /\ number[d] = number[e] => number[d] \in expired

\* A mail goes out only for an invoice that is stored with its items, whatever
\* fails afterwards; the receiver can always be shown it.
MailedIsStored ==
  \A i \in Creations : mail[i] # "none" =>
    invoices[i] # Absent /\ invoices[i].items

\* Creations that have printed their file, or failed to.
Printed == {i \in Creations : pc[i] \notin {"new", "forbidden", "find_company",
                                            "create_pdf"}}

\* How answer, row and file belong together.  Status 200: the row has its items,
\* the status is set, the mail was handed over, and the file of its number is its
\* own or that of another creation that was given the same number.  Unless the
\* body said so, the status is set on no other row than one that has its items
\* and whose commit is next or failed.  A row without it is being written, or its
\* request failed or died; so it is with a row that has no items.
RowsAccounted ==
  \A i \in Creations :
    /\ pc[i] = "created" =>
         /\ invoices[i] = [status |-> TRUE, items |-> TRUE]
         /\ mail[i] # "none"
         /\ \E j \in Printed : number[j] = number[i] /\ pdfs[number[i]] = j
    /\ pc[i] \in {"new", "forbidden", "error"} => invoices[i] = Absent
    /\ invoices[i] # Absent =>
         /\ invoices[i].status /\ i \notin premarked =>
              /\ invoices[i].items
              /\ pc[i] \in {"commit", "rollback", "created", "failed", "dead"}
         /\ ~ invoices[i].status =>
              /\ i \notin premarked
              /\ pc[i] \in {"save_items", "update_invoice", "rollback",
                            "failed", "dead"}
         /\ ~ invoices[i].items =>
              pc[i] \in {"save_items", "rollback", "failed", "dead"}

\* Each answered creation, successful or not, has cost the pool a client until
\* the process is restarted; refused wallets and drafts cost none, and
\* statements give theirs back.
ClientsAccounted ==
  /\ \A i \in Creations :
       /\ pc[i] \in InTry => Holds(Tx(i))
       /\ pc[i] \in {"created", "failed"} => Holds(Tx(i)) \/ crashes > 0
       /\ pc[i] \in {"new", "find_company", "create_pdf", "forbidden", "dead"}
            => ~ Holds(Tx(i))
  /\ \A r \in Drafts \cup Creations :
       Holds(Stmt(r)) => pc[r] \in Statements

=============================================================================

----------------------------- MODULE InvoicesProofs -----------------------------
(* Invoices, for every set of requests, numbers and clients: types, what   *)
(* row, mail and answer say of each other, who has which client, and when  *)
(* a number is given twice.                                                *)
EXTENDS Invoices, ConnectionPoolProofs

\* Where a draft and where a creation can be.
DraftLabels    == {"new", "get_number", "find_invoice", "set_number",
                   "drafted", "empty", "error", "dead"}
CreationLabels == {"new", "forbidden", "find_company", "create_pdf", "connect",
                   "save_invoice", "save_items", "update_invoice", "commit",
                   "rollback", "created", "failed", "error", "dead"}

\* A step of the handler of a draft, and of that of a creation.
DraftStep(d) == \/ GetId(d)
                \/ GetNumber(d)
                \/ FindInvoice(d)
                \/ SetNumber(d)
                \/ FailBeforeTry(d)
                \/ FailInTry(d)

CreationStep(i) == \/ Create(i)
                   \/ FindCompany(i)
                   \/ CreatePdf(i)
                   \/ Begin(i)
                   \/ SaveInvoice(i)
                   \/ SaveItems(i)
                   \/ UpdateInvoice(i)
                   \/ Commit(i)
                   \/ Rollback(i)
                   \/ FailBeforeTry(i)
                   \/ FailInTry(i)

\* A step of the system is one of these.
LEMMA Steps ==
  ASSUME Next
  PROVE  \/ /\ \/ \E d \in Drafts : DraftStep(d)
               \/ \E i \in Creations : CreationStep(i) \/ SendMail(i)
               \/ \E n \in Numbers : Expire(n)
            /\ UNCHANGED crashes
            /\ faults' = faults \/ (faults < MaxFaults /\ faults' = faults + 1)
         \/ Grant /\ UNCHANGED <<invoiceVars, faults, crashes>>
         \/ Crash
BY DEF Next, Fail, ContinueDraft, ContinueCreation, DraftStep, CreationStep

-----------------------------------------------------------------------------
(* The data.                                                               *)

\* TypeOK without the pool and the bounds, and with the labels of each kind.
DataTypeOK ==
  /\ cache \subseteq Numbers
  /\ invoices \in [Creations -> Row \cup {Absent}]
  /\ pdfs \in [Numbers -> Creations \cup {Absent}]
  /\ mail \in [Creations -> {"none", "sending", "sent", "lost"}]
  /\ number \in [Drafts \cup Creations -> Numbers]
  /\ cached \in [Drafts -> BOOLEAN]
  /\ nested \in [Drafts -> BOOLEAN]
  /\ pc \in [Drafts \cup Creations -> DraftLabels \cup CreationLabels]
  /\ \A d \in Drafts : pc[d] \in DraftLabels
  /\ \A i \in Creations : pc[i] \in CreationLabels
  /\ before \in [Drafts -> SUBSET Drafts]
  /\ expired \subseteq Numbers
  /\ premarked \subseteq Creations

\* A row that is stored: whether it has its items, and that only the body can
\* have marked it.
Stored(row, items, marked) == /\ row \in Row
                              /\ row.items = items
                              /\ row.status <=> marked

\* How far a creation has come, by the await at which it is suspended.
Written(i) ==
  /\ pc[i] \in {"new", "forbidden", "error", "find_company", "create_pdf", "connect",
                "save_invoice"}
       => invoices[i] = Absent /\ mail[i] = "none" /\ i \notin premarked
  /\ pc[i] = "save_items" =>
       Stored(invoices[i], FALSE, i \in premarked) /\ mail[i] = "none"
  /\ pc[i] = "update_invoice" =>
       Stored(invoices[i], TRUE, i \in premarked) /\ mail[i] # "none"
  /\ pc[i] \in {"commit", "created"} =>
       Stored(invoices[i], TRUE, TRUE) /\ mail[i] # "none"
  /\ invoices[i] # Absent => /\ invoices[i].status => invoices[i].items \/ i \in premarked
                             /\ i \in premarked => invoices[i].status
  /\ mail[i] # "none" => invoices[i] # Absent /\ invoices[i].items

\* From createPdf on there is a file of the number, its own or another's.
Filed(i) ==
  pc[i] \in {"connect", "save_invoice", "save_items", "update_invoice", "commit", "created"}
    => \E j \in Printed : number[j] = number[i] /\ pdfs[number[i]] = j

\* What a draft knows of the drafts that were answered before it began.
Drafted(d) ==
  /\ \A e \in before[d] : pc[e] = "drafted"
  /\ pc[d] = "drafted" => number[d] \in cache \cup expired
  /\ pc[d] \in {"set_number", "drafted"} \/ (pc[d] = "find_invoice" /\ ~ cached[d]) =>
       \A e \in before[d] : number[e] = number[d] => number[d] \in expired

Data == /\ DataTypeOK
        /\ \A i \in Creations : Written(i) /\ Filed(i)
        /\ \A d \in Drafts : Drafted(d)

\* A draft changes neither a row, nor a file, nor a mail.
LEMMA DraftMoves ==
  ASSUME DataTypeOK, NEW d \in Drafts, DraftStep(d)
  PROVE  /\ DataTypeOK'
         /\ UNCHANGED <<invoices, premarked, pdfs, mail, expired>>
         /\ cache \subseteq cache'
         /\ \A r \in (Drafts \cup Creations) \ {d} : pc'[r] = pc[r] /\ number'[r] = number[r]
         /\ \A e \in Drafts \ {d} : before'[e] = before[e] /\ cached'[e] = cached[e]
<1> USE InvoicesAssumption DEF DataTypeOK, DraftLabels, CreationLabels, GoTo, draftVars
<1>1. CASE GetId(d)
  BY <1>1 DEF GetId
<1>2. CASE GetNumber(d)
  <2>1. cached' \in [Drafts -> BOOLEAN]
        /\ \A e \in Drafts \ {d} : cached'[e] = cached[e]
    BY <1>2 DEF GetNumber
  <2>2. QED
    BY <1>2, <2>1 DEF GetNumber
<1>3. CASE FindInvoice(d)
  <2>1. /\ number' = number \/ \E n \in Numbers : number' = [number EXCEPT ![d] = n]
        /\ nested' = nested \/ nested' = [nested EXCEPT ![d] = TRUE]
        /\ \/ pc' = [pc EXCEPT ![d] = "get_number"]
           \/ pc' = [pc EXCEPT ![d] = "set_number"]
        /\ UNCHANGED <<cache, invoices, premarked, pdfs, mail, cached, before, expired>>
    BY <1>3 DEF FindInvoice
  <2>2. /\ number' \in [Drafts \cup Creations -> Numbers]
        /\ \A r \in (Drafts \cup Creations) \ {d} : number'[r] = number[r]
    BY <2>1
  <2>3. /\ pc' \in [Drafts \cup Creations -> DraftLabels \cup CreationLabels]
        /\ \A e \in Drafts : pc'[e] \in DraftLabels
        /\ \A i \in Creations : pc'[i] \in CreationLabels
        /\ \A r \in (Drafts \cup Creations) \ {d} : pc'[r] = pc[r]
    BY <2>1
  <2>4. nested' \in [Drafts -> BOOLEAN]
    BY <2>1
  <2>5. QED
    BY <2>1, <2>2, <2>3, <2>4
<1>4. CASE SetNumber(d)
  BY <1>4 DEF SetNumber
<1>5. CASE FailBeforeTry(d)
  BY <1>5 DEF FailBeforeTry
<1>6. CASE FailInTry(d)
  BY <1>6 DEF FailInTry, Statements, InTry
<1>7. QED
  BY <1>1, <1>2, <1>3, <1>4, <1>5, <1>6 DEF DraftStep

\* The step of a draft keeps what is known of drafts: the cache is asked after
\* all the drafts before it have put their numbers there.
LEMMA DraftedStep ==
  ASSUME Data, NEW d \in Drafts, DraftStep(d), NEW e \in Drafts
  PROVE  Drafted(e)'
<1>0. DataTypeOK /\ DataTypeOK' /\ \A f \in Drafts : Drafted(f)
  BY DraftMoves DEF Data
<1>1. /\ UNCHANGED expired
      /\ cache \subseteq cache'
      /\ \A f \in Drafts \ {d} : /\ pc'[f] = pc[f] /\ number'[f] = number[f]
                                 /\ before'[f] = before[f] /\ cached'[f] = cached[f]
  BY <1>0, DraftMoves
<1>2. pc[d] # "drafted"
  BY <1>0 DEF DraftStep, GetId, GetNumber, FindInvoice, SetNumber, FailBeforeTry,
              FailInTry, GoTo, Statements, InTry
<1>3. \A f \in before[e] : f \in Drafts \ {d} /\ pc[f] = "drafted"
                           /\ number[f] \in cache \cup expired
  BY <1>0, <1>2 DEF Drafted, DataTypeOK
<1>4. CASE e # d
  BY <1>0, <1>1, <1>3, <1>4 DEF Drafted
<1>5. CASE e = d
  <2> USE DEF GoTo, DataTypeOK
  <2>1. CASE GetId(d)
    <3>1. pc'[d] = "get_number" /\ before'[d] = {f \in Drafts : pc[f] = "drafted"}
      BY <1>0, <2>1 DEF GetId
    <3>2. QED
      BY <1>1, <1>2, <1>5, <3>1 DEF Drafted
  <2>2. CASE GetNumber(d)
    <3>1. /\ pc'[d] = "find_invoice"
          /\ UNCHANGED <<before, number, cache>>
          /\ cached'[d] <=> number[d] \in cache
      BY <1>0, <2>2 DEF GetNumber
    <3>2. QED
      BY <1>0, <1>1, <1>3, <1>5, <3>1 DEF Drafted
  <2>3. CASE FindInvoice(d)
    <3>1. /\ UNCHANGED <<before, cached>>
          /\ pc[d] = "find_invoice"
          /\ \/ pc'[d] = "get_number"
             \/ pc'[d] = "set_number" /\ ~ cached[d] /\ UNCHANGED number
      BY <1>0, <2>3 DEF FindInvoice
    <3>2. QED
      BY <1>0, <1>1, <1>3, <1>5, <3>1 DEF Drafted
  <2>4. CASE SetNumber(d)
    <3>1. /\ UNCHANGED <<before, number>>
          /\ pc[d] = "set_number"
          /\ pc'[d] \in {"drafted", "empty"}
          /\ number[d] \in cache'
      BY <1>0, <2>4 DEF SetNumber, draftVars
    <3>2. QED
      BY <1>0, <1>1, <1>3, <1>5, <3>1 DEF Drafted
  <2>5. CASE FailBeforeTry(d) \/ FailInTry(d)
    <3>1. UNCHANGED before /\ pc'[d] \in {"error", "rollback"}
      BY <1>0, <2>5 DEF FailBeforeTry, FailInTry, draftVars
    <3>2. QED
      BY <1>0, <1>1, <1>3, <1>5, <3>1 DEF Drafted
  <2>6. QED
    BY <2>1, <2>2, <2>3, <2>4, <2>5 DEF DraftStep
<1>6. QED
  BY <1>4, <1>5

\* With its items saved, a creation is where its row and mail say.
LEMMA WrittenItems ==
  ASSUME NEW i \in Creations, mail'[i] # "none",
         \/ pc'[i] = "update_invoice" /\ Stored(invoices'[i], TRUE, i \in premarked')
         \/ pc'[i] = "commit" /\ Stored(invoices'[i], TRUE, TRUE)
  PROVE  Written(i)'
<1>1. invoices'[i] # Absent /\ invoices'[i].items
  BY InvoicesAssumption DEF Stored, Row
<1>2. QED
  BY <1>1 DEF Written, Stored

\* A creation writes its own row and mail, and a file; drafts do not see it.
LEMMA CreationMoves ==
  ASSUME DataTypeOK, NEW i \in Creations, Written(i), CreationStep(i)
  PROVE  /\ DataTypeOK'
         /\ Written(i)'
         /\ UNCHANGED <<cache, number, cached, nested, before, expired>>
         /\ \A r \in (Drafts \cup Creations) \ {i} : pc'[r] = pc[r]
         /\ \A j \in Creations \ {i} : /\ invoices'[j] = invoices[j] /\ mail'[j] = mail[j]
                                       /\ j \in premarked' <=> j \in premarked
<1> DEFINE Becomes(items, marked) ==
             /\ Stored(invoices'[i], items, marked)
             /\ invoices' \in [Creations -> Row \cup {Absent}]
             /\ \A j \in Creations \ {i} : invoices'[j] = invoices[j]
<1>0. invoices \in [Creations -> Row \cup {Absent}]
  BY DEF DataTypeOK
<1>s. ASSUME SaveInvoice(i)
      PROVE  /\ Becomes(FALSE, i \in premarked')
             /\ premarked' \subseteq Creations
             /\ \A j \in Creations \ {i} : j \in premarked' <=> j \in premarked
  <2>1. PICK status \in BOOLEAN : SaveRow(i, status)
    BY <1>s DEF SaveInvoice
  <2> DEFINE new == [status |-> status, items |-> FALSE]
  <2>2. new \in Row /\ new.items = FALSE /\ new.status = status
    BY DEF Row
  <2>3. invoices' = [invoices EXCEPT ![i] = new]
        /\ premarked' = premarked \cup {c \in {i} : status = TRUE}
    BY <2>1 DEF SaveRow
  <2> HIDE DEF new
  <2>4. i \notin premarked /\ premarked \subseteq Creations
    BY <1>s DEF SaveInvoice, GoTo, Written, DataTypeOK
  <2>5. i \in premarked' <=> status = TRUE
    BY <2>3, <2>4
  <2>6. /\ invoices'[i] = new /\ invoices' \in [Creations -> Row \cup {Absent}]
        /\ \A j \in Creations \ {i} : invoices'[j] = invoices[j]
    BY <1>0, <2>2, <2>3
  <2>7. Stored(new, FALSE, i \in premarked')
    BY <2>2, <2>5 DEF Stored
  <2>8. QED
    BY <2>3, <2>4, <2>6, <2>7
<1>a. ASSUME SaveItems(i) PROVE Becomes(TRUE, i \in premarked)
  <2> DEFINE new == [invoices[i] EXCEPT !.items = TRUE]
  <2>0. Stored(invoices[i], FALSE, i \in premarked)
    BY <1>a DEF SaveItems, GoTo, Written
  <2>1. Stored(new, TRUE, i \in premarked)
    BY <2>0 DEF Row, Stored
  <2>2. invoices' = [invoices EXCEPT ![i] = new]
    BY <1>a DEF SaveItems
  <2> HIDE DEF new
  <2>3. QED
    BY <1>0, <2>1, <2>2 DEF Stored
<1>b. ASSUME UpdateInvoice(i) PROVE Becomes(TRUE, TRUE)
  <2> DEFINE new == [invoices[i] EXCEPT !.status = TRUE]
  <2>0. Stored(invoices[i], TRUE, i \in premarked)
    BY <1>b DEF UpdateInvoice, GoTo, Written
  <2>1. Stored(new, TRUE, TRUE)
    BY <2>0 DEF Row, Stored
  <2>2. invoices' = [invoices EXCEPT ![i] = new]
    BY <1>b DEF UpdateInvoice
  <2> HIDE DEF new
  <2>3. QED
    BY <1>0, <2>1, <2>2 DEF Stored
<1> USE InvoicesAssumption DEF DataTypeOK, Written, DraftLabels, CreationLabels, GoTo,
                               draftVars, Row
<1>1. CASE Create(i)
  BY <1>1 DEF Create
<1>2. CASE FindCompany(i)
  BY <1>2 DEF FindCompany
<1>3. CASE CreatePdf(i)
  BY <1>3 DEF CreatePdf
<1>4. CASE Begin(i)
  BY <1>4 DEF Begin
<1>5. CASE SaveInvoice(i)
  <2>1. /\ pc[i] = "save_invoice" /\ pc' = [pc EXCEPT ![i] = "save_items"]
        /\ mail' = mail /\ mail[i] = "none"
        /\ UNCHANGED <<cache, pdfs, number, cached, nested, before, expired>>
    BY <1>5 DEF SaveInvoice
  <2>2. Written(i)'
    BY <1>5, <1>s, <2>1 DEF Stored
  <2>3. DataTypeOK'
    BY <1>5, <1>s, <2>1
  <2>4. QED
    BY <1>5, <1>s, <2>1, <2>2, <2>3
<1>6. CASE SaveItems(i)
  <2>1. /\ pc[i] = "save_items" /\ pc' = [pc EXCEPT ![i] = "update_invoice"]
        /\ mail' = [mail EXCEPT ![i] = "sending"]
        /\ UNCHANGED <<cache, premarked, pdfs, number, cached, nested, before, expired>>
    BY <1>6 DEF SaveItems
  <2>2. Written(i)'
    BY <1>6, <1>a, <2>1, WrittenItems
  <2>3. DataTypeOK'
    BY <1>6, <1>a, <2>1
  <2>4. QED
    BY <1>6, <1>a, <2>1, <2>2, <2>3
<1>7. CASE UpdateInvoice(i)
  <2>1. /\ pc[i] = "update_invoice" /\ pc' = [pc EXCEPT ![i] = "commit"]
        /\ mail' = mail /\ mail[i] # "none"
        /\ UNCHANGED <<cache, premarked, pdfs, number, cached, nested, before, expired>>
    BY <1>7 DEF UpdateInvoice
  <2>2. Written(i)'
    BY <1>7, <1>b, <2>1, WrittenItems
  <2>3. DataTypeOK'
    BY <1>7, <1>b, <2>1
  <2>4. QED
    BY <1>7, <1>b, <2>1, <2>2, <2>3
<1>8. CASE Commit(i)
  BY <1>8 DEF Commit
<1>9. CASE Rollback(i)
  BY <1>9 DEF Rollback
<1>10. CASE FailBeforeTry(i)
  BY <1>10 DEF FailBeforeTry
<1>11. CASE FailInTry(i)
  BY <1>11 DEF FailInTry, Statements, InTry
<1>12. QED
  BY <1>1, <1>2, <1>3, <1>4, <1>5, <1>6, <1>7, <1>8, <1>9, <1>10, <1>11
     DEF CreationStep

\* A creation in its place still has a file after a step of another request.
LEMMA FiledKept ==
  ASSUME NEW i \in Creations, Filed(i), UNCHANGED <<number, pdfs>>,
         Printed \subseteq Printed', pc'[i] \in {pc[i], "dead"}
  PROVE  Filed(i)'
BY DEF Filed

\* A step of i leaves every number its file, or makes it the file of i.
LEMMA FilesMove ==
  ASSUME DataTypeOK, NEW i \in Creations, CreationStep(i)
  PROVE  /\ Printed \subseteq Printed'
         /\ \/ pdfs' = pdfs
            \/ pdfs' = [pdfs EXCEPT ![number[i]] = i] /\ i \in Printed'
<1> USE DEF CreationStep, DataTypeOK, GoTo, Printed
<1>1. CASE CreatePdf(i)
  BY <1>1 DEF CreatePdf
<1>2. CASE FailBeforeTry(i) \/ FailInTry(i)
  <2>1. pdfs' = pdfs /\ pc[i] \notin {"new", "forbidden"}
        /\ pc' \in {[pc EXCEPT ![i] = "error"], [pc EXCEPT ![i] = "rollback"]}
    BY <1>2 DEF FailBeforeTry, FailInTry, Statements, InTry
  <2>2. QED
    BY <2>1
<1>3. CASE \/ Create(i) \/ FindCompany(i) \/ Begin(i) \/ SaveInvoice(i) \/ SaveItems(i)
           \/ UpdateInvoice(i) \/ Commit(i) \/ Rollback(i)
  <2>1. pdfs' = pdfs
    BY <1>3 DEF Create, FindCompany, Begin, SaveInvoice, SaveItems, UpdateInvoice, Commit,
                Rollback
  <2>2. \/ pc[i] = "new"
        \/ pc[i] = "find_company"
        \/ pc' \in {[pc EXCEPT ![i] = "save_invoice"], [pc EXCEPT ![i] = "save_items"],
                    [pc EXCEPT ![i] = "update_invoice"], [pc EXCEPT ![i] = "commit"],
                    [pc EXCEPT ![i] = "created"], [pc EXCEPT ![i] = "failed"]}
    BY <1>3 DEF Create, FindCompany, Begin, SaveInvoice, SaveItems, UpdateInvoice, Commit,
                Rollback
  <2>3. \A j \in Creations \ {i} : pc'[j] = pc[j]
    BY <1>3 DEF Create, FindCompany, Begin, SaveInvoice, SaveItems, UpdateInvoice, Commit,
                Rollback
  <2>4. QED
    BY <2>1, <2>2, <2>3
<1>4. QED
  BY <1>1, <1>2, <1>3

\* Where i comes from when it is past createPdf.
LEMMA FiledBefore ==
  ASSUME DataTypeOK, NEW i \in Creations, CreationStep(i), ~ CreatePdf(i),
         pc'[i] \in {"connect", "save_invoice", "save_items", "update_invoice", "commit",
                     "created"}
  PROVE  pc[i] \in {"connect", "save_invoice", "save_items", "update_invoice", "commit"}
         /\ pdfs' = pdfs
BY DEF CreationStep, DataTypeOK, GoTo, Create, FindCompany, Begin, SaveInvoice, SaveItems,
       UpdateInvoice, Commit, Rollback, FailBeforeTry, FailInTry, Statements, InTry

\* Whoever moves, the file of the number is that of a creation of that number.
LEMMA FiledStep ==
  ASSUME DataTypeOK, NEW i \in Creations, CreationStep(i), number' = number,
         \A r \in (Drafts \cup Creations) \ {i} : pc'[r] = pc[r],
         NEW j \in Creations, Filed(j)
  PROVE  Filed(j)'
<1>0. /\ Printed \subseteq Printed'
      /\ \/ pdfs' = pdfs
         \/ pdfs' = [pdfs EXCEPT ![number[i]] = i] /\ i \in Printed'
  BY FilesMove
<1>1. CASE CreatePdf(i) /\ j = i
  <2>1. pdfs' = [pdfs EXCEPT ![number[i]] = i] /\ pc'[i] = "connect"
    BY <1>1 DEF CreatePdf, GoTo, DataTypeOK
  <2>2. i \in Printed' /\ pdfs'[number[i]] = i
    BY <2>1 DEF Printed, DataTypeOK
  <2>3. QED
    BY <1>1, <2>2 DEF Filed
<1>2. CASE ~ CreatePdf(i) /\ j = i
  BY <1>0, <1>2, FiledBefore DEF Filed
<1>3. CASE j # i
  <2>1. pc'[j] = pc[j] /\ number[j] \in Numbers
    BY <1>3 DEF DataTypeOK
  <2>2. CASE pdfs' = pdfs
    BY <1>0, <2>1, <2>2 DEF Filed
  <2>3. CASE pdfs' = [pdfs EXCEPT ![number[i]] = i] /\ i \in Printed'
    <3>1. \/ pdfs'[number[j]] = pdfs[number[j]]
          \/ number[j] = number[i] /\ pdfs'[number[j]] = i
      BY <2>1, <2>3 DEF DataTypeOK
    <3>2. i \in Printed' /\ Printed \subseteq Printed'
      BY <1>0, <2>3
    <3>3. QED
      BY <2>1, <3>1, <3>2, <1>3 DEF Filed
  <2>4. QED
    BY <1>0, <2>2, <2>3
<1>4. QED
  BY <1>1, <1>2, <1>3

\* The data after any step.
LEMMA DataStep ==
  ASSUME Data,
         \/ \E d \in Drafts : DraftStep(d)
         \/ \E i \in Creations : CreationStep(i) \/ SendMail(i)
         \/ \E n \in Numbers : Expire(n)
         \/ InvoicesDie
         \/ UNCHANGED invoiceVars
  PROVE  Data'
<1>0. /\ DataTypeOK
      /\ \A i \in Creations : Written(i) /\ Filed(i)
      /\ \A d \in Drafts : Drafted(d)
  BY DEF Data
<1>1. ASSUME NEW d \in Drafts, DraftStep(d) PROVE Data'
  <2>1. ASSUME NEW i \in Creations PROVE Written(i)' /\ Filed(i)'
    <3>1. /\ UNCHANGED <<invoices, premarked, pdfs, mail>>
          /\ \A c \in Creations : pc'[c] = pc[c] /\ number'[c] = number[c]
      BY <1>0, <1>1, DraftMoves, InvoicesAssumption
    <3>2. Printed' = Printed /\ Printed \subseteq Creations
      BY <3>1 DEF Printed
    <3>3. Written(i)'
      BY <1>0, <3>1 DEF Written, Stored
    <3>4. Filed(i)'
      BY <1>0, <3>1, <3>2 DEF Filed
    <3>5. QED
      BY <3>3, <3>4
  <2>2. QED
    BY <1>0, <1>1, <2>1, DraftMoves, DraftedStep DEF Data
<1>2. ASSUME NEW i \in Creations, CreationStep(i) PROVE Data'
  <2>1. ASSUME NEW j \in Creations \ {i} PROVE Written(j)'
    <3>1. /\ pc'[j] = pc[j] /\ invoices'[j] = invoices[j] /\ mail'[j] = mail[j]
          /\ j \in premarked' <=> j \in premarked
      BY <1>0, <1>2, CreationMoves
    <3>2. QED
      BY <1>0, <3>1 DEF Written, Stored
  <2>2. ASSUME NEW d \in Drafts PROVE Drafted(d)'
    BY <1>0, <1>2, CreationMoves, InvoicesAssumption DEF Drafted, DataTypeOK
  <2>3. ASSUME NEW j \in Creations PROVE Filed(j)'
    BY <1>0, <1>2, CreationMoves, FiledStep
  <2>4. QED
    BY <1>0, <1>2, <2>1, <2>2, <2>3, CreationMoves DEF Data
<1>3. ASSUME NEW i \in Creations, SendMail(i) PROVE Data'
  BY <1>0, <1>3 DEF SendMail, Data, DataTypeOK, Written, Stored, Filed, Printed, Drafted,
                    draftVars
<1>4. ASSUME NEW n \in Numbers, Expire(n) PROVE Data'
  BY <1>0, <1>4 DEF Expire, Data, DataTypeOK, Written, Stored, Filed, Printed, Drafted,
                    draftVars
<1>5. CASE InvoicesDie
  <2>1. DataTypeOK'
    BY <1>0, <1>5 DEF InvoicesDie, DataTypeOK, draftVars, DraftLabels, CreationLabels, Answers
  <2>2. ASSUME NEW i \in Creations PROVE Written(i)'
    BY <1>0, <1>5 DEF InvoicesDie, DataTypeOK, Written, Stored, draftVars, CreationLabels,
                      Answers
  <2>3. ASSUME NEW d \in Drafts PROVE Drafted(d)'
    BY <1>0, <1>5 DEF InvoicesDie, DataTypeOK, Drafted, draftVars, DraftLabels, Answers
  <2>4. ASSUME NEW i \in Creations PROVE Filed(i)'
    <3>1. /\ UNCHANGED <<number, pdfs>>
          /\ \A c \in Creations : pc'[c] \in {pc[c], "dead"}
      BY <1>0, <1>5 DEF InvoicesDie, DataTypeOK
    <3>2. Printed \subseteq Printed'
      BY <3>1 DEF Printed
    <3>3. QED
      BY <1>0, <3>1, <3>2, FiledKept
  <2>5. QED
    BY <2>1, <2>2, <2>3, <2>4 DEF Data
<1>6. CASE UNCHANGED invoiceVars
  BY <1>0, <1>6 DEF invoiceVars, Data, DataTypeOK, Written, Stored, Filed, Printed, Drafted
<1>7. QED
  BY <1>1, <1>2, <1>3, <1>4, <1>5, <1>6

-----------------------------------------------------------------------------
(* The clients.                                                            *)

\* Where the tickets of r are, by the await at which it is suspended.
Place(r) ==
  /\ pc[r] \in {"new", "find_company", "create_pdf", "forbidden", "dead"} => ~ Holds(Tx(r))
  /\ pc[r] \in InTry => Holds(Tx(r))
  /\ pc[r] \in {"created", "failed"} => Holds(Tx(r)) \/ crashes > 0
  /\ pc[r] # "connect" => ~ Queued(Tx(r))
  /\ IF pc[r] \in Statements
     THEN Holds(Stmt(r)) \/ Queued(Stmt(r))
     ELSE ~ Holds(Stmt(r)) /\ ~ Queued(Stmt(r))

\* What a step of r does to the pool is not seen by another request.
OnlyOf(r) == \A u \in Ticket \ {Tx(r), Stmt(r)} :
               /\ Holds(u)' <=> Holds(u)
               /\ Queued(u)' <=> Queued(u)

\* A request that does not move stays in its place.
LEMMA OthersStay ==
  ASSUME NEW r \in Drafts \cup Creations, NEW s \in (Drafts \cup Creations) \ {r},
         OnlyOf(r), pc'[s] = pc[s], UNCHANGED crashes, Place(s)
  PROVE  Place(s)'
<1>1. /\ Tx(s) \in Ticket \ {Tx(r), Stmt(r)}
      /\ Stmt(s) \in Ticket \ {Tx(r), Stmt(r)}
  BY Tickets, TicketsDiffer, InvoicesAssumption
<1>2. /\ Holds(Tx(s))' <=> Holds(Tx(s))
      /\ Queued(Tx(s))' <=> Queued(Tx(s))
      /\ Holds(Stmt(s))' <=> Holds(Stmt(s))
      /\ Queued(Stmt(s))' <=> Queued(Stmt(s))
  BY <1>1 DEF OnlyOf
<1>3. QED
  BY <1>2 DEF Place

\* A request that asks for the client of its next statement.
LEMMA PlaceAsked ==
  ASSUME PoolInv, NEW r \in Drafts \cup Creations, Place(r), UNCHANGED crashes,
         Ask(Stmt(r)),
         \/ pc[r] = "get_number" /\ pc'[r] = "find_invoice"
         \/ pc[r] = "new" /\ pc'[r] = "find_company"
         \/ pc[r] = "connect" /\ pc'[r] = "save_invoice" /\ Holds(Tx(r))
  PROVE  PoolInv' /\ OnlyOf(r) /\ Place(r)'
<1>1. Tx(r) \in Ticket /\ Stmt(r) \in Ticket /\ Tx(r) # Stmt(r)
  BY Tickets, InvoicesAssumption
<1>2. ~ Holds(Stmt(r)) /\ ~ Queued(Stmt(r)) /\ ~ Queued(Tx(r))
  BY <1>1 DEF Place, PoolInv, InPoolOnce, Statements
<1>3. QED
  BY <1>1, <1>2, Asking DEF Place, OnlyOf, Statements, InTry

\* A request whose statement is over, and that needs no other next.
LEMMA PlaceReturned ==
  ASSUME PoolInv, NEW r \in Drafts \cup Creations, Place(r), UNCHANGED crashes,
         Return(Stmt(r)), Holds(Stmt(r)), pc[r] \in Statements,
         \/ pc'[r] \in {"get_number", "set_number", "error"}
         \/ pc[r] = "find_company" /\ pc'[r] = "create_pdf"
         \/ pc[r] \in InTry /\ pc'[r] \in {"commit", "rollback"}
  PROVE  PoolInv' /\ OnlyOf(r) /\ Place(r)'
<1>1. Tx(r) \in Ticket /\ Stmt(r) \in Ticket /\ Tx(r) # Stmt(r)
  BY Tickets, InvoicesAssumption
<1>2. ~ Queued(Stmt(r))
  BY <1>1 DEF PoolInv, InPoolOnce
<1>3. QED
  BY <1>1, <1>2, Returning DEF Place, OnlyOf, Statements, InTry

\* A request whose statement is over, and that asks for another client.
LEMMA PlaceAskedAgain ==
  ASSUME PoolInv, NEW r \in Drafts \cup Creations, Place(r), UNCHANGED crashes,
         ReturnAndAsk(Stmt(r), Stmt(r)), Holds(Stmt(r)),
         pc[r] \in InTry, pc'[r] \in {"save_items", "update_invoice"}
  PROVE  PoolInv' /\ OnlyOf(r) /\ Place(r)'
<1>1. Tx(r) \in Ticket /\ Stmt(r) \in Ticket /\ Tx(r) # Stmt(r)
  BY Tickets, InvoicesAssumption
<1>2. QED
  BY <1>1, ReturningAndAsking DEF Place, OnlyOf, Statements, InTry

\* A request that neither takes nor gives: in the end it keeps its client.
LEMMA PlaceKept ==
  ASSUME PoolInv, NEW r \in Drafts \cup Creations, Place(r), UNCHANGED <<poolVars, crashes>>,
         \/ pc[r] = "new" /\ pc'[r] \in {"get_number", "forbidden"}
         \/ pc[r] = "set_number" /\ pc'[r] \in {"drafted", "empty"}
         \/ pc[r] \in {"get_number", "set_number", "create_pdf"} /\ pc'[r] = "error"
         \/ pc[r] = "connect" /\ pc'[r] = "error" /\ Holds(Tx(r))
         \/ pc[r] = "commit" /\ pc'[r] \in {"created", "rollback"}
         \/ pc[r] = "rollback" /\ pc'[r] = "failed"
  PROVE  PoolInv' /\ OnlyOf(r) /\ Place(r)'
<1>1. Tx(r) \in Ticket /\ Stmt(r) \in Ticket /\ Tx(r) # Stmt(r)
  BY Tickets, InvoicesAssumption
<1>2. Holds(Tx(r)) => ~ Queued(Tx(r))
  BY <1>1 DEF PoolInv, InPoolOnce
<1>3. QED
  BY <1>1, <1>2, PoolUnchanged DEF Place, OnlyOf, Statements, InTry

\* An error before the try: only that of BEGIN may give the client back.
LEMMA PlaceFailsBeforeTry ==
  ASSUME DataTypeOK, PoolInv, NEW r \in Drafts \cup Creations, Place(r), FailBeforeTry(r),
         UNCHANGED crashes
  PROVE  PoolInv' /\ OnlyOf(r) /\ Place(r)'
<1> USE DEF DataTypeOK, GoTo
<1>1. CASE UNCHANGED poolVars
  <2>1. pc'[r] = "error" /\ \/ pc[r] \in {"get_number", "set_number", "create_pdf"}
                            \/ pc[r] = "connect" /\ Holds(Tx(r))
                            \/ Return(Stmt(r)) /\ pc[r] \in Statements /\ Holds(Stmt(r))
    BY <1>1 DEF FailBeforeTry, Statements
  <2>2. QED
    BY <1>1, <2>1, PlaceKept, PlaceReturned
<1>2. CASE /\ Holds(Stmt(r)) /\ Return(Stmt(r))
           /\ \E await \in {"find_invoice", "find_company"} : GoTo(r, await, "error")
  BY <1>2, PlaceReturned DEF Statements
<1>3. CASE Holds(Tx(r)) /\ GoTo(r, "connect", "error") /\ Return(Tx(r))
  <2>1. Tx(r) \in Ticket /\ Stmt(r) \in Ticket /\ Tx(r) # Stmt(r)
    BY Tickets, InvoicesAssumption
  <2>2. ~ Queued(Tx(r)) /\ ~ Queued(Stmt(r)) /\ ~ Holds(Stmt(r))
    BY <1>3, <2>1 DEF Place, PoolInv, InPoolOnce, Statements
  <2>3. QED
    BY <1>3, <2>1, <2>2, Returning DEF Place, OnlyOf, Statements, InTry
<1>4. QED
  BY <1>1, <1>2, <1>3 DEF FailBeforeTry

\* Each step of a draft takes it to the place of its next await.
LEMMA DraftPlace ==
  ASSUME DataTypeOK, PoolInv, NEW d \in Drafts, Place(d), DraftStep(d), UNCHANGED crashes
  PROVE  PoolInv' /\ OnlyOf(d) /\ Place(d)'
<1> USE DEF DataTypeOK, GoTo
<1>1. CASE GetId(d)
  <2>1. pc[d] = "new" /\ pc'[d] = "get_number" /\ UNCHANGED poolVars
    BY <1>1 DEF GetId
  <2>2. QED
    BY <2>1, PlaceKept
<1>2. CASE GetNumber(d)
  <2>1. pc[d] = "get_number" /\ pc'[d] = "find_invoice" /\ Ask(Stmt(d))
    BY <1>2 DEF GetNumber
  <2>2. QED
    BY <2>1, PlaceAsked
<1>3. CASE FindInvoice(d)
  <2>1. /\ pc[d] = "find_invoice" /\ pc'[d] \in {"get_number", "set_number"}
        /\ Holds(Stmt(d)) /\ Return(Stmt(d))
    BY <1>3 DEF FindInvoice
  <2>2. QED
    BY <2>1, PlaceReturned DEF Statements
<1>4. CASE SetNumber(d)
  <2>1. pc[d] = "set_number" /\ pc'[d] \in {"drafted", "empty"} /\ UNCHANGED poolVars
    BY <1>4 DEF SetNumber
  <2>2. QED
    BY <2>1, PlaceKept
<1>5. CASE FailBeforeTry(d)
  BY <1>5, PlaceFailsBeforeTry
<1>6. CASE FailInTry(d)
  BY <1>6 DEF FailInTry, DraftLabels, Statements, InTry
<1>7. QED
  BY <1>1, <1>2, <1>3, <1>4, <1>5, <1>6 DEF DraftStep

\* The same for a creation.
LEMMA CreationPlace ==
  ASSUME DataTypeOK, PoolInv, NEW i \in Creations, Place(i), CreationStep(i),
         UNCHANGED crashes
  PROVE  PoolInv' /\ OnlyOf(i) /\ Place(i)'
<1> USE DEF DataTypeOK, GoTo
<1>1. CASE Create(i)
  <2>1. /\ pc[i] = "new"
        /\ \/ pc'[i] = "forbidden" /\ UNCHANGED poolVars
           \/ pc'[i] = "find_company" /\ Ask(Stmt(i))
    BY <1>1 DEF Create
  <2>2. QED
    BY <2>1, PlaceKept, PlaceAsked
<1>2. CASE FindCompany(i)
  <2>1. /\ pc[i] = "find_company" /\ pc'[i] = "create_pdf"
        /\ Holds(Stmt(i)) /\ Return(Stmt(i))
    BY <1>2 DEF FindCompany
  <2>2. QED
    BY <2>1, PlaceReturned DEF Statements
<1>3. CASE CreatePdf(i)
  <2>1. pc[i] = "create_pdf" /\ pc'[i] = "connect" /\ Ask(Tx(i))
    BY <1>3 DEF CreatePdf
  <2>2. /\ Tx(i) \in Ticket /\ Stmt(i) \in Ticket /\ Tx(i) # Stmt(i)
        /\ ~ Holds(Tx(i)) /\ ~ Queued(Tx(i))
    BY <2>1, Tickets, InvoicesAssumption DEF Place
  <2>3. QED
    BY <2>1, <2>2, Asking DEF Place, OnlyOf, Statements, InTry
<1>4. CASE Begin(i)
  <2>1. pc[i] = "connect" /\ pc'[i] = "save_invoice" /\ Holds(Tx(i)) /\ Ask(Stmt(i))
    BY <1>4 DEF Begin
  <2>2. QED
    BY <2>1, PlaceAsked
<1>5. CASE SaveInvoice(i) \/ SaveItems(i)
  <2>1. /\ pc[i] \in InTry /\ pc'[i] \in {"save_items", "update_invoice"}
        /\ Holds(Stmt(i)) /\ ReturnAndAsk(Stmt(i), Stmt(i))
    BY <1>5 DEF SaveInvoice, SaveItems, InTry
  <2>2. QED
    BY <2>1, PlaceAskedAgain
<1>6. CASE UpdateInvoice(i)
  <2>1. /\ pc[i] = "update_invoice" /\ pc'[i] = "commit"
        /\ Holds(Stmt(i)) /\ Return(Stmt(i))
    BY <1>6 DEF UpdateInvoice
  <2>2. QED
    BY <2>1, PlaceReturned DEF Statements, InTry
<1>7. CASE Commit(i) \/ Rollback(i)
  <2>1. /\ \/ pc[i] = "commit" /\ pc'[i] = "created"
           \/ pc[i] = "rollback" /\ pc'[i] = "failed"
        /\ UNCHANGED poolVars
    BY <1>7 DEF Commit, Rollback
  <2>2. QED
    BY <2>1, PlaceKept
<1>8. CASE FailBeforeTry(i)
  BY <1>8, PlaceFailsBeforeTry
<1>9. CASE FailInTry(i)
  <2>1. /\ pc'[i] = "rollback"
        /\ \/ /\ pc[i] \in Statements /\ pc[i] \in InTry
              /\ Holds(Stmt(i)) /\ Return(Stmt(i))
           \/ pc[i] = "commit" /\ UNCHANGED poolVars
    BY <1>9 DEF FailInTry
  <2>2. QED
    BY <2>1, PlaceKept, PlaceReturned
<1>10. QED
  BY <1>1, <1>2, <1>3, <1>4, <1>5, <1>6, <1>7, <1>8, <1>9 DEF CreationStep

\* A granted client changes "waits" into "has" for one ticket.
LEMMA PlaceGrant ==
  ASSUME PoolInv, NEW r \in Drafts \cup Creations, Place(r), Grant, UNCHANGED <<pc, crashes>>
  PROVE  Place(r)'
<1>1. Tx(r) \in Ticket /\ Stmt(r) \in Ticket
  BY Tickets, InvoicesAssumption
<1>2. PICK t \in Ticket :
        /\ Queued(t)
        /\ \A u \in Ticket : /\ Holds(u)' <=> Holds(u) \/ u = t
                             /\ Queued(u)' <=> Queued(u) /\ u # t
  BY Granting
<1>3. pc[r] # "connect" => (Holds(Tx(r))' <=> Holds(Tx(r)))
  BY <1>1, <1>2 DEF Place
<1>4. /\ ~ Queued(Tx(r)) => ~ Queued(Tx(r))'
      /\ Holds(Stmt(r)) \/ Queued(Stmt(r)) <=> Holds(Stmt(r))' \/ Queued(Stmt(r))'
  BY <1>1, <1>2
<1>5. QED
  BY <1>3, <1>4 DEF Place, Statements, InTry

-----------------------------------------------------------------------------
(* The theorems.                                                           *)

IInv == /\ Data
        /\ PoolInv
        /\ \A r \in Drafts \cup Creations : Place(r)
        /\ faults \in 0 .. MaxFaults
        /\ crashes \in 0 .. MaxCrashes

\* Nothing has begun.
LEMMA InvInit == Init => IInv
<1> SUFFICES ASSUME Init PROVE IInv
  OBVIOUS
<1> USE InvoicesAssumption DEF Init, InvoicesInit
<1>1. PoolInv /\ \A t \in Ticket : ~ Holds(t) /\ ~ Queued(t)
  BY FreshPool
<1>2. DataTypeOK
  BY DEF DataTypeOK, DraftLabels, CreationLabels
<1>3. \A i \in Creations : Written(i) /\ Filed(i)
  BY DEF Written, Filed
<1>4. \A d \in Drafts : Drafted(d)
  BY DEF Drafted
<1>5. \A r \in Drafts \cup Creations : Place(r)
  BY <1>1, Tickets DEF Place, Statements, InTry
<1>6. QED
  BY <1>1, <1>2, <1>3, <1>4, <1>5 DEF IInv, Data

\* Data, pool and places, for each kind of step.
LEMMA InvNext == IInv /\ [Next]_vars => IInv'
<1> SUFFICES ASSUME IInv, [Next]_vars PROVE IInv'
  OBVIOUS
<1>0. /\ Data /\ DataTypeOK /\ PoolInv
      /\ \A r \in Drafts \cup Creations : Place(r)
      /\ faults \in 0 .. MaxFaults /\ crashes \in 0 .. MaxCrashes
  BY DEF IInv, Data
<1>1. ASSUME UNCHANGED crashes,
             faults' = faults \/ (faults < MaxFaults /\ faults' = faults + 1)
      PROVE  faults' \in 0 .. MaxFaults /\ crashes' \in 0 .. MaxCrashes
  BY <1>0, <1>1, InvoicesAssumption
<1>2. ASSUME NEW r \in Drafts \cup Creations, PoolInv' /\ OnlyOf(r) /\ Place(r)',
             \A s \in (Drafts \cup Creations) \ {r} : pc'[s] = pc[s],
             UNCHANGED crashes
      PROVE  \A s \in Drafts \cup Creations : Place(s)'
  BY <1>0, <1>2, OthersStay
<1>3. ASSUME NEW d \in Drafts, DraftStep(d), UNCHANGED crashes,
             faults' = faults \/ (faults < MaxFaults /\ faults' = faults + 1)
      PROVE  IInv'
  <2>1. Data' /\ \A s \in (Drafts \cup Creations) \ {d} : pc'[s] = pc[s]
    BY <1>0, <1>3, DataStep, DraftMoves
  <2>2. PoolInv' /\ OnlyOf(d) /\ Place(d)'
    BY <1>0, <1>3, DraftPlace
  <2>3. QED
    BY <1>1, <1>2, <1>3, <2>1, <2>2 DEF IInv
<1>4. ASSUME NEW i \in Creations, CreationStep(i), UNCHANGED crashes,
             faults' = faults \/ (faults < MaxFaults /\ faults' = faults + 1)
      PROVE  IInv'
  <2>1. Data' /\ \A s \in (Drafts \cup Creations) \ {i} : pc'[s] = pc[s]
    BY <1>0, <1>4, DataStep, CreationMoves DEF Data
  <2>2. PoolInv' /\ OnlyOf(i) /\ Place(i)'
    BY <1>0, <1>4, CreationPlace
  <2>3. QED
    BY <1>1, <1>2, <1>4, <2>1, <2>2 DEF IInv
<1>5. ASSUME UNCHANGED <<pc, poolVars, crashes>>
      PROVE  PoolInv' /\ \A r \in Drafts \cup Creations : Place(r)'
  BY <1>0, <1>5, PoolUnchanged, Tickets, InvoicesAssumption DEF Place
<1>6. ASSUME (\E i \in Creations : SendMail(i)) \/ (\E n \in Numbers : Expire(n)),
             UNCHANGED crashes,
             faults' = faults \/ (faults < MaxFaults /\ faults' = faults + 1)
      PROVE  IInv'
  <2>1. Data' /\ UNCHANGED <<pc, poolVars>>
    BY <1>0, <1>6, DataStep DEF SendMail, Expire
  <2>2. QED
    BY <1>1, <1>5, <1>6, <2>1 DEF IInv
<1>7. CASE Grant /\ UNCHANGED <<invoiceVars, faults, crashes>>
  <2>1. Data' /\ UNCHANGED pc
    BY <1>0, <1>7, DataStep DEF invoiceVars
  <2>2. PoolInv' /\ \A r \in Drafts \cup Creations : Place(r)'
    BY <1>0, <1>7, <2>1, Granting, PlaceGrant
  <2>3. QED
    BY <1>0, <1>7, <2>1, <2>2 DEF IInv
<1>8. CASE Crash
  <2>1. Data'
    BY <1>0, <1>8, DataStep DEF Crash
  <2>2. PoolInv' /\ \A t \in Ticket : ~ Holds(t)' /\ ~ Queued(t)'
    BY <1>8, ResetEmpties DEF Crash
  <2>3. crashes' > 0 /\ crashes' \in 0 .. MaxCrashes /\ faults' \in 0 .. MaxFaults
    BY <1>0, <1>8, InvoicesAssumption DEF Crash
  <2>4. \A r \in Drafts \cup Creations : pc'[r] \in Answers \cup {"new"}
    BY <1>8 DEF Crash, InvoicesDie, Answers
  <2>5. \A r \in Drafts \cup Creations : Place(r)'
    BY <2>2, <2>3, <2>4, Tickets, InvoicesAssumption DEF Place, Answers, Statements, InTry
  <2>6. QED
    BY <2>1, <2>2, <2>3, <2>5 DEF IInv
<1>9. CASE UNCHANGED vars
  <2>1. Data' /\ UNCHANGED <<pc, poolVars, crashes, faults>>
    BY <1>0, <1>9, DataStep DEF vars, invoiceVars, poolVars
  <2>2. QED
    BY <1>0, <1>5, <2>1 DEF IInv
<1>10. QED
  BY <1>3, <1>4, <1>6, <1>7, <1>8, <1>9, Steps

\* Each reachable state satisfies the invariant.
LEMMA InvHolds == Spec => []IInv
BY InvInit, InvNext, PTL DEF Spec

\* Cache, tables, files, mails, the locals of every request and the pool keep
\* their types.
THEOREM InvoicesTypes == Spec => []TypeOK
<1>1. IInv => TypeOK
  <2>1. DraftLabels \cup CreationLabels \subseteq
          {"new", "get_number", "set_number", "create_pdf", "connect"}
            \cup Statements \cup InTry \cup Answers
    BY DEF DraftLabels, CreationLabels, Statements, InTry, Answers
  <2>2. QED
    BY <2>1 DEF IInv, Data, DataTypeOK, PoolInv, TypeOK
<1>2. QED
  BY <1>1, InvHolds, PTL

\* Row, mail and file of a creation are what its answer says, and only its body
\* can have marked it early, for any number of creations, failing calls and
\* restarts.
THEOREM RowsAreAccounted == Spec => []RowsAccounted
<1>1. IInv => RowsAccounted
  <2>1. SUFFICES ASSUME IInv, NEW i \in Creations
        PROVE  /\ pc[i] = "created" =>
                    /\ invoices[i] = [status |-> TRUE, items |-> TRUE]
                    /\ mail[i] # "none"
                    /\ \E j \in Printed : number[j] = number[i] /\ pdfs[number[i]] = j
               /\ pc[i] \in {"new", "forbidden", "error"} => invoices[i] = Absent
               /\ invoices[i] # Absent =>
                    /\ invoices[i].status /\ i \notin premarked =>
                         /\ invoices[i].items
                         /\ pc[i] \in {"commit", "rollback", "created", "failed", "dead"}
                    /\ ~ invoices[i].status =>
                         /\ i \notin premarked
                         /\ pc[i] \in {"save_items", "update_invoice", "rollback",
                                       "failed", "dead"}
                    /\ ~ invoices[i].items =>
                         pc[i] \in {"save_items", "rollback", "failed", "dead"}
    BY DEF RowsAccounted
  <2>2. Written(i) /\ Filed(i) /\ pc[i] \in CreationLabels
    BY <2>1 DEF IInv, Data, DataTypeOK
  <2>3. pc[i] \in {"commit", "created"} =>
          invoices[i] = [status |-> TRUE, items |-> TRUE] /\ mail[i] # "none"
    BY <2>2 DEF Written, Stored, Row
  <2>4. pc[i] \in {"commit", "created"} => invoices[i].status /\ invoices[i].items
    BY <2>2 DEF Written, Stored
  <2>5. pc[i] \in {"save_items", "update_invoice"} =>
          (invoices[i].status <=> i \in premarked)
    BY <2>2 DEF Written, Stored
  <2>6. pc[i] = "update_invoice" => invoices[i].items
    BY <2>2 DEF Written, Stored
  <2>7. pc[i] = "created" =>
          \E j \in Printed : number[j] = number[i] /\ pdfs[number[i]] = j
    BY <2>2 DEF Filed
  <2>8. /\ pc[i] \in {"new", "forbidden", "find_company", "create_pdf", "connect",
                      "save_invoice", "error"} => invoices[i] = Absent
        /\ invoices[i] # Absent =>
             /\ invoices[i].status => invoices[i].items \/ i \in premarked
             /\ i \in premarked => invoices[i].status
    BY <2>2 DEF Written
  <2>9. QED
    BY <2>2, <2>3, <2>4, <2>5, <2>6, <2>7, <2>8 DEF CreationLabels
<1>2. QED
  BY <1>1, InvHolds, PTL

\* Whatever fails or dies, the invoice of a mail is stored with its items.
THEOREM MailsAreStored == Spec => []MailedIsStored
<1>1. IInv => MailedIsStored
  BY DEF IInv, Data, Written, MailedIsStored
<1>2. QED
  BY <1>1, InvHolds, PTL

\* Each answered creation keeps a client of the pool, however large the pool is.
THEOREM ClientsAreAccounted == Spec => []ClientsAccounted
<1>1. IInv => ClientsAccounted
  BY DEF IInv, ClientsAccounted, Place, Statements, InTry
<1>2. QED
  BY <1>1, InvHolds, PTL

\* A number is given again, to a request that began later, only after it has
\* left the cache.
THEOREM NumbersDraftedOnce == Spec => []DraftedOnce
<1>1. IInv => DraftedOnce
  BY DEF IInv, Data, Drafted, DraftedOnce
<1>2. QED
  BY <1>1, InvHolds, PTL

=============================================================================

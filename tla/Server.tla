-------------------------------- MODULE Server --------------------------------
(***************************************************************************)
(* Registrations and invoices in one process of the server.  They share    *)
(* the pool of database connections and nothing else, so what this         *)
(* composition is about is who gets an answer.                             *)
(***************************************************************************)
EXTENDS ConnectionPool, FiniteSets

CONSTANTS Registrations, Emails, Names,         \* of Registration
          OrgIds, NoId,
          Drafts, Creations, Numbers,
          OldNumbers, Absent,                   \* of Invoices
          MaxFaults, MaxCrashes                 \* of both

\* Each request goes to one endpoint, and there were finitely many.
ASSUME ServerAssumption ==
  /\ Registrations \subseteq Requests
  /\ Drafts \subseteq Requests
  /\ Creations \subseteq Requests
  /\ Registrations \cap (Drafts \cup Creations) = {}
  /\ Drafts \cap Creations = {}
  /\ MaxCrashes \in Nat
  /\ IsFiniteSet(Requests)

VARIABLES organizations, administrators, body, found, regPc,
          cache, invoices, pdfs, mail, number, cached, nested, invPc,
          before, expired, premarked, faults, crashes

R == INSTANCE Registration WITH pc <- regPc
I == INSTANCE Invoices WITH pc <- invPc

regVars     == <<organizations, administrators, body, found, regPc>>
invoiceVars == <<cache, invoices, pdfs, mail, number, cached, nested, invPc,
                 before, expired, premarked>>
vars        == <<regVars, invoiceVars, faults, crashes, poolVars>>

Init == /\ R!RegInit
        /\ I!InvoicesInit
        /\ PoolInit
        /\ faults = 0
        /\ crashes = 0

-----------------------------------------------------------------------------
(* One event loop runs all handlers.                                       *)

Registering(step) == step /\ UNCHANGED <<invoiceVars, faults, crashes>>
Invoicing(step)   == step /\ UNCHANGED <<regVars, faults, crashes>>

Arrive == \/ \E r \in Registrations : Registering(R!Register(r))
          \/ \E d \in Drafts : Invoicing(I!GetId(d))
          \/ \E i \in Creations : Invoicing(I!Create(i))

\* What the process does on its own accord: go on with a request, hand out a
\* free client.
Serve == /\ Grant
         /\ UNCHANGED <<regVars, invoiceVars, faults, crashes>>

ContinueRegistration(r) == Registering(R!Continue(r))
ContinueDraft(d)        == Invoicing(I!ContinueDraft(d))
ContinueCreation(i)     == Invoicing(I!ContinueCreation(i))

\* What happens around it.
Environment == \/ \E i \in Creations : Invoicing(I!SendMail(i))
               \/ \E n \in Numbers : Invoicing(I!Expire(n))

Fail == /\ \/ \E r \in Registrations : R!Fail(r) /\ UNCHANGED invoiceVars
           \/ \E r \in Drafts \cup Creations : I!Fail(r) /\ UNCHANGED regVars
        /\ UNCHANGED crashes

Crash == /\ crashes < MaxCrashes
         /\ crashes' = crashes + 1
         /\ R!RegistrationsDie
         /\ I!InvoicesDie
         /\ ResetPool
         /\ UNCHANGED faults

Next == \/ Arrive
        \/ Serve
        \/ \E r \in Registrations : ContinueRegistration(r)
        \/ \E d \in Drafts : ContinueDraft(d)
        \/ \E i \in Creations : ContinueCreation(i)
        \/ Environment
        \/ Fail
        \/ Crash

Spec == Init /\ [][Next]_vars

\* The event loop and the pool do not stop.
Fairness == /\ WF_vars(Serve)
            /\ \A r \in Registrations : WF_vars(ContinueRegistration(r))
            /\ \A d \in Drafts : WF_vars(ContinueDraft(d))
            /\ \A i \in Creations : WF_vars(ContinueCreation(i))

FairSpec == Spec /\ Fairness

-----------------------------------------------------------------------------
(* What a request has and wants of the pool, by the await at which it is.  *)

RegistrationStage(await) ==
  IF await \in {"created", "failed", "dead"} THEN "over"
  ELSE IF await = "forbidden" THEN "kept"
  ELSE IF await = "error" THEN "erred"
  ELSE IF await = "connect" THEN "connects"
  ELSE IF await \in R!Checks \cup R!Inserts THEN "states"
  ELSE IF await \in R!InTry THEN "runs"
  ELSE "idle"

InvoiceStage(await) ==
  IF await \in {"drafted", "empty", "forbidden", "dead"} THEN "over"
  ELSE IF await \in {"created", "failed"} THEN "kept"
  ELSE IF await = "error" THEN "erred"
  ELSE IF await = "connect" THEN "connects"
  ELSE IF await \in I!Statements \cap I!InTry THEN "states"
  ELSE IF await \in I!Statements THEN "looks"
  ELSE IF await \in I!InTry THEN "runs"
  ELSE "idle"

Stage(r) == IF r \in Registrations THEN RegistrationStage(regPc[r])
            ELSE IF r \in Drafts \cup Creations THEN InvoiceStage(invPc[r])
            ELSE "idle"

\* A restart takes back what was kept; an error may come before the queryRunner.
Phase(r) == IF Stage(r) \notin {"kept", "erred"} THEN Stage(r)
            ELSE IF Holds(Tx(r)) THEN "unreleased" ELSE "over"

Pool == INSTANCE PoolUse WITH phase <- [r \in Requests |-> Phase(r)]

-----------------------------------------------------------------------------
(* Properties.                                                             *)

Answered == {r \in Registrations : regPc[r] \in R!Answers}
              \cup {r \in Drafts \cup Creations : invPc[r] \in I!Answers}
Accepted == {r \in Registrations : regPc[r] # "new"}
              \cup {r \in Drafts \cup Creations : invPc[r] # "new"}

NoClientLeft == Exhausted(Answered)

\* Has the client that its await needs, or needs none: the event loop goes on.
CanContinue(r) == /\ r \in Accepted \ Answered
                  /\ Stage(r) = "connects" => Holds(Tx(r))
                  /\ Stage(r) \in {"looks", "states"} => Holds(Stmt(r))

\* The server never stops for another reason than a pool that has run dry: as
\* long as somebody waits for an answer, some request can go on or a client is
\* free for the first in the queue.
NeverStuck ==
  \/ Accepted \subseteq Answered
  \/ NoClientLeft
  \/ \E r \in Requests : CanContinue(r)
  \/ queue # <<>> /\ \E c \in Clients : holder[c] = Free

\* Who can have a client that never comes back: a refused registration, one that
\* failed before its try, an invoice whatever its answer, and both while they wait
\* for their second client.  A draft never, a successful registration never.
Keepers ==
  {r \in Registrations : regPc[r] \in R!Checks \cup R!Inserts
                                       \cup {"forbidden", "error"}}
    \cup {i \in Creations : invPc[i] \in (I!Statements \cap I!InTry)
                                          \cup {"created", "failed", "error"}}

\* Each of them costs the pool one client, however many statements it makes: a
\* pool with more clients than there are such requests does not run dry.
DryTakesAsMany == NoClientLeft => Cardinality(Clients) <= Cardinality(Keepers)

\* Both handlers use the pool in the way that PoolUse describes, and they do so
\* side by side: no step of one touches a client of another request.
PoolSpec == Pool!Spec

\* Every request that was accepted is answered (or dies with the process),
\* unless the pool runs dry, or it is a draft that draws cached numbers again and
\* again: a request waits for ever in no other way, and a draft that goes round
\* does not keep the others from their clients.  The pool runs dry by clients that
\* answered requests never gave back, and by registrations and invoices that hold
\* one client and wait for another.
AnsweredOrExhausted ==
  \A r \in Requests :
    (r \in Accepted)
      ~> (r \in Answered \/ NoClientLeft \/ (r \in Drafts /\ nested[r]))

\* A pool that has run dry stays so until the process is restarted: no waiting
\* request gives up, and no error path frees a client.
ExhaustedForGood == [][NoClientLeft => NoClientLeft' \/ crashes' # crashes]_vars

=============================================================================

--------------------------------- MODULE Calls ---------------------------------
(***************************************************************************)
(* HTTP requests on the event loop, for the handlers that keep no          *)
(* connection between their awaits.  Each request is made once; pc says at *)
(* which await it is suspended, or how it was answered.                    *)
(*                                                                         *)
(* "before" is history: the requests that had their answer when a request  *)
(* began.  It is the order that clients can observe; two requests of which *)
(* neither came before the other overlap.                                  *)
(***************************************************************************)
EXTENDS Naturals

CONSTANTS
  Requests,
  Casts,      \* which requests are made together: functions from Requests
  MaxFaults   \* bounds the requests that end with an error at an await

ASSUME MaxFaultsAssumption == MaxFaults \in Nat

VARIABLES call, pc, before, faults

callVars == <<call, pc, before, faults>>

\* 2xx; an HttpException of the handler, thrown or returned; 500, or none.
Answers == {"ok", "refused", "failed"}

Answered == {r \in Requests : pc[r] \in Answers}

CallsInit ==
  /\ call \in Casts
  /\ pc = [r \in Requests |-> "new"]
  /\ before = [r \in Requests |-> {}]
  /\ faults = 0

\* The request arrives and runs to its first await.
Start(r, to) ==
  /\ pc[r] = "new"
  /\ pc' = [pc EXCEPT ![r] = to]
  /\ before' = [before EXCEPT ![r] = Answered]
  /\ UNCHANGED <<call, faults>>

\* The awaited call returns and the request runs to the next await.
GoTo(r, from, to) ==
  /\ pc[r] = from
  /\ pc' = [pc EXCEPT ![r] = to]
  /\ UNCHANGED <<call, before, faults>>

\* An awaited call throws: an error of the driver, a constraint that the model
\* leaves out, the mail template, or the end of the process.
FailAt(r) ==
  /\ pc[r] \notin {"new"} \cup Answers
  /\ faults < MaxFaults
  /\ faults' = faults + 1
  /\ pc' = [pc EXCEPT ![r] = "failed"]
  /\ UNCHANGED <<call, before>>

Overlap(r, s) == r \notin before[s] /\ s \notin before[r]

\* r is an answered effect that a later one, s, had replaced before t began.
Replaced(r, s, t) == r \in before[s] /\ s \in before[t]

================================================================================

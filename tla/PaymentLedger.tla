---------------------------- MODULE PaymentLedger ----------------------------
(***************************************************************************)
(* What the payroll tables promise a bookkeeper, without requests, awaits  *)
(* or employees: how a transfer is opened, paid and dropped, and in which  *)
(* order a blockchain transaction gets into the books.                     *)
(*                                                                         *)
(* A transaction is mined, then marked (the transfers it paid name it),    *)
(* then recorded (it has a payment), in this order.  A marked transaction  *)
(* may stay unrecorded, and may mark more transfers at any time.  Beside   *)
(* these, new transfers can be imported that name any transaction.         *)
(***************************************************************************)
CONSTANTS
  Tids,    \* transfer ids
  Hashes,  \* transactions
  None,    \* state of a transfer that does not exist: no transaction
  Open     \* state of a transfer that is not paid: no transaction, not None

VARIABLES
  state,    \* state[t]: None, Open, or the transaction that paid t
  imported, \* transfers that name the transaction they were imported with
  mined,    \* transactions the chain has mined
  marked,   \* transactions whose transfers have been marked
  recorded  \* transactions with a payment

vars == <<state, imported, mined, marked, recorded>>

Set(S, x) == state' = [t \in Tids |-> IF t \in S THEN x ELSE state[t]]

Init == /\ state = [t \in Tids |-> None]
        /\ imported = {} /\ mined = {} /\ marked = {} /\ recorded = {}

\* New transfers; transfers that were dropped or paid may be open again.
Reopen(S) == Set(S, Open) /\ UNCHANGED <<imported, mined, marked, recorded>>

\* New transfers, open or with a transaction, which may be anything.
Import(as) == /\ \A t \in DOMAIN as : state[t] = None
              /\ state' = [t \in Tids |-> IF t \in DOMAIN as THEN as[t] ELSE state[t]]
              /\ imported' = imported \cup {t \in DOMAIN as : as[t] # Open}
              /\ UNCHANGED <<mined, marked, recorded>>

Drop(S) == Set(S, None) /\ UNCHANGED <<imported, mined, marked, recorded>>

MineTx(h) == /\ h \notin mined
             /\ mined' = mined \cup {h}
             /\ UNCHANGED <<state, imported, marked, recorded>>

\* Of the transfers in S those that exist are paid, only by a mined transaction.
Mark(h, S) == /\ h \in mined
              /\ Set({t \in S : state[t] # None}, h)
              /\ imported' = imported \ S
              /\ marked' = marked \cup {h}
              /\ UNCHANGED <<mined, recorded>>

Record(h) == /\ h \in marked \ recorded
             /\ recorded' = recorded \cup {h}
             /\ UNCHANGED <<state, imported, mined, marked>>

Next == \/ \E S \in SUBSET Tids :
             \/ Reopen(S) \/ Drop(S)
             \/ \E as \in [S -> Hashes \cup {Open}] : Import(as)
        \/ \E h \in Hashes : \/ MineTx(h) \/ Record(h)
                             \/ \E S \in SUBSET Tids : Mark(h, S)

Spec == Init /\ [][Next]_vars

=============================================================================

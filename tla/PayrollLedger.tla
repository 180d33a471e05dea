---------------------------- MODULE PayrollLedger ----------------------------
(* The payroll core keeps the books that PaymentLedger specifies.          *)
EXTENDS Payroll

CONSTANT Open  \* state of a transfer without a hash

ASSUME LedgerAssumption ==
  Open # Absent /\ Open \notin Hashes /\ Absent \notin Hashes

\* The refinement mapping.  A transaction has been marked when its payment is
\* about to be inserted, is inserted, or was given up after addHash.
StateOf(t) == IF transfers[t] = Absent THEN Absent
              ELSE IF transfers[t].hash = NoHash THEN Open
              ELSE transfers[t].hash

Marked == {h \in Hashes : Recorded(h) \/ InsertUnderWay(h) \/ h \in stranded}

Ledger == INSTANCE PaymentLedger WITH
            None     <- Absent,
            state    <- [t \in Tids |-> StateOf(t)],
            imported <- brought,
            mined    <- {h \in Hashes : Mined(h)},
            marked   <- Marked,
            recorded <- {h \in Hashes : Recorded(h)}

\* Whatever requests interleave, fail or die, every step of the tables is a
\* step of the ledger: no transfer is paid that does not exist, none by a
\* transaction that is not mined, unless it is new and a sheet says so; no payment
\* is inserted before addHash, none disappears, and one step marks transfers with
\* one hash only.
LedgerSpec == Ledger!Spec

=============================================================================

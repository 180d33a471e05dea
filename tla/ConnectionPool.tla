---------------------------- MODULE ConnectionPool ----------------------------
(***************************************************************************)
(* The pool of database connections that all requests share, as the        *)
(* handlers use it through TypeORM.  A repository call takes a client of   *)
(* the pool for one statement and gives it back; a queryRunner takes one   *)
(* in connect() and keeps it until release().  Whoever finds no client     *)
(* waits in a queue, without a time limit.                                 *)
(***************************************************************************)
EXTENDS Naturals, Sequences

CONSTANTS
  Requests,   \* the HTTP requests that clients of the server make
  Clients,    \* the clients (connections) of the pool, 10 by default
  Free        \* a client that is in the pool

\* What a request wants a client for: its queryRunner or one statement.
Ticket  == Requests \X {"tx", "stmt"}
Tx(r)   == <<r, "tx">>
Stmt(r) == <<r, "stmt">>

ASSUME PoolAssumption == Free \notin Ticket

VARIABLES
  holder,     \* who has each client
  queue       \* who waits for one, in order

poolVars == <<holder, queue>>

PoolTypeOK == /\ holder \in [Clients -> Ticket \cup {Free}]
              /\ queue \in Seq(Ticket)

PoolInit == /\ holder = [c \in Clients |-> Free]
            /\ queue  = <<>>

Holds(t)  == \E c \in Clients : holder[c] = t
Queued(t) == \E i \in 1 .. Len(queue) : queue[i] = t

-----------------------------------------------------------------------------
(* What handlers do with the pool.                                         *)

Without(t) == [c \in Clients |-> IF holder[c] = t THEN Free ELSE holder[c]]

Ask(t)             == queue' = Append(queue, t) /\ UNCHANGED holder
Return(t)          == holder' = Without(t) /\ UNCHANGED queue
ReturnAndAsk(t, u) == holder' = Without(t) /\ queue' = Append(queue, u)

\* The pool hands a free client to the first in the queue.
Grant == /\ queue # <<>>
         /\ \E c \in Clients : /\ holder[c] = Free
                               /\ holder' = [holder EXCEPT ![c] = Head(queue)]
         /\ queue' = Tail(queue)

\* A new process of the server has a new pool.
ResetPool == /\ holder' = [c \in Clients |-> Free]
             /\ queue'  = <<>>

-----------------------------------------------------------------------------
(* No client will ever come back: each is with a queryRunner whose request *)
(* is over, or waits for a second client.                                  *)

Exhausted(over) ==
  \A c \in Clients : \E r \in Requests :
    holder[c] = Tx(r) /\ (r \in over \/ Queued(Stmt(r)))

=============================================================================

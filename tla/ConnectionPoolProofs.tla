-------------------------- MODULE ConnectionPoolProofs --------------------------
(***************************************************************************)
(* What each operation of the pool does to a ticket, as far as a handler   *)
(* can tell: whether the ticket has a client and whether it waits for one. *)
(* The proofs about handlers use the pool through these lemmas only.       *)
(***************************************************************************)
EXTENDS ConnectionPool, TLAPS

\* Nobody waits twice for the same purpose, nor for what it has, nor has two
\* clients for it.
InPoolOnce ==
  /\ \A c, d \in Clients : holder[c] = holder[d] /\ holder[c] # Free => c = d
  /\ \A i, j \in 1 .. Len(queue) : queue[i] = queue[j] => i = j
  /\ \A t \in Ticket : ~ (Holds(t) /\ Queued(t))

PoolInv == PoolTypeOK /\ InPoolOnce

\* The two tickets of a request are two.
LEMMA Tickets ==
  ASSUME NEW r \in Requests
  PROVE  Tx(r) \in Ticket /\ Stmt(r) \in Ticket /\ Tx(r) # Stmt(r)
BY DEF Ticket, Tx, Stmt

\* Tickets of different requests differ.
LEMMA TicketsDiffer ==
  ASSUME NEW r \in Requests, NEW s \in Requests, r # s
  PROVE  /\ Tx(r) # Tx(s) /\ Tx(r) # Stmt(s)
         /\ Stmt(r) # Tx(s) /\ Stmt(r) # Stmt(s)
BY DEF Tx, Stmt

\* A new pool: nobody has or awaits a client.
LEMMA FreshPool ==
  ASSUME PoolInit
  PROVE  PoolInv /\ \A t \in Ticket : ~ Holds(t) /\ ~ Queued(t)
BY PoolAssumption
   DEF PoolInit, PoolInv, PoolTypeOK, InPoolOnce, Holds, Queued

\* A new process has a pool in which nobody holds or waits.
LEMMA ResetEmpties ==
  ASSUME ResetPool
  PROVE  PoolInv' /\ \A t \in Ticket : ~ Holds(t)' /\ ~ Queued(t)'
BY PoolAssumption
   DEF ResetPool, PoolInv, PoolTypeOK, InPoolOnce, Holds, Queued

\* Appending a ticket that does not wait keeps the queue free of doubles.
LEMMA Appending ==
  ASSUME PoolTypeOK, NEW t \in Ticket, queue' = Append(queue, t)
  PROVE  /\ queue' \in Seq(Ticket)
         /\ \A u \in Ticket : Queued(u)' <=> Queued(u) \/ u = t
         /\ (~ Queued(t)
              /\ \A i, j \in 1 .. Len(queue) : queue[i] = queue[j] => i = j)
            => \A i, j \in 1 .. Len(queue') : queue'[i] = queue'[j] => i = j
<1>1. queue \in Seq(Ticket)
  BY DEF PoolTypeOK
<1>2. Len(queue') = Len(queue) + 1 /\ queue' \in Seq(Ticket)
  BY <1>1
<1>3. \A i \in 1 .. Len(queue) : queue'[i] = queue[i]
  BY <1>1
<1>4. queue'[Len(queue) + 1] = t
  BY <1>1
<1>5. Len(queue) \in Nat
  BY <1>1
<1>6. \A u \in Ticket : Queued(u)' <=> Queued(u) \/ u = t
  BY <1>2, <1>3, <1>4, <1>5 DEF Queued
<1>7. ASSUME ~ Queued(t),
             \A i, j \in 1 .. Len(queue) : queue[i] = queue[j] => i = j
      PROVE  \A i, j \in 1 .. Len(queue') : queue'[i] = queue'[j] => i = j
  BY <1>2, <1>3, <1>4, <1>5, <1>7 DEF Queued
<1>8. QED
  BY <1>2, <1>6, <1>7

\* Giving a client back: the ticket has none any more, nobody else is touched.
LEMMA GivingBack ==
  ASSUME PoolTypeOK, NEW t \in Ticket, holder' = Without(t)
  PROVE  /\ holder' \in [Clients -> Ticket \cup {Free}]
         /\ \A c \in Clients : holder'[c] \in {holder[c], Free}
         /\ \A u \in Ticket : Holds(u)' <=> Holds(u) /\ u # t
BY PoolAssumption DEF PoolTypeOK, Without, Holds

\* A ticket that asks waits; nothing changes for the others.
LEMMA Asking ==
  ASSUME PoolInv, NEW t \in Ticket, ~ Holds(t), ~ Queued(t), Ask(t)
  PROVE  /\ PoolInv'
         /\ \A u \in Ticket : /\ Holds(u)' <=> Holds(u)
                              /\ Queued(u)' <=> Queued(u) \/ u = t
<1>1. \A u \in Ticket : Holds(u)' <=> Holds(u)
  BY DEF Ask, Holds
<1>2. QED
  BY <1>1, Appending DEF Ask, PoolInv, PoolTypeOK, InPoolOnce

\* A ticket that gives its client back has none; nothing changes for the others.
LEMMA Returning ==
  ASSUME PoolInv, NEW t \in Ticket, Return(t)
  PROVE  /\ PoolInv'
         /\ \A u \in Ticket : /\ Holds(u)' <=> Holds(u) /\ u # t
                              /\ Queued(u)' <=> Queued(u)
<1>1. \A u \in Ticket : Queued(u)' <=> Queued(u)
  BY DEF Return, Queued
<1>2. QED
  BY <1>1, GivingBack DEF Return, PoolInv, PoolTypeOK, InPoolOnce

\* The next statement of a request gives its client back and waits again.
LEMMA ReturningAndAsking ==
  ASSUME PoolInv, NEW t \in Ticket, Holds(t), ReturnAndAsk(t, t)
  PROVE  /\ PoolInv'
         /\ \A u \in Ticket : /\ Holds(u)' <=> Holds(u) /\ u # t
                              /\ Queued(u)' <=> Queued(u) \/ u = t
<1>1. ~ Queued(t)
  BY DEF PoolInv, InPoolOnce
<1>2. QED
  BY <1>1, GivingBack, Appending
     DEF ReturnAndAsk, PoolInv, PoolTypeOK, InPoolOnce

\* The first in the queue leaves it and has a client; nobody else is touched.
LEMMA Granting ==
  ASSUME PoolInv, Grant
  PROVE  /\ PoolInv'
         /\ \E t \in Ticket :
              /\ Queued(t)
              /\ \A u \in Ticket : /\ Holds(u)' <=> Holds(u) \/ u = t
                                   /\ Queued(u)' <=> Queued(u) /\ u # t
<1> DEFINE t == Head(queue)
<1>1. queue \in Seq(Ticket) /\ queue # <<>> /\ queue' = Tail(queue)
  BY DEF PoolInv, PoolTypeOK, Grant
<1>2. /\ Len(queue) \in Nat \ {0}
      /\ Len(queue') = Len(queue) - 1
      /\ queue' \in Seq(Ticket)
      /\ t = queue[1] /\ t \in Ticket
  BY <1>1
<1>3. \A i \in 1 .. Len(queue') : queue'[i] = queue[i + 1]
  BY <1>1
<1>4. \A i \in 2 .. Len(queue) : queue'[i - 1] = queue[i]
  BY <1>2, <1>3
<1>5. Queued(t)
  BY <1>2 DEF Queued
<1>6. \A i, j \in 1 .. Len(queue) : queue[i] = queue[j] => i = j
  BY DEF PoolInv, InPoolOnce
<1>7. ASSUME NEW u \in Ticket
      PROVE  Queued(u)' <=> Queued(u) /\ u # t
  <2>1. ASSUME Queued(u)' PROVE Queued(u) /\ u # t
    <3>1. PICK i \in 1 .. Len(queue') : queue'[i] = u
      BY <2>1 DEF Queued
    <3>2. i + 1 \in 1 .. Len(queue) /\ i + 1 # 1 /\ 1 \in 1 .. Len(queue)
      BY <1>2, <3>1
    <3>3. queue[i + 1] = u
      BY <1>3, <3>1
    <3>4. queue[i + 1] # queue[1]
      BY <1>6, <3>2
    <3>5. QED
      BY <1>2, <3>2, <3>3, <3>4 DEF Queued
  <2>2. ASSUME Queued(u), u # t PROVE Queued(u)'
    <3>1. PICK i \in 1 .. Len(queue) : queue[i] = u
      BY <2>2 DEF Queued
    <3>2. i \in 2 .. Len(queue) /\ i - 1 \in 1 .. Len(queue')
      BY <1>2, <2>2, <3>1
    <3>3. queue'[i - 1] = u
      BY <1>4, <3>1, <3>2
    <3>4. QED
      BY <3>2, <3>3 DEF Queued
  <2>3. QED
    BY <2>1, <2>2
<1>8. PICK c \in Clients : holder[c] = Free
                           /\ holder' = [holder EXCEPT ![c] = t]
  BY DEF Grant
<1>9. holder' \in [Clients -> Ticket \cup {Free}]
  BY <1>2, <1>8 DEF PoolInv, PoolTypeOK
<1>10. \A u \in Ticket : Holds(u)' <=> Holds(u) \/ u = t
  BY <1>2, <1>8, PoolAssumption DEF PoolInv, PoolTypeOK, Holds
<1>11. \A i, j \in 1 .. Len(queue') : queue'[i] = queue'[j] => i = j
  <2>1. ASSUME NEW i \in 1 .. Len(queue'), NEW j \in 1 .. Len(queue'),
               queue'[i] = queue'[j]
        PROVE  i = j
    <3>1. i + 1 \in 1 .. Len(queue) /\ j + 1 \in 1 .. Len(queue)
      BY <1>2
    <3>2. queue[i + 1] = queue[j + 1]
      BY <1>3, <2>1
    <3>3. i + 1 = j + 1
      BY <1>6, <3>1, <3>2
    <3>4. QED
      BY <1>2, <3>3
  <2>2. QED
    BY <2>1
<1>12. \A d, e \in Clients : holder'[d] = holder'[e] /\ holder'[d] # Free => d = e
  BY <1>2, <1>5, <1>8 DEF PoolInv, PoolTypeOK, InPoolOnce, Holds
<1>13. PoolInv'
  BY <1>2, <1>7, <1>9, <1>10, <1>11, <1>12 DEF PoolInv, PoolTypeOK, InPoolOnce
<1>14. QED
  BY <1>2, <1>5, <1>7, <1>10, <1>13

\* Steps that leave the pool alone.
LEMMA PoolUnchanged ==
  ASSUME PoolInv, UNCHANGED poolVars
  PROVE  /\ PoolInv'
         /\ \A u \in Ticket : /\ Holds(u)' <=> Holds(u)
                              /\ Queued(u)' <=> Queued(u)
BY DEF poolVars, PoolInv, PoolTypeOK, InPoolOnce, Holds, Queued

=============================================================================

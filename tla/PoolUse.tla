------------------------------- MODULE PoolUse -------------------------------
(***************************************************************************)
(* How a handler may use the pool of connections, whatever else it does:   *)
(* one queryRunner at most, one statement at a time, no statement before   *)
(* the queryRunner has its client, and no client given back that it has    *)
(* not got.  What the handlers do not promise is to give the client of     *)
(* their queryRunner back before they answer.                              *)
(***************************************************************************)
EXTENDS ConnectionPool

VARIABLE phase  \* what each request has and wants

useVars == <<phase, holder, queue>>

\* idle        has no client and asks for none
\* looks       a statement without a queryRunner
\* connects    waits for the client of its queryRunner, or has just got it
\* runs        has a queryRunner
\* states      has a queryRunner, and a statement on another client
\* unreleased  is over and has kept the client of its queryRunner
\* over        is over and has none
Phases == {"idle", "looks", "connects", "runs", "states", "unreleased", "over"}

Init == phase = [r \in Requests |-> "idle"] /\ PoolInit

Goes(r, from, to) == phase[r] = from /\ phase' = [phase EXCEPT ![r] = to]

-----------------------------------------------------------------------------
Pause(r) == /\ \E to \in {"idle", "over"} : Goes(r, "idle", to)
            /\ UNCHANGED poolVars

Look(r) == Goes(r, "idle", "looks") /\ Ask(Stmt(r))

Looked(r) == /\ Holds(Stmt(r))
             /\ \E to \in {"idle", "over"} : Goes(r, "looks", to)
             /\ Return(Stmt(r))

Connect(r) == Goes(r, "idle", "connects") /\ Ask(Tx(r))

Begin(r) == Holds(Tx(r)) /\ Goes(r, "connects", "states") /\ Ask(Stmt(r))

FailToBegin(r) == /\ Holds(Tx(r))
                  /\ \/ Goes(r, "connects", "over") /\ Return(Tx(r))
                     \/ Goes(r, "connects", "unreleased") /\ UNCHANGED poolVars

Statement(r) == Goes(r, "runs", "states") /\ Ask(Stmt(r))

NextStatement(r) == /\ Holds(Stmt(r))
                    /\ Goes(r, "states", "states")
                    /\ ReturnAndAsk(Stmt(r), Stmt(r))

LastStatement(r) == /\ Holds(Stmt(r))
                    /\ \E to \in {"runs", "unreleased"} : Goes(r, "states", to)
                    /\ Return(Stmt(r))

Release(r) == Goes(r, "runs", "over") /\ Return(Tx(r))

KeepClient(r) == /\ \E to \in {"runs", "unreleased"} : Goes(r, "runs", to)
                 /\ UNCHANGED poolVars

Restart == /\ \E begun \in SUBSET Requests :
                /\ \A r \in Requests \ begun : phase[r] = "idle"
                /\ phase' = [r \in Requests |->
                               IF r \in begun THEN "over" ELSE "idle"]
           /\ ResetPool

Uses(r) == \/ Pause(r)
           \/ Look(r) \/ Looked(r)
           \/ Connect(r) \/ Begin(r) \/ FailToBegin(r)
           \/ Statement(r) \/ NextStatement(r) \/ LastStatement(r)
           \/ Release(r) \/ KeepClient(r)

Next == \/ \E r \in Requests : Uses(r)
        \/ Grant /\ UNCHANGED phase
        \/ Restart

Spec == Init /\ [][Next]_useVars

=============================================================================

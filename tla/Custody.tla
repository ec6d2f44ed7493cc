------------------------------ MODULE Custody ------------------------------
(***************************************************************************)
(* What the gateway owes a message, seen from outside: once accepted from  *)
(* the Internet it stays in postfix's queue until something has become of  *)
(* it.  It may be delivered more than once, or delivered and returned;     *)
(* it never vanishes.                                                      *)
(***************************************************************************)
CONSTANTS Mail

VARIABLES
    place,   \* where the responsibility for a message lies
    effects  \* what has become of it

Effects == {"delivered", "held", "discarded", "returned"}

Init ==
    /\ place = [m \in Mail |-> "outside"]
    /\ effects = [m \in Mail |-> {}]

Accept(m) ==
    /\ place[m] = "outside"
    /\ place' = [place EXCEPT ![m] = "queue"]
    /\ UNCHANGED effects

\* Something becomes of an accepted message, perhaps once more.
Act(m, E) ==
    /\ place[m] # "outside"
    /\ effects' = [effects EXCEPT ![m] = @ \union E]
    /\ UNCHANGED place

\* The queue lets go of a message only when something has become of it.
Settle(m) ==
    /\ place[m] = "queue"
    /\ effects[m] # {}
    /\ place' = [place EXCEPT ![m] = "settled"]
    /\ UNCHANGED effects

\* ... or when it is returned to its sender.
Return(m) ==
    /\ place[m] = "queue"
    /\ place' = [place EXCEPT ![m] = "settled"]
    /\ effects' = [effects EXCEPT ![m] = @ \union {"returned"}]

Next ==
    \E m \in Mail :
        \/ Accept(m)
        \/ \E E \in SUBSET Effects : Act(m, E)
        \/ Settle(m)
        \/ Return(m)

Spec == Init /\ [][Next]_<<place, effects>>
=============================================================================

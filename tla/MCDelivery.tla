----------------------------- MODULE MCDelivery -----------------------------
(* Small instances of Delivery for TLC. *)
EXTENDS Delivery

CONSTANTS m1, m2

TwoMsgs == {m1, m2}

\* Two messages and one fault, or, once the other has been given up, one message and
\* all faults of the budget: two messages and two faults are too many states.
MCInit ==
    \/ Idle({}) /\ faults = MaxFaults - 1
    \/ \E m \in Msgs : Idle(Msgs \ {m}) /\ faults = 0

MCFairSpec == MCInit /\ [][Next]_vars /\ Fairness
=============================================================================

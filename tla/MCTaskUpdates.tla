--------------------------- MODULE MCTaskUpdates ---------------------------
(* TLC instances of TaskUpdates. *)
EXTENDS TaskUpdates, TLC

CONSTANTS u1, u2, u3, n1, n2

TwoSubs   == {u1, u2}
ThreeSubs == {u1, u2, u3}
OnePass   == {n1}
TwoPasses == {n1, n2}

Symmetry == Permutations({u1, u2, u3}) \cup Permutations({n1, n2})
=============================================================================

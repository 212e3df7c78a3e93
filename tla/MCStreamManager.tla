-------------------------- MODULE MCStreamManager --------------------------
(* TLC instances of StreamManager. *)
EXTENDS StreamManager, TLC

CONSTANTS p1, p2, u1, u2

OneSender  == {p1}
TwoSenders == {p1, p2}
OneSub     == {u1}
TwoSubs    == {u1, u2}

SubSymmetry  == Permutations({u1, u2})
FullSymmetry == Permutations({u1, u2}) \cup Permutations({p1, p2})
=============================================================================

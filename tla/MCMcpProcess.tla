---------------------------- MODULE MCMcpProcess ----------------------------
(* TLC instances of McpProcess. *)
EXTENDS McpProcess, TLC

CONSTANTS c1, c2

OneCall  == {c1}
TwoCalls == {c1, c2}

CallSymmetry == Permutations({c1, c2})
=============================================================================

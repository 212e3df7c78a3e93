---------------------------- MODULE MCAgentCards ----------------------------
(***************************************************************************)
(* Two daemons; b may wrap an MCP server with one tool.                    *)
(***************************************************************************)
EXTENDS AgentCards, TLC

CONSTANTS a, b, t1

NoTools == [n \in {a, b} |-> <<>>]
OneTool == [n \in {a, b} |-> IF n = b THEN <<t1>> ELSE <<>>]

\* Bounds for a and for b.
None   == [n \in {a, b} |-> 0]
Once   == [n \in {a, b} |-> 1]
OnceA  == [n \in {a, b} |-> IF n = a THEN 1 ELSE 0]
TwiceA == [n \in {a, b} |-> IF n = a THEN 2 ELSE 0]
MoreA  == [n \in {a, b} |-> IF n = a THEN 2 ELSE 1]
MoreB  == [n \in {a, b} |-> IF n = a THEN 1 ELSE 2]

\* Exchanges and calls are alike.
Alike == Permutations(Slots) \cup Permutations(Calls)
=============================================================================

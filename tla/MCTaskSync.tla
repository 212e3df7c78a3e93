----------------------------- MODULE MCTaskSync -----------------------------
(* Small instances of TaskSync for TLC. *)
EXTENDS TaskSync

CONSTANTS a, p   \* a task for an agent, a task for the MCP proxy

Both == {a, p}
OnlyAgent == {a}
OnlyProxy == {p}
Nobody == {}
=============================================================================

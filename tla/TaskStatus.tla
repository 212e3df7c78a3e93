----------------------------- MODULE TaskStatus -----------------------------
(***************************************************************************)
(* The task status machine of internal/a2a/engine.go: the statuses a task  *)
(* record can hold, which of them are terminal, and the edges that         *)
(* TransitionTask accepts.  Every module that speaks of a task's status    *)
(* extends this one.                                                       *)
(***************************************************************************)

\* TaskStatus constants.  StatusUnspecified (the zero value) is left out: no
\* code path stores it in a task.
Statuses == {"SUBMITTED", "WORKING", "INPUT_REQUIRED", "COMPLETED",
             "FAILED", "CANCELED", "REJECTED"}

\* TaskStatus.IsTerminal
Terminal == {"COMPLETED", "FAILED", "CANCELED", "REJECTED"}

\* var validTransitions: the statuses that may follow s.  A status that has no
\* entry in the map (every terminal one) has no successor.
validTransitions(s) ==
    CASE s = "SUBMITTED"      -> {"WORKING", "REJECTED", "CANCELED"}
      [] s = "WORKING"        -> {"COMPLETED", "FAILED", "CANCELED", "INPUT_REQUIRED"}
      [] s = "INPUT_REQUIRED" -> {"WORKING", "CANCELED"}
      [] OTHER                -> {}

\* The acceptance test of TransitionTask: the task is not terminal and the edge
\* is listed.
Accepts(s, t) == s \notin Terminal /\ t \in validTransitions(s)

=============================================================================

--------------------------- MODULE TaskLifecycle ---------------------------
(***************************************************************************)
(* What the task engine promises about one daemon's task table, across     *)
(* restarts: the status of a task moves only along the edges of the        *)
(* status machine; a (re)submission puts it back to SUBMITTED; a crash     *)
(* loses the table; and what recovery brings back for a task is a status   *)
(* that this task really had at some earlier time, or nothing.             *)
(***************************************************************************)
EXTENDS TaskStatus

CONSTANTS
    Ids,   \* task identifiers
    None   \* "no such task"

VARIABLES
    cur,   \* cur[id]: status of the task in the table, or None
    past   \* past[id]: every status the task has ever had

vars == <<cur, past>>

Init ==
    /\ cur  = [id \in Ids |-> None]
    /\ past = [id \in Ids |-> {}]

Submit(id) ==
    /\ cur'  = [cur EXCEPT ![id] = "SUBMITTED"]
    /\ past' = [past EXCEPT ![id] = @ \cup {"SUBMITTED"}]

Advance(id, s) ==
    /\ cur[id] # None
    /\ Accepts(cur[id], s)
    /\ cur'  = [cur EXCEPT ![id] = s]
    /\ past' = [past EXCEPT ![id] = @ \cup {s}]

Lose ==
    /\ cur' = [id \in Ids |-> None]
    /\ UNCHANGED past

Restore ==
    /\ \A id \in Ids : cur[id] = None
    /\ cur' \in [Ids -> Statuses \cup {None}]
    /\ \A id \in Ids : cur'[id] \in past[id] \cup {None}
    /\ UNCHANGED past

Next ==
    \/ \E id \in Ids : Submit(id) \/ \E s \in Statuses : Advance(id, s)
    \/ Lose
    \/ Restore

Spec == Init /\ [][Next]_vars

=============================================================================

----------------------------- MODULE TaskEngine -----------------------------
(***************************************************************************)
(* The task table of one daemon: Engine (internal/a2a/engine.go) over the  *)
(* tasks bucket of Store (internal/store/store.go), with crashes and       *)
(* restarts of the daemon (cmd/agentanycastd/main.go wires the two and     *)
(* calls RecoverTasks once, before anything else can use the engine).      *)
(*                                                                         *)
(* CreateTask and RegisterTask insert the new record under e.mu, release   *)
(* the lock and only then persist it, so each such call has three steps:   *)
(* insert, marshal the record, put the bytes.  TransitionTask holds e.mu   *)
(* from the lookup to the put and is one step.  A registration replaces    *)
(* the record of its id, so records are numbered: record n of a task is    *)
(* the one its n-th registration (since the restart) inserted, and the     *)
(* call that inserted it goes on to persist that very record, even if it   *)
(* is no longer the one in the table.                                      *)
(***************************************************************************)
EXTENDS TaskStatus, Integers

CONSTANTS
    LocalIds,     \* ids made by CreateTask (a new UUID each)
    RemoteIds,    \* ids chosen by a peer and passed to RegisterTask
    None,         \* no bytes on disk, no record in the table
    MaxReg,       \* bound: registrations of one id between two restarts
    StoreMayFail  \* BOOLEAN: may PutTask and GetTask return an error?

Ids  == LocalIds \cup RemoteIds
Regs == 1..MaxReg

ASSUME NoneAssumption == None \notin Statuses
ASSUME MaxRegAssumption == MaxReg \in Nat \ {0}
ASSUME StoreAssumption == StoreMayFail \in BOOLEAN

VARIABLES
    up,       \* the daemon runs and RecoverTasks has returned
    tasks,    \* tasks[id]: number of the record in the table, 0 if there is none
    status,   \* status[id][n]: Status field of record n of the task
    call,     \* call[id][n]: where the call that inserted record n stands
    data,     \* data[id][n]: the status in the bytes that call has marshalled
    disk,     \* disk[id]: the status in the stored bytes, or None
    reached,  \* history: every status a record of the task has had in memory
    suspect   \* history: the table and the disk may disagree about the task

vars == <<up, tasks, status, call, data, disk, reached, suspect>>

Calls == {"idle", "marshal", "put"}

\* Task.Status of the record in the table.
Current(id) == status[id][tasks[id]]

\* A CreateTask or RegisterTask call for this id has not returned yet.
InFlight(id) == \E n \in Regs : call[id][n] # "idle"

\* Store.PutTask either commits the bytes or returns an error and changes nothing.
PutOutcomes == IF StoreMayFail THEN BOOLEAN ELSE {TRUE}

PutTask(id, s, ok) == disk' = [disk EXCEPT ![id] = IF ok THEN s ELSE @]

-----------------------------------------------------------------------------

Init ==
    /\ up      = TRUE
    /\ tasks   = [id \in Ids |-> 0]
    /\ status  = [id \in Ids |-> [n \in Regs |-> "SUBMITTED"]]
    /\ call    = [id \in Ids |-> [n \in Regs |-> "idle"]]
    /\ data    = [id \in Ids |-> [n \in Regs |-> "SUBMITTED"]]
    /\ disk    = [id \in Ids |-> None]
    /\ reached = [id \in Ids |-> {}]
    /\ suspect = [id \in Ids |-> FALSE]

\* The locked part of CreateTask and RegisterTask: e.tasks[task.ID] = task.
Insert(id) ==
    /\ up
    /\ tasks[id] < MaxReg
    /\ LET n == tasks[id] + 1 IN
        /\ tasks'  = [tasks EXCEPT ![id] = n]
        /\ status' = [status EXCEPT ![id][n] = "SUBMITTED"]
        /\ call'   = [call EXCEPT ![id][n] = "marshal"]
    /\ reached' = [reached EXCEPT ![id] = @ \cup {"SUBMITTED"}]
    /\ suspect' = [suspect EXCEPT ![id] = InFlight(id)]
    /\ UNCHANGED <<up, data, disk>>

\* CreateTask draws a new UUID: no record and no bytes have ever had it.
CreateTask(id) == id \in LocalIds /\ reached[id] = {} /\ Insert(id)

\* RegisterTask overwrites whatever record the table holds under the id.
RegisterTask(id) == id \in RemoteIds /\ Insert(id)

\* persistTask, first half: json.Marshal reads the record, without e.mu.
Marshal(id, n) ==
    /\ up
    /\ call[id][n] = "marshal"
    /\ data' = [data EXCEPT ![id][n] = status[id][n]]
    /\ call' = [call EXCEPT ![id][n] = "put"]
    /\ UNCHANGED <<up, tasks, status, disk, reached, suspect>>

\* persistTask, second half: the bytes go to the store; an error is only logged.
\* (The bytes are dead afterwards, so data goes back to its initial value.)
Put(id, n, ok) ==
    /\ up
    /\ call[id][n] = "put"
    /\ call' = [call EXCEPT ![id][n] = "idle"]
    /\ data' = [data EXCEPT ![id][n] = "SUBMITTED"]
    /\ PutTask(id, data[id][n], ok)
    /\ suspect' = [suspect EXCEPT ![id] = @ \/ ~ok]
    /\ UNCHANGED <<up, tasks, status, reached>>

\* The record is in the table and somebody knows its id: a peer knows the ids it
\* chose, but nobody has seen a new UUID before CreateTask returns it.
Known(id) == tasks[id] # 0 /\ (id \in LocalIds => ~InFlight(id))

\* Mutant: the edge is not checked.
TransitionTask_Unchecked(id, s, ok) ==
    /\ up
    /\ Known(id)
    /\ status'  = [status EXCEPT ![id][tasks[id]] = s]
    /\ PutTask(id, s, ok)
    /\ reached' = [reached EXCEPT ![id] = @ \cup {s}]
    /\ suspect' = [suspect EXCEPT ![id] = InFlight(id) \/ ~ok]
    /\ UNCHANGED <<up, tasks, call, data>>

\* Mutant: the record is put in the store before the edge is checked.
TransitionTask_EarlyPut(id, s, ok) ==
    /\ up
    /\ Known(id)
    /\ LET valid == Accepts(Current(id), s) IN
        /\ status'  = [status EXCEPT ![id][tasks[id]] = IF valid THEN s ELSE @]
        /\ reached' = [reached EXCEPT ![id] = IF valid THEN @ \cup {s} ELSE @]
    /\ PutTask(id, s, ok)
    /\ suspect' = [suspect EXCEPT ![id] = InFlight(id) \/ ~ok]
    /\ UNCHANGED <<up, tasks, call, data>>

\* Mutant: the new status is not persisted.
TransitionTask_NoPut(id, s, ok) ==
    /\ up
    /\ Known(id)
    /\ Accepts(Current(id), s)
    /\ status'  = [status EXCEPT ![id][tasks[id]] = s]
    /\ reached' = [reached EXCEPT ![id] = @ \cup {s}]
    /\ suspect' = [suspect EXCEPT ![id] = InFlight(id) \/ ~ok]
    /\ UNCHANGED <<up, tasks, call, data, disk>>

\* TransitionTask, for a call it accepts: under e.mu it sets the status and puts
\* the record in the store.  A refused call changes nothing.
TransitionTask(id, s, ok) ==
    /\ up
    /\ Known(id)
    /\ Accepts(Current(id), s)
    /\ status'  = [status EXCEPT ![id][tasks[id]] = s]
    /\ PutTask(id, s, ok)
    /\ reached' = [reached EXCEPT ![id] = @ \cup {s}]
    /\ suspect' = [suspect EXCEPT ![id] = InFlight(id) \/ ~ok]
    /\ UNCHANGED <<up, tasks, call, data>>

\* The process dies: the table and the calls in progress are gone.
Crash ==
    /\ up
    /\ up'      = FALSE
    /\ tasks'   = [id \in Ids |-> 0]
    /\ status'  = [id \in Ids |-> [n \in Regs |-> "SUBMITTED"]]
    /\ call'    = [id \in Ids |-> [n \in Regs |-> "idle"]]
    /\ data'    = [id \in Ids |-> [n \in Regs |-> "SUBMITTED"]]
    /\ suspect' = [id \in Ids |-> FALSE]
    /\ UNCHANGED <<disk, reached>>

\* Mutant: entries that cannot be read are loaded all the same.
Loads_Unread == {Ids}

\* What RecoverTasks can load: every stored task, or, when the listing or a
\* read fails (both only logged), any part of them.
Stored  == {id \in Ids : disk[id] # None}
Loads   == IF StoreMayFail THEN SUBSET Stored ELSE {Stored}

\* RecoverTasks: each loaded task gets a new record with the stored status.
RecoverTasks(loaded) ==
    /\ ~up
    /\ up'     = TRUE
    /\ tasks'  = [id \in Ids |-> IF id \in loaded THEN 1 ELSE 0]
    /\ status' = [id \in Ids |-> IF id \in loaded
                                 THEN [status[id] EXCEPT ![1] = disk[id]]
                                 ELSE status[id]]
    /\ UNCHANGED <<call, data, disk, reached, suspect>>

Next ==
    \/ \E id \in Ids : CreateTask(id)
    \/ \E id \in Ids : RegisterTask(id)
    \/ \E id \in Ids, n \in Regs : Marshal(id, n)
    \/ \E id \in Ids, n \in Regs, ok \in PutOutcomes : Put(id, n, ok)
    \/ \E id \in Ids, s \in Statuses, ok \in PutOutcomes : TransitionTask(id, s, ok)
    \/ Crash
    \/ \E loaded \in Loads : RecoverTasks(loaded)

Spec == Init /\ [][Next]_vars

-----------------------------------------------------------------------------
(* Properties *)

\* Type invariant.
TypeOK ==
    /\ up      \in BOOLEAN
    /\ tasks   \in [Ids -> 0..MaxReg]
    /\ status  \in [Ids -> [Regs -> Statuses]]
    /\ call    \in [Ids -> [Regs -> Calls]]
    /\ data    \in [Ids -> [Regs -> Statuses]]
    /\ disk    \in [Ids -> Statuses \cup {None}]
    /\ reached \in [Ids -> SUBSET Statuses]
    /\ suspect \in [Ids -> BOOLEAN]

\* What the store holds for a task is a status the task has really had in
\* memory, whatever the interleaving of late puts, failed puts, transitions and
\* crashes (persistTask and TransitionTask never write ahead of the table).
DiskIsPast == \A id \in Ids : disk[id] \in reached[id] \cup {None}

\* The table and the store agree about every task for which no creating call
\* is under way, unless a put failed or a creating call overlapped with another
\* change of the same task (the cases recorded in suspect).
PersistedUnlessSuspect ==
    up => \A id \in Ids :
            tasks[id] # 0 /\ ~InFlight(id) /\ ~suspect[id] => disk[id] = Current(id)

\* engine.go:102 says "tasks are persisted on every state change and can be
\* recovered on startup": once the calls on a task have returned, and if no put
\* failed, the store holds the status that the table shows.
\* Not what the code does: see "Disagreements" in README.md.
PersistedOnEveryChange ==
    up => \A id \in Ids :
            tasks[id] # 0 /\ ~InFlight(id) => disk[id] = Current(id)

\* The engine implements the abstract task table: edges of the status machine
\* only, and recovery brings back past statuses only.
Lifecycle == INSTANCE TaskLifecycle WITH
                cur  <- [id \in Ids |-> IF tasks[id] = 0 THEN None ELSE Current(id)],
                past <- reached

ImplementsLifecycle == Lifecycle!Spec

=============================================================================

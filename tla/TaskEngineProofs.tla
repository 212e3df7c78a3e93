-------------------------- MODULE TaskEngineProofs --------------------------
(***************************************************************************)
(* Theorems about TaskEngine, for every set of task ids, every bound on    *)
(* registrations and stores that may or may not fail; then about           *)
(* TaskUpdates, the fan-out of a task's updates, for any subscribers.      *)
(***************************************************************************)
EXTENDS TaskEngine, TaskUpdates, FiniteSetTheorems, TLAPS

\* Everything a write in progress or a restart can put in the table or on disk
\* is a status the task has had; only calls on records 1..tasks[id] are open.
PastInv ==
    \A id \in Ids :
        /\ disk[id] \in reached[id] \cup {None}
        /\ \A n \in Regs :
            /\ n <= tasks[id] => status[id][n] \in reached[id]
            /\ call[id][n] = "put" => data[id][n] \in reached[id]
            /\ call[id][n] # "idle" => n <= tasks[id]

\* While the daemon is down there is no table.
DownInv == ~up => \A id \in Ids : tasks[id] = 0

\* If a task is not suspect then either its stored status is the current one,
\* or exactly the call that inserted the current record is open and that record
\* is still as it was inserted.
SuspectOK(id) ==
    up /\ tasks[id] # 0 /\ ~suspect[id] =>
        \/ ~InFlight(id) /\ disk[id] = Current(id)
        \/ /\ Current(id) = "SUBMITTED"
           /\ \A n \in Regs : call[id][n] # "idle" => n = tasks[id]
           /\ call[id][tasks[id]] \in {"marshal", "put"}
           /\ call[id][tasks[id]] = "put" => data[id][tasks[id]] = "SUBMITTED"

SuspectInv == \A id \in Ids : SuspectOK(id)

IndInv == TypeOK /\ PastInv /\ DownInv /\ SuspectInv

-----------------------------------------------------------------------------

\* The edges of the status machine stay inside Statuses.
LEMMA AcceptsType ==
    ASSUME NEW s, NEW t, Accepts(s, t)
    PROVE  t \in Statuses
  BY DEF Accepts, validTransitions, Statuses, Terminal

\* The registrations are numbered from 1, and a task starts as SUBMITTED.
LEMMA RegsFacts == Regs \subseteq 1..MaxReg /\ 1 \in Regs /\ "SUBMITTED" \in Statuses
  BY MaxRegAssumption DEF Regs, Statuses

\* Every step of the engine, the store and a restart keeps the types.
LEMMA TypeStep == TypeOK /\ [Next]_vars => TypeOK'
<1> SUFFICES ASSUME TypeOK, [Next]_vars PROVE TypeOK'
  OBVIOUS
<1> USE RegsFacts, MaxRegAssumption DEF TypeOK, Calls
<1>1. ASSUME NEW id \in Ids, Insert(id) PROVE TypeOK'
  BY <1>1 DEF Insert, InFlight, Regs
<1>2. CASE \E id \in Ids : CreateTask(id)
  BY <1>1, <1>2 DEF CreateTask
<1>3. CASE \E id \in Ids : RegisterTask(id)
  BY <1>1, <1>3 DEF RegisterTask
<1>4. ASSUME NEW id \in Ids, NEW n \in Regs, Marshal(id, n) PROVE TypeOK'
  BY <1>4 DEF Marshal
<1>5. ASSUME NEW id \in Ids, NEW n \in Regs, NEW ok \in PutOutcomes, Put(id, n, ok)
      PROVE TypeOK'
  BY <1>5 DEF Put, PutTask
<1>6. ASSUME NEW id \in Ids, NEW s \in Statuses, NEW ok \in PutOutcomes,
             TransitionTask(id, s, ok)
      PROVE TypeOK'
  BY <1>6 DEF TransitionTask, PutTask, InFlight
<1>7. CASE Crash
  <2>1. /\ up' \in BOOLEAN
        /\ suspect' \in [Ids -> BOOLEAN]
    BY <1>7, Zenon DEF Crash
  <2>2. /\ tasks' \in [Ids -> 0..MaxReg]
        /\ status' \in [Ids -> [Regs -> Statuses]]
        /\ call' \in [Ids -> [Regs -> Calls]]
        /\ data' \in [Ids -> [Regs -> Statuses]]
        /\ UNCHANGED <<disk, reached>>
    BY <1>7 DEF Crash
  <2>3. QED
    BY <2>1, <2>2
<1>8. ASSUME NEW loaded \in Loads, RecoverTasks(loaded) PROVE TypeOK'
  BY <1>8 DEF RecoverTasks, Loads, Stored
<1>9. CASE UNCHANGED vars
  BY <1>9 DEF vars
<1>10. QED
  BY <1>2, <1>3, <1>4, <1>5, <1>6, <1>7, <1>8, <1>9 DEF Next

\* Type correctness of the task table and its store.
THEOREM TypeCorrect == Spec => []TypeOK
<1>1. Init => TypeOK
  BY MaxRegAssumption, RegsFacts DEF Init, TypeOK, Calls
<1>2. QED
  BY <1>1, TypeStep, PTL DEF Spec

-----------------------------------------------------------------------------

\* Initially no task is known and nothing is stored.
LEMMA InitIndInv == Init => IndInv
  BY MaxRegAssumption, RegsFacts
     DEF Init, IndInv, TypeOK, Calls, PastInv, DownInv, SuspectInv, SuspectOK

\* PastInv is preserved by every step.
LEMMA PastStep ==
    ASSUME TypeOK, PastInv, DownInv, [Next]_vars
    PROVE  PastInv'
<1> USE RegsFacts, MaxRegAssumption DEF TypeOK, PastInv
<1>1. ASSUME NEW id \in Ids, Insert(id) PROVE PastInv'
  BY <1>1 DEF Insert, Regs
<1>2. CASE \E id \in Ids : CreateTask(id)
  BY <1>1, <1>2 DEF CreateTask
<1>3. CASE \E id \in Ids : RegisterTask(id)
  BY <1>1, <1>3 DEF RegisterTask
<1>4. ASSUME NEW id \in Ids, NEW n \in Regs, Marshal(id, n) PROVE PastInv'
  BY <1>4 DEF Marshal
<1>5. ASSUME NEW id \in Ids, NEW n \in Regs, NEW ok \in PutOutcomes, Put(id, n, ok)
      PROVE PastInv'
  BY <1>5 DEF Put, PutTask
<1>6. ASSUME NEW id \in Ids, NEW s \in Statuses, NEW ok \in PutOutcomes,
             TransitionTask(id, s, ok)
      PROVE PastInv'
  BY <1>6 DEF TransitionTask, PutTask, Known
<1>7. CASE Crash
  BY <1>7 DEF Crash
<1>8. ASSUME NEW loaded \in Loads, RecoverTasks(loaded) PROVE PastInv'
  <2>1. loaded \subseteq Stored
    BY DEF Loads
  <2>2. \A id \in loaded : disk[id] \in reached[id]
    BY <2>1, NoneAssumption DEF Stored
  <2>3. \A id \in Ids, n \in Regs : call[id][n] = "idle"
    BY <1>8 DEF DownInv, RecoverTasks, Regs
  <2>4. QED
    BY <1>8, <2>2, <2>3 DEF RecoverTasks, Regs
<1>9. CASE UNCHANGED vars
  BY <1>9 DEF vars
<1>10. QED
  BY <1>2, <1>3, <1>4, <1>5, <1>6, <1>7, <1>8, <1>9 DEF Next

\* A daemon that is down has no call in progress.
LEMMA DownStep ==
    ASSUME TypeOK, DownInv, [Next]_vars
    PROVE  DownInv'
  BY DEF DownInv, Next, CreateTask, RegisterTask, Insert, Marshal, Put, TransitionTask,
         Crash, RecoverTasks, vars

-----------------------------------------------------------------------------

\* SuspectInv is preserved by every step.
LEMMA SuspectStep ==
    ASSUME IndInv, [Next]_vars
    PROVE  SuspectInv'
<1> SUFFICES ASSUME NEW i \in Ids PROVE SuspectOK(i)'
  BY DEF SuspectInv
<1>0. SuspectOK(i) /\ TypeOK
  BY DEF IndInv, SuspectInv
<1> USE <1>0, RegsFacts, MaxRegAssumption DEF TypeOK, SuspectOK, InFlight, Current
<1>1. ASSUME NEW id \in Ids, Insert(id) PROVE SuspectOK(i)'
  BY <1>1 DEF Insert, Regs, Calls
<1>2. CASE \E id \in Ids : CreateTask(id)
  BY <1>1, <1>2 DEF CreateTask
<1>3. CASE \E id \in Ids : RegisterTask(id)
  BY <1>1, <1>3 DEF RegisterTask
<1>4. ASSUME NEW id \in Ids, NEW n \in Regs, Marshal(id, n) PROVE SuspectOK(i)'
  <2>1. CASE i = id
    BY <1>4, <2>1 DEF Marshal, Calls
  <2>2. CASE i # id
    BY <1>4, <2>2 DEF Marshal
  <2>3. QED
    BY <2>1, <2>2
<1>5. ASSUME NEW id \in Ids, NEW n \in Regs, NEW ok \in PutOutcomes, Put(id, n, ok)
      PROVE SuspectOK(i)'
  <2>1. CASE i = id
    <3>1. ASSUME ~suspect'[id] PROVE ok /\ ~suspect[id]
      BY <1>5, <3>1, Zenon DEF Put
    <3>2. ASSUME ok PROVE disk'[id] = data[id][n]
      BY <1>5, <3>2 DEF Put, PutTask
    <3>3. /\ call[id][n] = "put"
          /\ call' = [call EXCEPT ![id][n] = "idle"]
          /\ up' = up /\ tasks' = tasks /\ status' = status
      BY <1>5 DEF Put
    <3>4. QED
      BY <2>1, <3>1, <3>2, <3>3
  <2>2. CASE i # id
    BY <1>5, <2>2 DEF Put, PutTask
  <2>3. QED
    BY <2>1, <2>2
<1>6. ASSUME NEW id \in Ids, NEW s \in Statuses, NEW ok \in PutOutcomes,
             TransitionTask(id, s, ok)
      PROVE SuspectOK(i)'
  <2>1. CASE i = id
    <3>1. ASSUME ~suspect'[id] PROVE ok /\ ~InFlight(id)
      BY <1>6, <3>1, Zenon DEF TransitionTask
    <3>2. ASSUME ok PROVE disk'[id] = s
      BY <1>6, <3>2 DEF TransitionTask, PutTask
    <3>3. Current(id)' = s /\ call' = call
      BY <1>6 DEF TransitionTask, Known, Regs
    <3>4. QED
      BY <2>1, <3>1, <3>2, <3>3
  <2>2. CASE i # id
    BY <1>6, <2>2 DEF TransitionTask, PutTask
  <2>3. QED
    BY <2>1, <2>2
<1>7. CASE Crash
  BY <1>7 DEF Crash
<1>8. ASSUME NEW loaded \in Loads, RecoverTasks(loaded) PROVE SuspectOK(i)'
  <2>1. ~InFlight(i)'
    <3>1. tasks[i] = 0 /\ call' = call
      BY <1>8 DEF RecoverTasks, IndInv, DownInv
    <3>2. \A n \in Regs : call[i][n] = "idle"
      BY <3>1 DEF IndInv, PastInv, Regs
    <3>3. QED
      BY <3>1, <3>2
  <2>2. ASSUME tasks'[i] # 0 PROVE Current(i)' = disk'[i]
    BY <1>8, <2>2 DEF RecoverTasks
  <2>3. QED
    BY <2>1, <2>2
<1>9. CASE UNCHANGED vars
  BY <1>9 DEF vars
<1>10. QED
  BY <1>2, <1>3, <1>4, <1>5, <1>6, <1>7, <1>8, <1>9 DEF Next

\* The inductive invariant of the engine (engine.go:111-263): what is stored is
\* past, what is not suspect is current.
THEOREM IndInvCorrect == Spec => []IndInv
<1>1. IndInv /\ [Next]_vars => IndInv'
  BY TypeStep, PastStep, DownStep, SuspectStep DEF IndInv
<1>2. QED
  BY InitIndInv, <1>1, PTL DEF Spec

\* The store never runs ahead of the table: whatever a restart can read back is
\* a status the task has had (engine.go persistTask, TransitionTask).
THEOREM DiskIsPastCorrect == Spec => []DiskIsPast
<1>1. IndInv => DiskIsPast
  BY DEF IndInv, PastInv, DiskIsPast
<1>2. QED
  BY IndInvCorrect, <1>1, PTL

\* Store and table agree about a task at rest, except after a failed put or a
\* creating call that overlapped with another change of the task.
THEOREM PersistedUnlessSuspectCorrect == Spec => []PersistedUnlessSuspect
<1>1. IndInv => PersistedUnlessSuspect
  <2> SUFFICES ASSUME IndInv, up, NEW id \in Ids, tasks[id] # 0, ~InFlight(id), ~suspect[id]
               PROVE  disk[id] = Current(id)
    BY DEF PersistedUnlessSuspect
  <2>1. tasks[id] \in Regs
    BY MaxRegAssumption DEF IndInv, TypeOK, Regs
  <2>2. call[id][tasks[id]] = "idle"
    BY <2>1 DEF InFlight
  <2>3. QED
    BY <2>2 DEF IndInv, SuspectInv, SuspectOK
<1>2. QED
  BY IndInvCorrect, <1>1, PTL

-----------------------------------------------------------------------------

\* The abstract view of the table, as in the INSTANCE of TaskLifecycle.
Cur == [id \in Ids |-> IF tasks[id] = 0 THEN None ELSE Current(id)]

\* The engine implements TaskLifecycle: every step of the table is an edge of
\* the status machine, a submission, the loss of the table, a recovery of past
\* statuses, or invisible.
THEOREM LifecycleImplemented == Spec => ImplementsLifecycle
<1>1. Init => Lifecycle!Init
  BY DEF Init, Lifecycle!Init
<1>2. IndInv /\ [Next]_vars => [Lifecycle!Next]_(Lifecycle!vars)
  <2> SUFFICES ASSUME IndInv, [Next]_vars
               PROVE  Lifecycle!Next \/ UNCHANGED Lifecycle!vars
    BY DEF Lifecycle!vars
  <2> USE RegsFacts, MaxRegAssumption, NoneAssumption DEF IndInv, TypeOK, Current
  <2>1. ASSUME NEW id \in Ids, Insert(id) PROVE Lifecycle!Submit(id)
    <3>1. \A i \in Ids : Cur'[i] = IF i = id THEN "SUBMITTED" ELSE Cur[i]
      BY <2>1 DEF Insert, Cur, Regs
    <3>2. Cur' = [Cur EXCEPT ![id] = "SUBMITTED"]
      BY <3>1, Zenon DEF Cur
    <3>3. QED
      BY <2>1, <3>2 DEF Insert, Cur, Lifecycle!Submit
  <2>2. CASE \E id \in Ids : CreateTask(id)
    BY <2>1, <2>2 DEF CreateTask, Lifecycle!Next
  <2>3. CASE \E id \in Ids : RegisterTask(id)
    BY <2>1, <2>3 DEF RegisterTask, Lifecycle!Next
  <2>4. ASSUME NEW id \in Ids, NEW n \in Regs, Marshal(id, n) PROVE UNCHANGED Lifecycle!vars
    BY <2>4 DEF Marshal, Lifecycle!vars
  <2>5. ASSUME NEW id \in Ids, NEW n \in Regs, NEW ok \in PutOutcomes, Put(id, n, ok)
        PROVE UNCHANGED Lifecycle!vars
    BY <2>5 DEF Put, Lifecycle!vars
  <2>6. ASSUME NEW id \in Ids, NEW s \in Statuses, NEW ok \in PutOutcomes,
               TransitionTask(id, s, ok)
        PROVE Lifecycle!Advance(id, s)
    <3>1. tasks[id] \in Regs /\ Accepts(Current(id), s) /\ tasks' = tasks
      BY <2>6 DEF TransitionTask, Known, Regs
    <3>2. Current(id) \in Statuses
      BY <3>1
    <3>3. \A i \in Ids : Cur'[i] = IF i = id THEN s ELSE Cur[i]
      BY <2>6, <3>1 DEF TransitionTask, Cur, Regs
    <3>4. Cur' = [Cur EXCEPT ![id] = s]
      BY <3>3, Zenon DEF Cur
    <3>5. QED
      BY <2>6, <3>1, <3>2, <3>4 DEF TransitionTask, Lifecycle!Advance, Cur, Lifecycle!Accepts, Accepts, Lifecycle!Terminal, Terminal, Lifecycle!validTransitions, validTransitions
  <2>7. CASE Crash
    BY <2>7 DEF Crash, Lifecycle!Next, Lifecycle!Lose
  <2>8. ASSUME NEW loaded \in Loads, RecoverTasks(loaded) PROVE Lifecycle!Restore
    <3>1. \A id \in loaded : disk[id] \in reached[id] /\ disk[id] \in Statuses
      BY DEF Loads, Stored, PastInv
    <3>2. \A id \in Ids : Cur[id] = None
      BY <2>8 DEF RecoverTasks, DownInv, Cur
    <3>3. \A id \in Ids : Cur'[id] = IF id \in loaded THEN disk[id] ELSE None
      BY <2>8, <3>1 DEF RecoverTasks, Cur, Regs
    <3>4. QED
      BY <2>8, <3>1, <3>2, <3>3 DEF RecoverTasks, Lifecycle!Restore, Cur, Lifecycle!Statuses, Statuses
  <2>9. CASE UNCHANGED vars
    BY <2>9 DEF vars, Lifecycle!vars
  <2>10. QED
    BY <2>2, <2>3, <2>4, <2>5, <2>6, <2>7, <2>8, <2>9
       DEF Next, Lifecycle!Next, Lifecycle!Statuses, Statuses
<1>3. QED
  BY <1>1, <1>2, IndInvCorrect, PTL DEF Spec, Lifecycle!Spec, ImplementsLifecycle

-----------------------------------------------------------------------------
(***************************************************************************)
(* The update callback of the engine and notifyUpdate walk the subscribers *)
(* of a task: TaskUpdates, for any set of subscribers, any number of       *)
(* passes, and every bound on the arrays and capacity of the channels.     *)
(* The slice of the map lists the open channels, each once, and a pass     *)
(* that no removal disturbs comes to all who were there when it began.     *)
(***************************************************************************)

Open == {u \in Subs : sub[u] = "open"}

\* Nobody holds a header of an array that is still to be allocated.
ArrayInv ==
    /\ cells \in [Arrays -> Seq(Subs \cup {Free})]
    /\ subs.array <= allocated
    /\ \A n \in Passes : header[n].array <= allocated

\* The slice of the map: its cells are the open channels, no two are the same, and
\* its length counts them.
SliceInv ==
    /\ \A i \in 1..subs.len : cells[subs.array][i] \in Open
    /\ \A u \in Open : \E i \in 1..subs.len : cells[subs.array][i] = u
    /\ \A i, j \in 1..subs.len : cells[subs.array][i] = cells[subs.array][j] => i = j
    /\ IsFiniteSet(Open) /\ subs.len = Cardinality(Open)

\* Where pass n is: while nobody unsubscribes, append writes beyond the length the pass
\* copied, so that whoever it has still to come to is in a cell ahead of it.
Ahead(n) ==
    /\ header[n].array = subs.array => header[n].len <= subs.len
    /\ \A u \in present[n] :
          u \in visited[n] \/ \E i \in index[n]..header[n].len : cells[header[n].array][i] = u

WalkInv ==
    /\ index \in [Passes -> Nat \ {0}] /\ disturbed \in [Passes -> BOOLEAN]
    /\ present \in [Passes -> SUBSET Subs] /\ visited \in [Passes -> SUBSET (Subs \cup {Free})]
    /\ \A n \in Passes :
          /\ pass[n] = "idle" => index[n] = 1
          /\ pass[n] = "walking" /\ ~disturbed[n] => Ahead(n)

UpdatesInv == UpdatesTypeOK /\ ArrayInv /\ SliceInv /\ WalkInv /\ QuietPassReachesAll

-----------------------------------------------------------------------------
(* The backing arrays. *)

\* A function on 1..n is a sequence of length n.
LEMMA FunctionIsSeq ==
    ASSUME NEW S, NEW n \in Nat, NEW f \in [1..n -> S]
    PROVE  f \in Seq(S) /\ Len(f) = n
  OBVIOUS

\* A header within the capacity of its array refers to cells that exist.
LEMMA HeaderCells ==
    ASSUME UpdatesTypeOK, ArrayInv, NEW h \in Header, h.len <= Cap(h)
    PROVE  /\ h.array \in 0..MaxArrays /\ h.len \in Nat
           /\ h.array = 0 => h.len = 0
           /\ h.len > 0 => /\ h.array \in Arrays
                           /\ cells[h.array] \in Seq(Subs \cup {Free})
                           /\ h.len <= Len(cells[h.array])
  BY BoundsAssumption DEF Header, Cap, ArrayInv, Arrays

\* What append writes (router.go:130): one cell, the one behind the slice, or a new
\* array; the slice becomes the old one with u at its end.
LEMMA Appended ==
    ASSUME UpdatesTypeOK, ArrayInv, NEW u \in Subs, SubscribeTaskUpdates(u)
    PROVE  /\ cells' \in [Arrays -> Seq(Subs \cup {Free})]
           /\ subs' \in Header /\ subs'.array \in Arrays
           /\ subs'.len = subs.len + 1 /\ subs'.len <= Len(cells'[subs'.array])
           /\ allocated' \in 0..MaxArrays /\ allocated <= allocated' /\ subs'.array <= allocated'
           /\ subs'.array = subs.array \/ subs'.array = allocated + 1
           /\ cells'[subs'.array][subs.len + 1] = u
           /\ \A i \in 1..subs.len : cells'[subs'.array][i] = cells[subs.array][i]
           /\ \A a \in Arrays : a <= allocated =>
                 /\ Len(cells'[a]) = Len(cells[a])
                 /\ \A i \in 1..Len(cells[a]) :
                       ~(a = subs.array /\ i = subs.len + 1) => cells'[a][i] = cells[a][i]
<1> DEFINE Cell == Subs \cup {Free}
<1>1. /\ subs \in Header /\ subs.len <= Cap(subs) /\ subs.array <= allocated
      /\ allocated \in 0..MaxArrays /\ MaxArrays \in Nat
      /\ cells \in [Arrays -> Seq(Cell)]
  BY BoundsAssumption DEF UpdatesTypeOK, ArrayInv
<1>2. /\ subs.array \in 0..MaxArrays /\ subs.len \in Nat
      /\ subs.array = 0 => subs.len = 0
      /\ subs.len > 0 => subs.array \in Arrays
  BY <1>1, HeaderCells
<1>3. CASE Cap(subs) > subs.len
  <2>1. /\ cells' = [cells EXCEPT ![subs.array][subs.len + 1] = u]
        /\ subs' = [subs EXCEPT !.len = @ + 1] /\ allocated' = allocated
    BY <1>3 DEF SubscribeTaskUpdates
  <2>2. subs.array \in Arrays /\ subs.len + 1 \in 1..Len(cells[subs.array])
    BY <1>1, <1>2, <1>3 DEF Cap, Arrays
  <2>3. /\ [cells[subs.array] EXCEPT ![subs.len + 1] = u] \in Seq(Cell)
        /\ Len([cells[subs.array] EXCEPT ![subs.len + 1] = u]) = Len(cells[subs.array])
    BY <1>1, <2>2
  <2>4. /\ cells' \in [Arrays -> Seq(Cell)]
        /\ cells'[subs.array] = [cells[subs.array] EXCEPT ![subs.len + 1] = u]
        /\ \A a \in Arrays : a # subs.array => cells'[a] = cells[a]
    BY <1>1, <2>1, <2>2, <2>3
  <2>5. subs' \in Header /\ subs'.array = subs.array /\ subs'.len = subs.len + 1
    BY <1>1, <1>2, <2>1 DEF Header
  <2>6. \A i \in 1..Len(cells[subs.array]) :
            cells'[subs.array][i] = IF i = subs.len + 1 THEN u ELSE cells[subs.array][i]
    BY <1>1, <2>2, <2>4
  <2>7. \A a \in Arrays : Len(cells'[a]) = Len(cells[a])
    BY <2>3, <2>4
  <2>8. QED
    BY <1>1, <1>2, <2>1, <2>2, <2>4, <2>5, <2>6, <2>7
<1>4. CASE ~(Cap(subs) > subs.len)
  <2> DEFINE size == IF subs.len = 0 THEN 1 ELSE 2 * subs.len
  <2>1. /\ allocated < MaxArrays /\ allocated' = allocated + 1
        /\ cells' = [cells EXCEPT ![allocated + 1] = Grown(subs, u)]
        /\ subs' = [array |-> allocated + 1, len |-> subs.len + 1]
    BY <1>4 DEF SubscribeTaskUpdates
  <2>2. size \in Nat /\ subs.len + 1 <= size
    BY <1>2
  <2>3. \A i \in 1..subs.len : cells[subs.array][i] \in Cell
    BY <1>1, <1>2, HeaderCells
  <2>4. Grown(subs, u) \in [1..size -> Cell]
    BY <1>2, <2>2, <2>3 DEF Grown
  <2>5. Grown(subs, u) \in Seq(Cell) /\ Len(Grown(subs, u)) = size
    BY <2>2, <2>4, FunctionIsSeq
  <2>6. allocated + 1 \in Arrays
    BY <1>1, <2>1 DEF Arrays
  <2>7. /\ cells' \in [Arrays -> Seq(Cell)]
        /\ cells'[allocated + 1] = Grown(subs, u)
        /\ \A a \in Arrays : a # allocated + 1 => cells'[a] = cells[a]
    BY <1>1, <2>1, <2>5, <2>6
  <2>8. subs' \in Header /\ subs'.array = allocated + 1 /\ subs'.len = subs.len + 1
    BY <1>1, <1>2, <2>1 DEF Header
  <2>9. /\ Grown(subs, u)[subs.len + 1] = u
        /\ \A i \in 1..subs.len : Grown(subs, u)[i] = cells[subs.array][i]
    BY <1>2, <2>2 DEF Grown
  <2>10. \A a \in Arrays : a <= allocated => cells'[a] = cells[a]
    BY <1>1, <2>7 DEF Arrays
  <2>11. QED
    BY <1>1, <1>2, <2>1, <2>2, <2>5, <2>6, <2>7, <2>8, <2>9, <2>10
<1>5. QED
  BY <1>3, <1>4

\* What a removal writes (router.go:143-150): the cells behind u move down by one, in
\* place; no array changes its capacity.
LEMMA Removed ==
    ASSUME UpdatesTypeOK, ArrayInv, SliceInv, NEW u \in Subs, UnsubscribeTaskUpdates(u)
    PROVE  /\ cells' \in [Arrays -> Seq(Subs \cup {Free})]
           /\ \A a \in Arrays : Len(cells'[a]) = Len(cells[a])
           /\ subs' \in Header /\ subs'.len = subs.len - 1
           /\ subs'.array = (IF subs.len = 1 THEN 0 ELSE subs.array)
           /\ subs'.len > 0 => subs'.array \in Arrays
           /\ \E p \in 1..subs.len :
                 /\ cells[subs.array][p] = u
                 /\ \A j \in 1..subs.len - 1 : cells'[subs.array][j] =
                       (IF j >= p THEN cells[subs.array][j + 1] ELSE cells[subs.array][j])
<1> DEFINE Cell == Subs \cup {Free}
           p    == Position(subs, u)
           a    == subs.array
<1>1. /\ subs \in Header /\ subs.len <= Cap(subs) /\ MaxArrays \in Nat
      /\ cells \in [Arrays -> Seq(Cell)]
  BY BoundsAssumption DEF UpdatesTypeOK, ArrayInv
<1>2. u \in Open
  BY DEF UnsubscribeTaskUpdates, Open
<1>3. p \in 1..subs.len /\ cells[a][p] = u
  BY <1>2 DEF SliceInv, Position
<1>4. /\ a \in Arrays /\ subs.len \in Nat /\ subs.len > 0
      /\ cells[a] \in Seq(Cell) /\ subs.len <= Len(cells[a])
  BY <1>1, <1>3, HeaderCells
<1>5. Cap(subs) = Len(cells[a]) /\ Len(cells[a]) \in Nat
  BY <1>1, <1>4 DEF Cap, Arrays
<1>6. Shifted(subs, p) \in [1..Len(cells[a]) -> Cell]
  BY <1>3, <1>4, <1>5 DEF Shifted
<1>7. Shifted(subs, p) \in Seq(Cell) /\ Len(Shifted(subs, p)) = Len(cells[a])
  BY <1>5, <1>6, FunctionIsSeq
<1>8. cells' = [cells EXCEPT ![a] = Shifted(subs, p)]
  BY DEF UnsubscribeTaskUpdates
<1>9. /\ cells' \in [Arrays -> Seq(Cell)] /\ cells'[a] = Shifted(subs, p)
      /\ \A b \in Arrays : Len(cells'[b]) = Len(cells[b])
  BY <1>1, <1>4, <1>7, <1>8
<1>10. \A j \in 1..subs.len - 1 : Shifted(subs, p)[j] =
           (IF j >= p THEN cells[a][j + 1] ELSE cells[a][j])
  BY <1>3, <1>4, <1>5 DEF Shifted
<1>11. subs' = IF subs.len = 1 THEN Nil ELSE [subs EXCEPT !.len = @ - 1]
  BY DEF UnsubscribeTaskUpdates
<1>12. /\ subs' \in Header /\ subs'.len = subs.len - 1
       /\ subs'.array = (IF subs.len = 1 THEN 0 ELSE a)
  BY <1>1, <1>4, <1>11 DEF Header, Nil
<1>13. subs'.len > 0 => subs'.array \in Arrays
  BY <1>4, <1>12
<1>14. \E q \in 1..subs.len :
          /\ cells[subs.array][q] = u
          /\ \A j \in 1..subs.len - 1 : cells'[subs.array][j] =
                (IF j >= q THEN cells[subs.array][j + 1] ELSE cells[subs.array][j])
  BY <1>3, <1>9, <1>10
<1>15. QED
  BY <1>9, <1>12, <1>13, <1>14

-----------------------------------------------------------------------------
(* The inductive invariant. *)

\* Initially there is no slice, no subscriber and no pass.
LEMMA UpdatesInvInit == UpdatesInit => UpdatesInv
<1> SUFFICES ASSUME UpdatesInit PROVE UpdatesInv
  OBVIOUS
<1> USE DEF UpdatesInit
<1>1. UpdatesTypeOK
  <2>1. Nil \in Header /\ Nil.len <= Cap(Nil)
    BY BoundsAssumption DEF Nil, Header, Cap
  <2>2. \A a \in Arrays : cells[a] \in Seq(Subs \cup {Free})
    OBVIOUS
  <2>3. allocated \in 0..MaxArrays /\ queued \in [Subs -> 0..ChanCap]
    BY BoundsAssumption
  <2>4. \A n \in Passes : header[n] = Nil
    OBVIOUS
  <2>5. QED
    BY <2>1, <2>2, <2>3, <2>4 DEF UpdatesTypeOK
<1>2. ArrayInv
  BY DEF ArrayInv, Nil
<1>3. Open = {}
  BY DEF Open
<1>4. SliceInv
  BY <1>3, FS_EmptySet DEF SliceInv, Nil
<1>5. WalkInv /\ QuietPassReachesAll
  BY DEF WalkInv, QuietPassReachesAll
<1>6. QED
  BY <1>1, <1>2, <1>4, <1>5 DEF UpdatesInv

\* A subscription preserves the invariant.
LEMMA SubscribeStep ==
    ASSUME UpdatesInv, NEW u \in Subs, SubscribeTaskUpdates(u)
    PROVE  UpdatesInv'
<1>1. UpdatesTypeOK /\ ArrayInv /\ SliceInv /\ WalkInv /\ QuietPassReachesAll
  BY DEF UpdatesInv
<1>2. /\ sub[u] = "idle" /\ sub' = [sub EXCEPT ![u] = "open"]
      /\ UNCHANGED <<queued, pass, header, index, panicked, present, visited, disturbed>>
  BY DEF SubscribeTaskUpdates
<1>3. /\ cells' \in [Arrays -> Seq(Subs \cup {Free})]
      /\ subs' \in Header /\ subs'.array \in Arrays
      /\ subs'.len = subs.len + 1 /\ subs'.len <= Len(cells'[subs'.array])
      /\ allocated' \in 0..MaxArrays /\ allocated <= allocated' /\ subs'.array <= allocated'
      /\ subs'.array = subs.array \/ subs'.array = allocated + 1
      /\ cells'[subs'.array][subs.len + 1] = u
      /\ \A i \in 1..subs.len : cells'[subs'.array][i] = cells[subs.array][i]
      /\ \A a \in Arrays : a <= allocated =>
            /\ Len(cells'[a]) = Len(cells[a])
            /\ \A i \in 1..Len(cells[a]) :
                  ~(a = subs.array /\ i = subs.len + 1) => cells'[a][i] = cells[a][i]
  BY <1>1, Appended
<1>4. subs.len \in Nat /\ allocated \in Nat /\ MaxArrays \in Nat
  BY <1>1, BoundsAssumption DEF UpdatesTypeOK, Header
<1>5. \A n \in Passes :
          /\ header[n] \in Header /\ header[n].array <= allocated
          /\ header[n].len > 0 => /\ header[n].array \in Arrays
                                  /\ header[n].len <= Len(cells[header[n].array])
          /\ header[n].array \in 0..MaxArrays /\ header[n].len \in Nat
          /\ header[n].array = 0 => header[n].len = 0
  BY <1>1, HeaderCells DEF UpdatesTypeOK, ArrayInv
<1>6. UpdatesTypeOK'
  <2>1. \A a \in Arrays : cells'[a] \in Seq(Subs \cup {Free})
    BY <1>3
  <2>2. subs'.len <= Cap(subs)'
    BY <1>3 DEF Cap, Arrays
  <2>3. ASSUME NEW n \in Passes PROVE header[n].len <= Cap(header[n])'
    <3>1. CASE header[n].array = 0
      BY <1>5, <3>1 DEF Cap
    <3>2. CASE header[n].array # 0
      <4>1. header[n].array \in Arrays /\ header[n].len <= Len(cells[header[n].array])
        BY <1>1, <1>5, <3>2 DEF Arrays, UpdatesTypeOK, Cap
      <4>2. Len(cells'[header[n].array]) = Len(cells[header[n].array])
        BY <1>3, <1>5, <4>1
      <4>3. QED
        BY <1>2, <3>2, <4>1, <4>2 DEF Cap
    <3>3. QED
      BY <3>1, <3>2
  <2>4. sub' \in [Subs -> {"idle", "open", "closed"}]
    BY <1>1, <1>2 DEF UpdatesTypeOK
  <2>5. \A n \in Passes : (header[n].len <= Cap(header[n]))'
    BY <1>2, <2>3 DEF Cap
  <2>6. QED
    BY <1>1, <1>2, <1>3, <2>1, <2>2, <2>4, <2>5 DEF UpdatesTypeOK
<1>7. ArrayInv'
  BY <1>1, <1>2, <1>3, <1>4, <1>5 DEF ArrayInv, Header
<1>8. Open' = Open \cup {u} /\ u \notin Open
  BY <1>1, <1>2 DEF Open, UpdatesTypeOK
<1>9. SliceInv'
  <2>1. \A i \in 1..subs.len + 1 : cells'[subs'.array][i] =
            IF i = subs.len + 1 THEN u ELSE cells[subs.array][i]
    BY <1>3, <1>4
  <2>2. \A i \in 1..subs.len : cells[subs.array][i] \in Open
    BY <1>1 DEF SliceInv
  <2>3. \A i \in 1..subs'.len : cells'[subs'.array][i] \in Open'
    BY <1>3, <1>4, <1>8, <2>1, <2>2
  <2>4. \A v \in Open' : \E i \in 1..subs'.len : cells'[subs'.array][i] = v
    <3>1. ASSUME NEW v \in Open PROVE \E i \in 1..subs'.len : cells'[subs'.array][i] = v
      <4>1. PICK i \in 1..subs.len : cells[subs.array][i] = v
        BY <1>1 DEF SliceInv
      <4>2. i \in 1..subs'.len /\ cells'[subs'.array][i] = cells[subs.array][i]
        BY <1>3, <1>4
      <4>3. QED
        BY <4>1, <4>2
    <3>2. subs.len + 1 \in 1..subs'.len
      BY <1>3, <1>4
    <3>3. QED
      BY <1>3, <1>8, <3>1, <3>2
  <2>5. \A i, j \in 1..subs.len : cells[subs.array][i] = cells[subs.array][j] => i = j
    BY <1>1 DEF SliceInv
  <2>6. \A i, j \in 1..subs'.len : cells'[subs'.array][i] = cells'[subs'.array][j] => i = j
    BY <1>3, <1>4, <1>8, <2>1, <2>2, <2>5
  <2>7. IsFiniteSet(Open) /\ subs.len = Cardinality(Open)
    BY <1>1 DEF SliceInv
  <2>8. IsFiniteSet(Open \cup {u}) /\ Cardinality(Open \cup {u}) = Cardinality(Open) + 1
    BY <1>8, <2>7, FS_AddElement
  <2>9. QED
    BY <1>3, <1>8, <2>3, <2>4, <2>6, <2>7, <2>8 DEF SliceInv
<1>10. WalkInv'
  <2>1. ASSUME NEW n \in Passes, pass[n] = "walking", ~disturbed[n] PROVE Ahead(n)'
    <3>1. Ahead(n)
      BY <1>1, <2>1 DEF WalkInv
    <3>2. header[n].array = subs'.array => header[n].len <= subs'.len
      BY <1>3, <1>4, <1>5, <3>1 DEF Ahead
    <3>3. ASSUME NEW i \in index[n]..header[n].len
          PROVE  cells'[header[n].array][i] = cells[header[n].array][i]
      <4>1. index[n] \in Nat \ {0}
        BY <1>1 DEF WalkInv
      <4>2. i \in 1..Len(cells[header[n].array]) /\ header[n].array \in Arrays
        BY <1>1, <1>5, <3>3, <4>1 DEF ArrayInv
      <4>3. ~(header[n].array = subs.array /\ i = subs.len + 1)
        BY <1>4, <1>5, <3>1, <3>3, <4>1 DEF Ahead
      <4>4. QED
        BY <1>3, <1>5, <4>2, <4>3
    <3>4. QED
      BY <1>2, <3>1, <3>2, <3>3 DEF Ahead
  <2>2. QED
    BY <1>1, <1>2, <2>1 DEF WalkInv
<1>11. QuietPassReachesAll'
  BY <1>1, <1>2 DEF QuietPassReachesAll
<1>12. QED
  BY <1>6, <1>7, <1>9, <1>10, <1>11 DEF UpdatesInv

\* A removal preserves the invariant: it moves cells under the passes that walk, which
\* are disturbed from then on.
LEMMA UnsubscribeStep ==
    ASSUME UpdatesInv, NEW u \in Subs, UnsubscribeTaskUpdates(u)
    PROVE  UpdatesInv'
<1>1. UpdatesTypeOK /\ ArrayInv /\ SliceInv /\ WalkInv /\ QuietPassReachesAll
  BY DEF UpdatesInv
<1>2. /\ sub[u] = "open" /\ sub' = [sub EXCEPT ![u] = "closed"]
      /\ present' = [n \in Passes |-> present[n] \ {u}]
      /\ disturbed' = [n \in Passes |-> disturbed[n] \/ pass[n] = "walking"]
      /\ UNCHANGED <<allocated, queued, pass, header, index, panicked, visited>>
  BY DEF UnsubscribeTaskUpdates, ClosedBy
<1>3. /\ cells' \in [Arrays -> Seq(Subs \cup {Free})]
      /\ \A a \in Arrays : Len(cells'[a]) = Len(cells[a])
      /\ subs' \in Header /\ subs'.len = subs.len - 1
      /\ subs'.array = (IF subs.len = 1 THEN 0 ELSE subs.array)
      /\ subs'.len > 0 => subs'.array \in Arrays
  BY <1>1, Removed
<1>4. PICK p \in 1..subs.len :
         /\ cells[subs.array][p] = u
         /\ \A j \in 1..subs.len - 1 : cells'[subs.array][j] =
               (IF j >= p THEN cells[subs.array][j + 1] ELSE cells[subs.array][j])
  BY <1>1, Removed
<1>5. /\ subs \in Header /\ subs.len \in Nat /\ subs.len > 0 /\ subs.array \in Arrays
      /\ subs.len <= Len(cells[subs.array])
  BY <1>1, <1>4, HeaderCells DEF UpdatesTypeOK
<1>6. UpdatesTypeOK'
  <2>1. \A a \in Arrays : cells'[a] \in Seq(Subs \cup {Free})
    BY <1>3
  <2>2. (subs.len <= Cap(subs))'
    <3>1. CASE subs.len = 1
      BY <1>3, <3>1 DEF Cap
    <3>2. CASE subs.len # 1
      <4>1. subs'.array = subs.array /\ subs.array # 0
        BY <1>3, <1>5, <3>2 DEF Arrays
      <4>2. Len(cells'[subs.array]) = Len(cells[subs.array]) /\ Len(cells[subs.array]) \in Nat
        BY <1>1, <1>3, <1>5 DEF ArrayInv
      <4>3. QED
        BY <1>3, <1>5, <4>1, <4>2 DEF Cap
    <3>3. QED
      BY <3>1, <3>2
  <2>3. ASSUME NEW n \in Passes PROVE (header[n].len <= Cap(header[n]))'
    <3>1. header[n] \in Header /\ header[n].len <= Cap(header[n])
      BY <1>1 DEF UpdatesTypeOK
    <3>2. CASE header[n].array = 0
      BY <1>2, <3>1, <3>2 DEF Cap
    <3>3. CASE header[n].array # 0
      <4>1. header[n].array \in Arrays
        BY <3>1, <3>3, BoundsAssumption DEF Header, Arrays
      <4>2. QED
        BY <1>2, <1>3, <3>1, <3>3, <4>1 DEF Cap
    <3>4. QED
      BY <3>2, <3>3
  <2>4. sub' \in [Subs -> {"idle", "open", "closed"}]
    BY <1>1, <1>2 DEF UpdatesTypeOK
  <2>5. QED
    BY <1>1, <1>2, <1>3, <2>1, <2>2, <2>3, <2>4 DEF UpdatesTypeOK
<1>7. ArrayInv'
  <2>1. subs'.array <= allocated
    BY <1>1, <1>3, BoundsAssumption DEF ArrayInv, UpdatesTypeOK
  <2>2. QED
    BY <1>1, <1>2, <1>3, <2>1 DEF ArrayInv
<1>8. Open' = Open \ {u} /\ u \in Open
  BY <1>1, <1>2 DEF Open, UpdatesTypeOK
<1>9. SliceInv'
  <2> DEFINE old(i) == cells[subs.array][i]
             new(i) == cells'[subs'.array][i]
  <2>1. \A i \in 1..subs.len : old(i) \in Open
    BY <1>1 DEF SliceInv
  <2>2. \A i, j \in 1..subs.len : old(i) = old(j) => i = j
    BY <1>1 DEF SliceInv
  <2>3. \A v \in Open : \E i \in 1..subs.len : old(i) = v
    BY <1>1 DEF SliceInv
  <2>4. ASSUME NEW j \in 1..subs'.len
        PROVE  /\ j \in 1..subs.len - 1
               /\ new(j) = IF j >= p THEN old(j + 1) ELSE old(j)
    <3>1. j \in 1..subs.len - 1 /\ subs'.array = subs.array
      BY <1>3, <1>5
    <3>2. QED
      BY <1>4, <3>1
  <2> HIDE DEF old, new
  <2>5. \A i \in 1..subs'.len : new(i) \in Open'
    BY <1>4, <1>5, <1>8, <2>1, <2>2, <2>4 DEF old
  <2>6. ASSUME NEW v \in Open' PROVE \E i \in 1..subs'.len : new(i) = v
    <3>1. PICK k \in 1..subs.len : old(k) = v
      BY <1>8, <2>3
    <3>2. k # p
      BY <1>4, <1>8, <3>1 DEF old
    <3>3. CASE k < p
      <4>1. k \in 1..subs'.len
        BY <1>3, <1>5, <3>3
      <4>2. QED
        BY <2>4, <3>1, <3>3, <4>1
    <3>4. CASE k > p
      <4>1. k - 1 \in 1..subs'.len /\ k - 1 >= p /\ (k - 1) + 1 = k
        BY <1>3, <1>5, <3>4
      <4>2. new(k - 1) = old(k)
        BY <2>4, <4>1
      <4>3. QED
        BY <3>1, <4>1, <4>2
    <3>5. QED
      BY <1>5, <3>2, <3>3, <3>4
  <2>7. ASSUME NEW i \in 1..subs'.len, NEW j \in 1..subs'.len, new(i) = new(j) PROVE i = j
    <3> DEFINE from(k) == IF k >= p THEN k + 1 ELSE k
    <3>1. /\ i \in 1..subs.len - 1 /\ new(i) = old(from(i))
          /\ j \in 1..subs.len - 1 /\ new(j) = old(from(j))
      BY <2>4
    <3>2. from(i) \in 1..subs.len /\ from(j) \in 1..subs.len
      BY <1>5, <3>1
    <3>3. from(i) = from(j)
      BY <2>2, <2>7, <3>1, <3>2
    <3>4. QED
      BY <1>5, <3>1, <3>3
  <2>8. IsFiniteSet(Open) /\ subs.len = Cardinality(Open)
    BY <1>1 DEF SliceInv
  <2>9. IsFiniteSet(Open \ {u}) /\ Cardinality(Open \ {u}) = Cardinality(Open) - 1
    BY <1>8, <2>8, FS_RemoveElement
  <2>10. QED
    BY <1>3, <1>8, <2>5, <2>6, <2>7, <2>8, <2>9 DEF SliceInv, new
<1>10. WalkInv'
  <2>1. \A n \in Passes : ~(pass'[n] = "walking" /\ ~disturbed'[n])
    BY <1>2
  <2>2. disturbed' \in [Passes -> BOOLEAN] /\ present' \in [Passes -> SUBSET Subs]
    BY <1>1, <1>2 DEF WalkInv
  <2>3. QED
    BY <1>1, <1>2, <2>1, <2>2 DEF WalkInv
<1>11. QuietPassReachesAll'
  BY <1>1, <1>2 DEF QuietPassReachesAll
<1>12. QED
  BY <1>6, <1>7, <1>9, <1>10, <1>11 DEF UpdatesInv

\* A pass begins: the cells of the slice are ahead of it.
LEMMA NotifyStep ==
    ASSUME UpdatesInv, NEW n \in Passes, Notify(n)
    PROVE  UpdatesInv'
<1>1. UpdatesTypeOK /\ ArrayInv /\ SliceInv /\ WalkInv /\ QuietPassReachesAll
  BY DEF UpdatesInv
<1>2. /\ pass[n] = "idle"
      /\ header' = [header EXCEPT ![n] = subs]
      /\ pass' = [pass EXCEPT ![n] = "walking"]
      /\ present' = [present EXCEPT ![n] = Open]
      /\ UNCHANGED <<cells, allocated, subs, sub, queued, index, panicked, visited, disturbed>>
  BY DEF Notify, Open
<1>3. UpdatesTypeOK'
  BY <1>1, <1>2 DEF UpdatesTypeOK, Cap
<1>4. ArrayInv' /\ SliceInv'
  BY <1>1, <1>2 DEF UpdatesTypeOK, ArrayInv, SliceInv, Open
<1>5. WalkInv'
  <2>1. Ahead(n)'
    <3>1. header'[n] = subs /\ present'[n] = Open /\ index[n] = 1 /\ subs.len \in Nat
      BY <1>1, <1>2 DEF UpdatesTypeOK, WalkInv, Header
    <3>2. \A u \in Open : \E i \in 1..subs.len : cells[subs.array][i] = u
      BY <1>1 DEF SliceInv
    <3>3. QED
      BY <1>2, <3>1, <3>2 DEF Ahead
  <2>2. ASSUME NEW m \in Passes, m # n, pass[m] = "walking", ~disturbed[m] PROVE Ahead(m)'
    <3>1. Ahead(m) /\ header'[m] = header[m] /\ present'[m] = present[m]
      BY <1>1, <1>2, <2>2 DEF WalkInv, UpdatesTypeOK
    <3>2. QED
      BY <1>2, <3>1 DEF Ahead
  <2>3. present' \in [Passes -> SUBSET Subs]
    BY <1>1, <1>2 DEF WalkInv, Open
  <2>4. \A m \in Passes : pass'[m] = IF m = n THEN "walking" ELSE pass[m]
    BY <1>1, <1>2 DEF UpdatesTypeOK
  <2>5. QED
    BY <1>1, <1>2, <2>1, <2>2, <2>3, <2>4 DEF WalkInv
<1>6. QuietPassReachesAll'
  BY <1>1, <1>2 DEF QuietPassReachesAll, UpdatesTypeOK, WalkInv
<1>7. QED
  BY <1>3, <1>4, <1>5, <1>6 DEF UpdatesInv

\* A pass goes on: the channel it has come to is one it has visited.
LEMMA SendStep ==
    ASSUME UpdatesInv, NEW n \in Passes, Send(n)
    PROVE  UpdatesInv'
<1> DEFINE u == ChannelAt(n)
<1>1. UpdatesTypeOK /\ ArrayInv /\ SliceInv /\ WalkInv /\ QuietPassReachesAll
  BY DEF UpdatesInv
<1>2. /\ pass[n] = "walking" /\ index[n] <= header[n].len
      /\ panicked' = (sub[u] = "closed")
      /\ queued' = IF sub[u] = "open" /\ queued[u] < ChanCap
                   THEN [queued EXCEPT ![u] = @ + 1] ELSE queued
      /\ visited' = [visited EXCEPT ![n] = @ \cup {u}]
      /\ index' = [index EXCEPT ![n] = @ + 1]
      /\ UNCHANGED <<cells, allocated, subs, sub, pass, header, present, disturbed>>
  BY DEF Send
<1>3. u \in Subs \cup {Free}
  <2>1. header[n] \in Header /\ header[n].len <= Cap(header[n]) /\ index[n] \in Nat \ {0}
    BY <1>1 DEF UpdatesTypeOK, WalkInv
  <2>2. /\ cells[header[n].array] \in Seq(Subs \cup {Free})
        /\ index[n] \in 1..Len(cells[header[n].array])
    BY <1>1, <1>2, <2>1, HeaderCells
  <2>3. QED
    BY <2>2 DEF ChannelAt
<1>4. UpdatesTypeOK'
  <2>1. queued' \in [Subs -> 0..ChanCap]
    <3> HIDE DEF u
    <3>1. queued \in [Subs -> 0..ChanCap] /\ ChanCap \in Nat
      BY <1>1, BoundsAssumption DEF UpdatesTypeOK
    <3>2. CASE u \notin Subs
      BY <1>2, <3>1, <3>2
    <3>3. CASE u \in Subs
      BY <1>2, <3>1, <3>3
    <3>4. QED
      BY <3>2, <3>3
  <2>2. panicked' \in BOOLEAN
    BY <1>2
  <2>3. QED
    BY <1>1, <1>2, <2>1, <2>2 DEF UpdatesTypeOK, Cap
<1>5. ArrayInv' /\ SliceInv'
  BY <1>1, <1>2 DEF ArrayInv, SliceInv, Open
<1>6. WalkInv'
  <2>1. ASSUME ~disturbed[n] PROVE Ahead(n)'
    <3>1. Ahead(n)
      BY <1>1, <1>2, <2>1 DEF WalkInv
    <3>2. index'[n] = index[n] + 1 /\ visited'[n] = visited[n] \cup {u} /\ index[n] \in Nat
      BY <1>1, <1>2 DEF WalkInv
    <3>3. header[n].len \in Nat
      BY <1>1 DEF UpdatesTypeOK, Header
    <3>4. \A i \in index[n]..header[n].len :
              cells[header[n].array][i] = u \/ i \in (index[n] + 1)..header[n].len
      BY <3>2, <3>3 DEF ChannelAt
    <3>5. QED
      BY <1>2, <3>1, <3>2, <3>4 DEF Ahead
  <2>2. ASSUME NEW m \in Passes, m # n, pass[m] = "walking", ~disturbed[m] PROVE Ahead(m)'
    <3>1. Ahead(m) /\ index'[m] = index[m] /\ visited'[m] = visited[m]
      BY <1>1, <1>2, <2>2 DEF WalkInv
    <3>2. QED
      BY <1>2, <3>1 DEF Ahead
  <2>3. /\ index' \in [Passes -> Nat \ {0}]
        /\ visited' \in [Passes -> SUBSET (Subs \cup {Free})]
    BY <1>1, <1>2, <1>3 DEF WalkInv
  <2>4. \A m \in Passes : pass[m] = "idle" => index'[m] = 1
    BY <1>1, <1>2 DEF WalkInv
  <2>5. QED
    BY <1>1, <1>2, <2>1, <2>2, <2>3, <2>4 DEF WalkInv
<1>7. QuietPassReachesAll'
  BY <1>1, <1>2 DEF QuietPassReachesAll, UpdatesTypeOK, WalkInv
<1>8. QED
  BY <1>4, <1>5, <1>6, <1>7 DEF UpdatesInv

\* A pass ends: nothing is ahead of it any more.
LEMMA EndPassStep ==
    ASSUME UpdatesInv, NEW n \in Passes, EndPass(n)
    PROVE  UpdatesInv'
<1>1. UpdatesTypeOK /\ ArrayInv /\ SliceInv /\ WalkInv /\ QuietPassReachesAll
  BY DEF UpdatesInv
<1>2. /\ pass[n] = "walking" /\ index[n] > header[n].len
      /\ pass' = [pass EXCEPT ![n] = "done"]
      /\ UNCHANGED <<cells, allocated, subs, sub, queued, header, index, panicked,
                     present, visited, disturbed>>
  BY DEF EndPass
<1>3. UpdatesTypeOK' /\ ArrayInv' /\ SliceInv'
  BY <1>1, <1>2 DEF UpdatesTypeOK, ArrayInv, SliceInv, Open, Cap
<1>4. \A m \in Passes : pass'[m] = IF m = n THEN "done" ELSE pass[m]
  BY <1>1, <1>2 DEF UpdatesTypeOK
<1>5. WalkInv'
  BY <1>1, <1>2, <1>4 DEF WalkInv, Ahead
<1>6. ~disturbed[n] => present[n] \subseteq visited[n]
  <2>1. index[n] \in Nat /\ header[n].len \in Nat
    BY <1>1 DEF UpdatesTypeOK, WalkInv, Header
  <2>2. QED
    BY <1>1, <1>2, <2>1 DEF WalkInv, Ahead
<1>7. QuietPassReachesAll'
  BY <1>1, <1>2, <1>4, <1>6 DEF QuietPassReachesAll
<1>8. QED
  BY <1>3, <1>5, <1>7 DEF UpdatesInv

\* A client takes an event: only its channel changes.
LEMMA TakeStep ==
    ASSUME UpdatesInv, NEW u \in Subs, Take(u)
    PROVE  UpdatesInv'
<1>1. UpdatesTypeOK /\ ArrayInv /\ SliceInv /\ WalkInv /\ QuietPassReachesAll
  BY DEF UpdatesInv
<1>2. /\ queued[u] > 0 /\ queued' = [queued EXCEPT ![u] = @ - 1]
      /\ UNCHANGED <<cells, allocated, subs, sub, pass, header, index, panicked,
                     present, visited, disturbed>>
  BY DEF Take
<1>3. queued' \in [Subs -> 0..ChanCap]
  BY <1>1, <1>2, BoundsAssumption DEF UpdatesTypeOK
<1>4. UpdatesTypeOK'
  BY <1>1, <1>2, <1>3 DEF UpdatesTypeOK, Cap
<1>5. ArrayInv' /\ SliceInv' /\ QuietPassReachesAll'
  BY <1>1, <1>2 DEF ArrayInv, SliceInv, Open, QuietPassReachesAll
<1>6. WalkInv'
  BY <1>1, <1>2 DEF WalkInv, Ahead
<1>7. QED
  BY <1>4, <1>5, <1>6 DEF UpdatesInv

\* No step of the router or of a subscriber leaves the invariant.
LEMMA UpdatesInvStep == UpdatesInv /\ [UpdatesNext]_updateVars => UpdatesInv'
<1> SUFFICES ASSUME UpdatesInv, [UpdatesNext]_updateVars PROVE UpdatesInv'
  OBVIOUS
<1>1. CASE UpdatesNext
  BY <1>1, SubscribeStep, UnsubscribeStep, TakeStep, NotifyStep, SendStep, EndPassStep DEF UpdatesNext
<1>2. CASE UNCHANGED updateVars
  <2>1. UpdatesTypeOK /\ ArrayInv /\ SliceInv /\ WalkInv /\ QuietPassReachesAll
    BY DEF UpdatesInv
  <2>2. UpdatesTypeOK' /\ ArrayInv' /\ QuietPassReachesAll'
    BY <1>2, <2>1 DEF updateVars, UpdatesTypeOK, Cap, ArrayInv, QuietPassReachesAll
  <2>3. SliceInv'
    BY <1>2, <2>1 DEF updateVars, SliceInv, Open
  <2>4. WalkInv'
    BY <1>2, <2>1 DEF updateVars, WalkInv, Ahead
  <2>5. QED
    BY <2>2, <2>3, <2>4 DEF UpdatesInv
<1>3. QED
  BY <1>1, <1>2

-----------------------------------------------------------------------------

\* The invariant behind the theorems about the slice and about the passes.
THEOREM UpdatesInvCorrect == UpdatesSpec => []UpdatesInv
  BY UpdatesInvInit, UpdatesInvStep, PTL DEF UpdatesSpec

\* The types, the channels within their capacity and every header within its array.
THEOREM UpdatesTypeCorrect == UpdatesSpec => []UpdatesTypeOK
<1>1. UpdatesInv => UpdatesTypeOK
  BY DEF UpdatesInv
<1>2. QED
  BY <1>1, UpdatesInvCorrect, PTL

\* However SubscribeTaskUpdates and UnsubscribeTaskUpdates interleave with the passes,
\* the slice of the map lists every open channel once and no closed one
\* (router.go:127-150).
THEOREM SliceListsOpenChannelsCorrect == UpdatesSpec => []SliceListsOpenChannels
<1>1. UpdatesInv => SliceListsOpenChannels
  <2> SUFFICES ASSUME UpdatesInv PROVE SliceListsOpenChannels
    OBVIOUS
  <2>1. /\ \A i \in 1..subs.len : cells[subs.array][i] \in Open
        /\ \A u \in Open : \E i \in 1..subs.len : cells[subs.array][i] = u
        /\ subs.len = Cardinality(Open)
    BY DEF UpdatesInv, SliceInv
  <2>2. {cells[subs.array][i] : i \in 1..subs.len} = Open
    BY <2>1
  <2>3. QED
    BY <2>1, <2>2 DEF SliceListsOpenChannels, Open
<1>2. QED
  BY <1>1, UpdatesInvCorrect, PTL

\* A pass of notifyUpdate or of the engine's callback during which nobody unsubscribes
\* comes to everybody who was subscribed when it copied the slice, though append writes
\* into the array it walks (router.go:394-412).
THEOREM QuietPassReachesAllCorrect == UpdatesSpec => []QuietPassReachesAll
<1>1. UpdatesInv => QuietPassReachesAll
  BY DEF UpdatesInv
<1>2. QED
  BY <1>1, UpdatesInvCorrect, PTL
=============================================================================

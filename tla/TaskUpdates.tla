---------------------------- MODULE TaskUpdates ----------------------------
(***************************************************************************)
(* The subscribers of one task's updates in the A2A router                 *)
(* (internal/a2a/router.go).  taskUpdateSubs[task] is a Go slice: a        *)
(* header (backing array and length) that SubscribeTaskUpdates and         *)
(* UnsubscribeTaskUpdates replace under r.mu.  A pass over the slice, by   *)
(* the engine's callback or by notifyUpdate, copies the header under       *)
(* r.mu and then walks the backing array without the lock, one channel at  *)
(* a time, while append writes into the free cells of that array and a     *)
(* removal shifts its cells down in place.                                 *)
(*                                                                         *)
(* A subscriber is a SubscribeTaskUpdates call of pkg/grpcserver.  All     *)
(* tasks have slices of their own; the module has one task.                *)
(***************************************************************************)
EXTENDS Integers, Sequences, FiniteSets

CONSTANTS
    Subs,       \* subscribers
    Passes,     \* passes over the slice, one for each event
    Free,       \* a cell that has never been written
    MaxArrays,  \* bound: backing arrays ever allocated
    ChanCap     \* capacity of a subscriber's channel (16 in the code)

Arrays == 1..MaxArrays

ASSUME FreeAssumption   == Free \notin Subs
ASSUME BoundsAssumption == MaxArrays \in Nat /\ ChanCap \in Nat \ {0}

Header == [array : 0..MaxArrays, len : Nat]
Nil    == [array |-> 0, len |-> 0]

VARIABLES
    cells,      \* cells[a]: the cells of backing array a, up to its capacity
    allocated,  \* arrays allocated so far
    subs,       \* the header taskUpdateSubs[task]; Nil when there is no entry
    sub,        \* sub[u]: "idle", "open", or "closed" (its channel is closed)
    queued,     \* queued[u]: events in u's channel
    pass,       \* pass[n]: "idle", "walking", or "done"
    header,     \* header[n]: the header pass n copied
    index,      \* index[n]: the cell it comes to next
    panicked,   \* an event was sent on a closed channel: the daemon is down
    \* history
    present,    \* present[n]: who was subscribed when n copied the header, and still is
    visited,    \* visited[n]: whose channel it has come to
    disturbed   \* disturbed[n]: somebody unsubscribed while n walked

updateVars == <<cells, allocated, subs, sub, queued, pass, header, index, panicked,
          present, visited, disturbed>>

UpdatesInit ==
    /\ cells     = [a \in Arrays |-> <<>>]
    /\ allocated = 0
    /\ subs      = Nil
    /\ sub       = [u \in Subs |-> "idle"]
    /\ queued    = [u \in Subs |-> 0]
    /\ pass      = [n \in Passes |-> "idle"]
    /\ header    = [n \in Passes |-> Nil]
    /\ index     = [n \in Passes |-> 1]
    /\ panicked  = FALSE
    /\ present   = [n \in Passes |-> {}]
    /\ visited   = [n \in Passes |-> {}]
    /\ disturbed = [n \in Passes |-> FALSE]

Cap(h) == IF h.array = 0 THEN 0 ELSE Len(cells[h.array])

\* append(subs, u): in place when there is a free cell, else into a new array of
\* twice the capacity.
Grown(h, u) ==
    LET size == IF h.len = 0 THEN 1 ELSE 2 * h.len
    IN  [i \in 1..size |-> IF i <= h.len THEN cells[h.array][i] ELSE IF i = h.len + 1 THEN u ELSE Free]

\* Mutant: the new channel goes to the front of the array.
SubscribeTaskUpdates_InFront(u) ==
    /\ sub[u] = "idle" /\ ~panicked
    /\ LET size == IF Cap(subs) > subs.len THEN Cap(subs) ELSE 2 * subs.len + 1
           a    == IF Cap(subs) > subs.len THEN subs.array ELSE allocated + 1
       IN  /\ a \in Arrays
           /\ cells' = [cells EXCEPT ![a] = [i \in 1..size |->
                  IF i = 1 THEN u ELSE IF i <= subs.len + 1 THEN cells[subs.array][i - 1] ELSE Free]]
           /\ allocated' = IF a = subs.array THEN allocated ELSE a
           /\ subs' = [array |-> a, len |-> subs.len + 1]
    /\ sub' = [sub EXCEPT ![u] = "open"]
    /\ UNCHANGED <<queued, pass, header, index, panicked, present, visited, disturbed>>

\* SubscribeTaskUpdates, under r.mu.
SubscribeTaskUpdates(u) ==
    /\ sub[u] = "idle" /\ ~panicked
    /\ IF Cap(subs) > subs.len
       THEN /\ cells' = [cells EXCEPT ![subs.array][subs.len + 1] = u]
            /\ subs' = [subs EXCEPT !.len = @ + 1]
            /\ UNCHANGED allocated
       ELSE /\ allocated < MaxArrays
            /\ allocated' = allocated + 1
            /\ cells' = [cells EXCEPT ![allocated + 1] = Grown(subs, u)]
            /\ subs' = [array |-> allocated + 1, len |-> subs.len + 1]
    /\ sub' = [sub EXCEPT ![u] = "open"]
    /\ UNCHANGED <<queued, pass, header, index, panicked, present, visited, disturbed>>

\* Where u is in the slice of header h.
Position(h, u) == CHOOSE i \in 1..h.len : cells[h.array][i] = u

\* append(subs[:i], subs[i+1:]...): the cells after i move down in place; the last
\* one keeps its content beyond the new length.
Shifted(h, i) ==
    [j \in 1..Cap(h) |-> IF j >= i /\ j < h.len THEN cells[h.array][j + 1] ELSE cells[h.array][j]]

\* What every removal does besides: the channel is closed, under r.mu.
ClosedBy(u) ==
    /\ sub' = [sub EXCEPT ![u] = "closed"]
    /\ present' = [n \in Passes |-> present[n] \ {u}]
    /\ disturbed' = [n \in Passes |-> disturbed[n] \/ pass[n] = "walking"]
    /\ UNCHANGED <<allocated, queued, pass, header, index, panicked, visited>>

\* Mutant: the slice becomes one shorter and nothing moves.
UnsubscribeTaskUpdates_NoShift(u) ==
    /\ sub[u] = "open" /\ ~panicked
    /\ subs' = IF subs.len = 1 THEN Nil ELSE [subs EXCEPT !.len = @ - 1]
    /\ UNCHANGED cells
    /\ ClosedBy(u)

\* UnsubscribeTaskUpdates, under r.mu: an empty slice leaves the map.
UnsubscribeTaskUpdates(u) ==
    /\ sub[u] = "open" /\ ~panicked
    /\ cells' = [cells EXCEPT ![subs.array] = Shifted(subs, Position(subs, u))]
    /\ subs' = IF subs.len = 1 THEN Nil ELSE [subs EXCEPT !.len = @ - 1]
    /\ ClosedBy(u)

\* SubscribeTaskUpdates of the gRPC server passes an event on to its client.
Take(u) ==
    /\ sub[u] = "open" /\ queued[u] > 0 /\ ~panicked
    /\ queued' = [queued EXCEPT ![u] = @ - 1]
    /\ UNCHANGED <<cells, allocated, subs, sub, pass, header, index, panicked,
                   present, visited, disturbed>>

\* The engine's callback or notifyUpdate: the header is copied under r.mu.
Notify(n) ==
    /\ pass[n] = "idle" /\ ~panicked
    /\ header' = [header EXCEPT ![n] = subs]
    /\ pass' = [pass EXCEPT ![n] = "walking"]
    /\ present' = [present EXCEPT ![n] = {u \in Subs : sub[u] = "open"}]
    /\ UNCHANGED <<cells, allocated, subs, sub, queued, index, panicked, visited, disturbed>>

\* The channel in the cell the pass has come to, read without the lock.
ChannelAt(n) == cells[header[n].array][index[n]]

\* Mutant: the send has no default case.
Send_Blocking(n) ==
    /\ pass[n] = "walking" /\ ~panicked
    /\ index[n] <= header[n].len
    /\ LET u == ChannelAt(n)
       IN  /\ sub[u] = "closed" \/ queued[u] < ChanCap
           /\ panicked' = (sub[u] = "closed")
           /\ queued' = IF sub[u] = "open" THEN [queued EXCEPT ![u] = @ + 1] ELSE queued
           /\ visited' = [visited EXCEPT ![n] = @ \cup {u}]
    /\ index' = [index EXCEPT ![n] = @ + 1]
    /\ UNCHANGED <<cells, allocated, subs, sub, pass, header, present, disturbed>>

\* One iteration: the event goes into the channel, or is dropped when it is full;
\* a send on a closed channel panics, in a select with a default case as well.
Send(n) ==
    /\ pass[n] = "walking" /\ ~panicked
    /\ index[n] <= header[n].len
    /\ LET u == ChannelAt(n)
       IN  /\ panicked' = (sub[u] = "closed")
           /\ queued' = IF sub[u] = "open" /\ queued[u] < ChanCap
                        THEN [queued EXCEPT ![u] = @ + 1] ELSE queued
           /\ visited' = [visited EXCEPT ![n] = @ \cup {u}]
    /\ index' = [index EXCEPT ![n] = @ + 1]
    /\ UNCHANGED <<cells, allocated, subs, sub, pass, header, present, disturbed>>

EndPass(n) ==
    /\ pass[n] = "walking" /\ ~panicked
    /\ index[n] > header[n].len
    /\ pass' = [pass EXCEPT ![n] = "done"]
    /\ UNCHANGED <<cells, allocated, subs, sub, queued, header, index, panicked,
                   present, visited, disturbed>>

UpdatesNext ==
    \/ \E u \in Subs : SubscribeTaskUpdates(u) \/ UnsubscribeTaskUpdates(u) \/ Take(u)
    \/ \E n \in Passes : Notify(n) \/ Send(n) \/ EndPass(n)

UpdatesSpec == UpdatesInit /\ [][UpdatesNext]_updateVars

\* The goroutine of a pass runs; nothing is assumed of the subscribers.
UpdatesFairSpec == UpdatesSpec /\ \A n \in Passes : WF_updateVars(Send(n) \/ EndPass(n))

-----------------------------------------------------------------------------
(* Properties *)

\* Types; a channel is within its capacity, the slice within its array.
UpdatesTypeOK ==
    /\ \A a \in Arrays : cells[a] \in Seq(Subs \cup {Free})
    /\ allocated \in 0..MaxArrays
    /\ subs \in Header /\ subs.len <= Cap(subs)
    /\ sub \in [Subs -> {"idle", "open", "closed"}]
    /\ queued \in [Subs -> 0..ChanCap]
    /\ pass \in [Passes -> {"idle", "walking", "done"}]
    /\ header \in [Passes -> Header]
    /\ \A n \in Passes : header[n].len <= Cap(header[n])
    /\ panicked \in BOOLEAN

\* However subscriptions and removals interleave, the slice of the map lists every
\* open channel once and no closed one (router.go:127-150).
SliceListsOpenChannels ==
    /\ {cells[subs.array][i] : i \in 1..subs.len} = {u \in Subs : sub[u] = "open"}
    /\ subs.len = Cardinality({u \in Subs : sub[u] = "open"})

\* A pass during which nobody unsubscribes comes to everybody who was subscribed
\* when it began, though others subscribe meanwhile (router.go:394-412).
QuietPassReachesAll ==
    \A n \in Passes : pass[n] = "done" /\ ~disturbed[n] => present[n] \subseteq visited[n]

\* No subscriber can hold up the handler that publishes an event, however slow it is
\* (the select with a default case, router.go:406-410).
PassEnds == \A n \in Passes : (pass[n] = "walking") ~> (pass[n] = "done" \/ panicked)

\* "UnsubscribeTaskUpdates removes a subscriber channel for a task."
\* (router.go:135): no event is sent on it any more.
\* Not what the code does: see "Disagreements" in README.md.
RemovedIsNotSentTo == ~panicked

\* "SubscribeTaskUpdates returns a channel that receives updates for a specific
\* task." (router.go:126): who stays subscribed throughout a pass is visited by it.
\* Not what the code does: see "Disagreements" in README.md.
SubscriberReceivesUpdates ==
    \A n \in Passes : pass[n] = "done" => present[n] \subseteq visited[n]
=============================================================================

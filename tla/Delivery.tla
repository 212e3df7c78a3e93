------------------------------ MODULE Delivery ------------------------------
(***************************************************************************)
(* Delivery of A2A envelopes from one daemon (the sender) to another (the  *)
(* receiver): the send functions of Router and AckTracker                  *)
(* (internal/a2a/router.go, ack_tracker.go), the offline queue             *)
(* (offline_queue.go over the queue bucket of store.go), the receiving     *)
(* half Router.HandleMessage with its policy check, dedup cache and ACK,   *)
(* and the wiring of cmd/agentanycastd/main.go that puts a message whose   *)
(* send fails, or whose retries are used up, into the offline queue and    *)
(* flushes that queue when the peer connects.                              *)
(*                                                                         *)
(* Each message travels on a stream of its own (SendA2AMessage), so the    *)
(* network reorders freely; it duplicates nothing by itself, and a copy    *)
(* that was written without an error can still be lost with its            *)
(* connection.  Everything that goes wrong (a copy lost, a failed send on  *)
(* a live connection, a policy refusal, a disk error, a disconnection, a   *)
(* crash) is taken from the budget MaxFaults.                              *)
(***************************************************************************)
EXTENDS Integers, Sequences, FiniteSets

CONSTANTS
    Msgs,        \* non-ACK envelopes, named by their envelope id
    MaxRetries,  \* defaultMaxRetries of ack_tracker.go
    DedupSize,   \* dedupCacheSize of router.go
    MaxCopies,   \* bound: copies of one envelope (or of its ACK) in flight
    MaxFaults    \* bound: faults in one behaviour

ASSUME RetriesAssumption == MaxRetries \in Nat
ASSUME DedupAssumption   == DedupSize \in Nat \ {0}
ASSUME BoundsAssumption  == MaxCopies \in Nat \ {0} /\ MaxFaults \in Nat

VARIABLES
    conn,      \* the two daemons are connected
    faults,    \* faults so far
    \* sender, in memory
    api,       \* api[m]: where the SendTask / SendComplete / ... call for m stands
    pending,   \* AckTracker.pending: envelopes tracked for an ACK
    retries,   \* retries[m]: pendingMessage.retries, 0 unless m is pending
    batch,     \* toRetry of the running processRetries
    escalate,  \* expired of the running processRetries: onMaxRetries is still due
    flush,     \* flush[m]: the running FlushQueue's copy of the entry of m
    \* sender, on disk
    queue,     \* queue[m]: offline queue entry of m: "no", "fresh" or "stale"
    \* network
    net,       \* net[m]: copies of m in flight
    acks,      \* acks[m]: ACKs of m in flight
    \* receiver, in memory
    dedup,     \* dedupOrder (dedupCache holds the same ids)
    toAck,     \* toAck[m]: HandleMessage calls that have dispatched m, ACK still due
    ackFlush,  \* ACKs the receiver's running FlushQueue has still to send
    \* receiver, on disk
    ackQueue,  \* ACKs in the receiver's offline queue
    \* history
    handled,   \* handled[m]: how often m was dispatched to its handler
    acked,     \* envelopes whose ACK has reached the sender's handleAck
    flushed,   \* envelopes sent from the offline queue, and so not tracked
    forgotten, \* envelopes evicted from the dedup cache, or lost with it
    dropped    \* envelopes given up: TTL, disk error, sender crash, or a copy
               \* sent from the offline queue that did not get through

senderVars   == <<api, pending, retries, batch, escalate>>
receiverVars == <<dedup, toAck, ackFlush, ackQueue>>
historyVars  == <<handled, acked, flushed, forgotten, dropped>>
vars == <<conn, faults, senderVars, flush, queue, net, acks, receiverVars, historyVars>>

Entry == {"no", "fresh", "stale"}
ApiStates == {"new", "wire", "tracked", "error", "dead"}

\* One more fault.
Spend == faults < MaxFaults /\ faults' = faults + 1

\* Nothing is under way; the messages of lost were sent before, in vain (SendLost).
Idle(lost) ==
    /\ conn = TRUE
    /\ api = [m \in Msgs |-> IF m \in lost THEN "error" ELSE "new"]
    /\ pending = {}
    /\ retries = [m \in Msgs |-> 0]
    /\ batch = {}
    /\ escalate = {}
    /\ flush = [m \in Msgs |-> "no"]
    /\ queue = [m \in Msgs |-> "no"]
    /\ net = [m \in Msgs |-> 0]
    /\ acks = [m \in Msgs |-> 0]
    /\ dedup = <<>>
    /\ toAck = [m \in Msgs |-> 0]
    /\ ackFlush = {}
    /\ ackQueue = {}
    /\ handled = [m \in Msgs |-> 0]
    /\ acked = {}
    /\ flushed = {}
    /\ forgotten = {}
    /\ dropped = lost

Init == Idle({}) /\ faults = 0

-----------------------------------------------------------------------------
(* The sender *)

\* h.SendA2AMessage: the copy is written to a new stream, or there is an error.
\* An error on a live connection is a fault.
SendA2AMessage(m, ok) ==
    \/ /\ ok
       /\ conn
       /\ net[m] < MaxCopies
       /\ net' = [net EXCEPT ![m] = @ + 1]
       /\ UNCHANGED faults
    \/ /\ ~ok
       /\ IF conn THEN Spend ELSE UNCHANGED faults
       /\ UNCHANGED net

\* The sendFn of main.go: a message that cannot be sent goes to the offline
\* queue (OfflineQueue.Enqueue: one entry per envelope, stamped now), and the
\* error is returned.
SendFn(m, ok) ==
    /\ SendA2AMessage(m, ok)
    /\ queue' = [queue EXCEPT ![m] = IF ok THEN @ ELSE "fresh"]

\* The same when the queue bucket cannot be written either: the error of
\* Enqueue is only logged.
SendFnLost(m) ==
    /\ Spend
    /\ UNCHANGED <<net, queue>>

\* SendTask, SendStatusUpdate, SendComplete, SendFail up to their sendFn call.
\* After a success the call goes on to Track; after an error it returns it.
Send(m, ok) ==
    /\ api[m] = "new"
    /\ SendFn(m, ok)
    /\ api' = [api EXCEPT ![m] = IF ok THEN "wire" ELSE "error"]
    /\ UNCHANGED <<conn, pending, retries, batch, escalate, flush, acks,
                   receiverVars, historyVars>>

SendLost(m) ==
    /\ api[m] = "new"
    /\ SendFnLost(m)
    /\ api' = [api EXCEPT ![m] = "error"]
    /\ dropped' = dropped \cup {m}
    /\ UNCHANGED <<conn, pending, retries, batch, escalate, flush, acks,
                   receiverVars, handled, acked, flushed, forgotten>>

\* Mutant: the message is sent but never tracked.
Track_Forgotten(m) ==
    /\ api[m] = "wire"
    /\ api' = [api EXCEPT ![m] = "tracked"]
    /\ UNCHANGED <<conn, faults, pending, retries, batch, escalate, flush, queue, net, acks,
                   receiverVars, historyVars>>

\* AckTracker.Track, called once sendFn has returned without error.
Track(m) ==
    /\ api[m] = "wire"
    /\ api' = [api EXCEPT ![m] = "tracked"]
    /\ pending' = pending \cup {m}
    /\ retries' = [retries EXCEPT ![m] = 0]
    /\ UNCHANGED <<conn, faults, batch, escalate, flush, queue, net, acks,
                   receiverVars, historyVars>>

\* handleAck and AckTracker.Acknowledge.
Acknowledge(m) ==
    /\ acks[m] > 0
    /\ acks' = [acks EXCEPT ![m] = @ - 1]
    /\ pending' = pending \ {m}
    /\ retries' = [retries EXCEPT ![m] = 0]
    /\ acked' = acked \cup {m}
    /\ UNCHANGED <<conn, faults, api, batch, escalate, flush, queue, net,
                   receiverVars, handled, flushed, forgotten, dropped>>

\* processRetries, under at.mu: of the messages whose timer has run out (any of
\* the pending ones) those with no retry left are removed.  The ticker runs one
\* pass at a time.
CollectDue(due) ==
    /\ batch = {} /\ escalate = {}
    /\ due # {}
    /\ batch' = {m \in due : retries[m] < MaxRetries}
    /\ escalate' = {m \in due : retries[m] >= MaxRetries}
    /\ pending' = pending \ escalate'
    /\ retries' = [m \in Msgs |-> IF m \in escalate' THEN 0 ELSE retries[m]]
    /\ UNCHANGED <<conn, faults, api, flush, queue, net, acks, receiverVars, historyVars>>

\* onMaxRetries, outside the lock: the expired message goes to the offline queue.
OnMaxRetries(m, stored) ==
    /\ m \in escalate
    /\ escalate' = escalate \ {m}
    /\ IF stored
       THEN /\ queue' = [queue EXCEPT ![m] = "fresh"]
            /\ UNCHANGED <<faults, dropped>>
       ELSE /\ Spend
            /\ dropped' = dropped \cup {m}
            /\ UNCHANGED queue
    /\ UNCHANGED <<conn, api, pending, retries, batch, flush, net, acks, receiverVars,
                   handled, acked, flushed, forgotten>>

\* Mutant: a retry is not counted.
Counted_Never(m) ==
    /\ batch' = batch \ {m}
    /\ UNCHANGED retries

\* The end of a retry: under at.mu, if the message is still pending, count it.
Counted(m) ==
    /\ batch' = batch \ {m}
    /\ retries' = [retries EXCEPT ![m] = IF m \in pending THEN @ + 1 ELSE @]

\* One round of the resend loop of processRetries: sendFn, then the count.  The
\* message was collected earlier and may have been acknowledged meanwhile.
RetrySend(m, ok) ==
    /\ m \in batch /\ escalate = {}
    /\ SendFn(m, ok)
    /\ Counted(m)
    /\ UNCHANGED <<conn, api, pending, escalate, flush, acks, receiverVars, historyVars>>

RetryLost(m) ==
    /\ m \in batch /\ escalate = {}
    /\ SendFnLost(m)
    /\ Counted(m)
    /\ UNCHANGED <<conn, api, pending, escalate, flush, acks, receiverVars, historyVars>>

\* FlushQueue for one entry of its listing: an expired entry is dequeued; else
\* the message is sent, and dequeued if that went well.  The message is not
\* tracked.  The entry is judged by the stamp that was listed, but Dequeue
\* removes whatever the queue holds under the key by now.
FlushExpired(m) ==
    /\ flush[m] = "stale"
    /\ flush' = [flush EXCEPT ![m] = "no"]
    /\ queue' = [queue EXCEPT ![m] = "no"]
    /\ dropped' = dropped \cup {m}
    /\ UNCHANGED <<conn, faults, senderVars, net, acks, receiverVars,
                   handled, acked, flushed, forgotten>>

\* Mutant: the entry is dequeued whether or not the message could be sent.
FlushSend_AlwaysDequeues(m, ok) ==
    /\ flush[m] = "fresh"
    /\ flush' = [flush EXCEPT ![m] = "no"]
    /\ SendA2AMessage(m, ok)
    /\ queue' = [queue EXCEPT ![m] = "no"]
    /\ flushed' = IF ok THEN flushed \cup {m} ELSE flushed
    /\ UNCHANGED <<conn, senderVars, acks, receiverVars, handled, acked, forgotten, dropped>>

FlushSend(m, ok) ==
    /\ flush[m] = "fresh"
    /\ flush' = [flush EXCEPT ![m] = "no"]
    /\ SendA2AMessage(m, ok)
    /\ queue' = [queue EXCEPT ![m] = IF ok THEN "no" ELSE @]
    /\ flushed' = IF ok THEN flushed \cup {m} ELSE flushed
    /\ UNCHANGED <<conn, senderVars, acks, receiverVars, handled, acked, forgotten, dropped>>

\* The message was sent but its entry could not be removed: it will be sent again.
FlushKept(m) ==
    /\ flush[m] = "fresh"
    /\ flush' = [flush EXCEPT ![m] = "no"]
    /\ conn
    /\ net[m] < MaxCopies
    /\ net' = [net EXCEPT ![m] = @ + 1]
    /\ Spend
    /\ UNCHANGED <<conn, senderVars, queue, acks, receiverVars, historyVars>>

\* An expired entry could not be removed: it stays for the next flush.
FlushExpiredKept(m) ==
    /\ flush[m] = "stale"
    /\ Spend
    /\ flush' = [flush EXCEPT ![m] = "no"]
    /\ UNCHANGED <<conn, senderVars, queue, net, acks, receiverVars, historyVars>>

\* The TTL of a queued message runs out.
Age(m) ==
    /\ "fresh" \in {queue[m], flush[m]}
    /\ queue' = [queue EXCEPT ![m] = IF @ = "fresh" THEN "stale" ELSE @]
    /\ flush' = [flush EXCEPT ![m] = IF @ = "fresh" THEN "stale" ELSE @]
    /\ UNCHANGED <<conn, faults, senderVars, net, acks, receiverVars, historyVars>>

-----------------------------------------------------------------------------
(* The receiver *)

\* Mutant: a refused message is acknowledged.
PolicyReject_Acks(m) ==
    /\ net[m] > 0
    /\ Spend
    /\ net' = [net EXCEPT ![m] = @ - 1]
    /\ toAck' = [toAck EXCEPT ![m] = @ + 1]
    /\ dropped' = IF m \in flushed THEN dropped \cup {m} ELSE dropped
    /\ UNCHANGED <<conn, senderVars, flush, queue, acks, dedup, ackFlush, ackQueue,
                   handled, acked, flushed, forgotten>>

\* HandleMessage refused by the inbound policy: nothing is recorded, no ACK.
PolicyReject(m) ==
    /\ net[m] > 0
    /\ Spend
    /\ net' = [net EXCEPT ![m] = @ - 1]
    /\ dropped' = IF m \in flushed THEN dropped \cup {m} ELSE dropped
    /\ UNCHANGED <<conn, senderVars, flush, queue, acks, receiverVars,
                   handled, acked, flushed, forgotten>>

InDedup(m) == \E i \in 1..Len(dedup) : dedup[i] = m

\* isDuplicate, first half: a known id is dropped by HandleMessage, without ACK.
HandleDuplicate(m) ==
    /\ net[m] > 0
    /\ InDedup(m)
    /\ net' = [net EXCEPT ![m] = @ - 1]
    /\ UNCHANGED <<conn, faults, senderVars, flush, queue, acks, receiverVars, historyVars>>

\* Mutant: a full cache records nothing.
HandleNew_FullCache(m) ==
    /\ net[m] > 0
    /\ ~InDedup(m)
    /\ net' = [net EXCEPT ![m] = @ - 1]
    /\ dedup' = IF Len(dedup) >= DedupSize THEN dedup ELSE Append(dedup, m)
    /\ handled' = [handled EXCEPT ![m] = @ + 1]
    /\ toAck' = [toAck EXCEPT ![m] = @ + 1]
    /\ UNCHANGED <<conn, faults, senderVars, flush, queue, acks, ackFlush, ackQueue,
                   acked, flushed, forgotten, dropped>>

\* isDuplicate, second half (a new id evicts the oldest one when the cache is
\* full), and the dispatch to the handler of the envelope's type.
HandleNew(m) ==
    /\ net[m] > 0
    /\ ~InDedup(m)
    /\ net' = [net EXCEPT ![m] = @ - 1]
    /\ IF Len(dedup) >= DedupSize
       THEN /\ dedup' = Append(Tail(dedup), m)
            /\ forgotten' = forgotten \cup {Head(dedup)}
       ELSE /\ dedup' = Append(dedup, m)
            /\ UNCHANGED forgotten
    /\ handled' = [handled EXCEPT ![m] = @ + 1]
    /\ toAck' = [toAck EXCEPT ![m] = @ + 1]
    /\ UNCHANGED <<conn, faults, senderVars, flush, queue, acks, ackFlush, ackQueue,
                   acked, flushed, dropped>>

\* SendAck through the receiver's own sendFn: a failed ACK goes to the
\* receiver's offline queue.
SendAck(m, ok) ==
    /\ toAck[m] > 0
    /\ toAck' = [toAck EXCEPT ![m] = @ - 1]
    /\ IF ok
       THEN /\ conn
            /\ acks[m] < MaxCopies
            /\ acks' = [acks EXCEPT ![m] = @ + 1]
            /\ UNCHANGED <<ackQueue, faults>>
       ELSE /\ IF conn THEN Spend ELSE UNCHANGED faults
            /\ ackQueue' = ackQueue \cup {m}
            /\ UNCHANGED acks
    /\ UNCHANGED <<conn, senderVars, flush, queue, net, dedup, ackFlush, historyVars>>

\* Neither the ACK nor its queue entry can be written.
SendAckLost(m) ==
    /\ toAck[m] > 0
    /\ Spend
    /\ toAck' = [toAck EXCEPT ![m] = @ - 1]
    /\ UNCHANGED <<conn, senderVars, flush, queue, net, acks, dedup, ackFlush, ackQueue,
                   historyVars>>

\* The receiver's FlushQueue, for one queued ACK whose TTL has run out.
FlushAckExpired(m) ==
    /\ m \in ackFlush
    /\ ackFlush' = ackFlush \ {m}
    /\ ackQueue' = ackQueue \ {m}
    /\ UNCHANGED <<conn, faults, senderVars, flush, queue, net, acks, dedup, toAck, historyVars>>

\* The receiver's FlushQueue, for one queued ACK.
FlushAck(m, ok) ==
    /\ m \in ackFlush
    /\ ackFlush' = ackFlush \ {m}
    /\ IF ok
       THEN /\ conn
            /\ acks[m] < MaxCopies
            /\ acks' = [acks EXCEPT ![m] = @ + 1]
            /\ ackQueue' = ackQueue \ {m}
            /\ UNCHANGED faults
       ELSE /\ IF conn THEN Spend ELSE UNCHANGED faults
            /\ UNCHANGED <<acks, ackQueue>>
    /\ UNCHANGED <<conn, senderVars, flush, queue, net, dedup, toAck, historyVars>>

\* The queued ACK was sent but its entry could not be removed.
FlushAckKept(m) ==
    /\ m \in ackFlush
    /\ ackFlush' = ackFlush \ {m}
    /\ conn
    /\ acks[m] < MaxCopies
    /\ acks' = [acks EXCEPT ![m] = @ + 1]
    /\ Spend
    /\ UNCHANGED <<conn, senderVars, flush, queue, net, dedup, toAck, ackQueue, historyVars>>

-----------------------------------------------------------------------------
(* The environment *)

\* A copy, or an ACK, dies with its connection.
Lose(m) ==
    /\ net[m] > 0
    /\ Spend
    /\ net' = [net EXCEPT ![m] = @ - 1]
    /\ dropped' = IF m \in flushed THEN dropped \cup {m} ELSE dropped
    /\ UNCHANGED <<conn, senderVars, flush, queue, acks, receiverVars,
                   handled, acked, flushed, forgotten>>

LoseAck(m) ==
    /\ acks[m] > 0
    /\ Spend
    /\ acks' = [acks EXCEPT ![m] = @ - 1]
    /\ UNCHANGED <<conn, senderVars, flush, queue, net, receiverVars, historyVars>>

Disconnect ==
    /\ conn
    /\ Spend
    /\ conn' = FALSE
    /\ UNCHANGED <<senderVars, flush, queue, net, acks, receiverVars, historyVars>>

\* ConnectedF on both sides: each starts a FlushQueue over what its queue lists.
\* FlushQueue of the sender, or of the receiver, ends at once if its queue cannot
\* be listed (not listS, not listR).
Connect(listS, listR) ==
    /\ ~conn
    /\ conn' = TRUE
    /\ IF listS /\ listR THEN UNCHANGED faults ELSE Spend
    /\ flush' = [m \in Msgs |-> IF listS /\ queue[m] # "no" THEN queue[m] ELSE flush[m]]
    /\ ackFlush' = IF listR THEN ackFlush \cup ackQueue ELSE ackFlush
    /\ UNCHANGED <<senderVars, queue, net, acks, dedup, toAck, ackQueue, historyVars>>

\* The sender's process dies and is restarted: only its queue survives.
Undelivered(m) == api[m] = "wire" \/ m \in pending \cup escalate

CrashSender ==
    /\ Spend
    /\ conn' = FALSE
    /\ api' = [m \in Msgs |-> IF api[m] = "wire" THEN "dead" ELSE api[m]]
    /\ pending' = {} /\ batch' = {} /\ escalate' = {}
    /\ retries' = [m \in Msgs |-> 0]
    /\ flush' = [m \in Msgs |-> "no"]
    /\ dropped' = dropped \cup {m \in Msgs : Undelivered(m)}
    /\ UNCHANGED <<queue, net, acks, receiverVars, handled, acked, flushed, forgotten>>

\* The receiver's process dies and is restarted: the dedup cache starts empty
\* and the ACKs that were due are never sent.
CrashReceiver ==
    /\ Spend
    /\ conn' = FALSE
    /\ forgotten' = forgotten \cup {m \in Msgs : InDedup(m)}
    /\ dedup' = <<>>
    /\ toAck' = [m \in Msgs |-> 0]
    /\ ackFlush' = {}
    /\ UNCHANGED <<senderVars, flush, queue, net, acks, ackQueue,
                   handled, acked, flushed, dropped>>

-----------------------------------------------------------------------------

SenderStep(m) ==
    \/ \E ok \in BOOLEAN : Send(m, ok)
    \/ SendLost(m)
    \/ Track(m)
    \/ Acknowledge(m)
    \/ \E stored \in BOOLEAN : OnMaxRetries(m, stored)
    \/ \E ok \in BOOLEAN : RetrySend(m, ok)
    \/ RetryLost(m)
    \/ FlushExpired(m)
    \/ \E ok \in BOOLEAN : FlushSend(m, ok)
    \/ FlushKept(m)
    \/ FlushExpiredKept(m)
    \/ Age(m)

ReceiverStep(m) ==
    \/ PolicyReject(m)
    \/ HandleDuplicate(m)
    \/ HandleNew(m)
    \/ \E ok \in BOOLEAN : SendAck(m, ok)
    \/ SendAckLost(m)
    \/ FlushAckExpired(m)
    \/ \E ok \in BOOLEAN : FlushAck(m, ok)
    \/ FlushAckKept(m)

Next ==
    \/ \E m \in Msgs : SenderStep(m)
    \/ \E due \in SUBSET pending : CollectDue(due)
    \/ \E m \in Msgs : ReceiverStep(m)
    \/ \E m \in Msgs : Lose(m)
    \/ \E m \in Msgs : LoseAck(m)
    \/ Disconnect
    \/ \E listS, listR \in BOOLEAN : Connect(listS, listR)
    \/ CrashSender
    \/ CrashReceiver

Spec == Init /\ [][Next]_vars

\* What the scheduler owes: a send call runs on to Track; the ticker keeps
\* firing and sooner or later finds the timer of a pending message run out; a
\* running processRetries or FlushQueue gets to each of its messages; a stream
\* that has arrived is read, and HandleMessage runs on to its ACK.  Nothing is
\* owed by the environment: no Connect, no Age, and no fault.
Fairness ==
    \A m \in Msgs :
        /\ WF_vars(Track(m))
        /\ WF_vars(\E due \in SUBSET pending : m \in due /\ CollectDue(due))
        /\ WF_vars(\E stored \in BOOLEAN : OnMaxRetries(m, stored))
        /\ WF_vars(\E ok \in BOOLEAN : RetrySend(m, ok))
        /\ WF_vars(FlushExpired(m) \/ \E ok \in BOOLEAN : FlushSend(m, ok))
        /\ WF_vars(HandleNew(m) \/ HandleDuplicate(m))
        /\ WF_vars(\E ok \in BOOLEAN : SendAck(m, ok))
        /\ WF_vars(Acknowledge(m))

FairSpec == Spec /\ Fairness

-----------------------------------------------------------------------------
(* Properties *)

DedupType == dedup \in Seq(Msgs) /\ Len(dedup) <= DedupSize

\* Type invariant.
TypeOK ==
    /\ conn \in BOOLEAN
    /\ faults \in 0..MaxFaults
    /\ api \in [Msgs -> ApiStates]
    /\ pending \subseteq Msgs /\ batch \subseteq Msgs /\ escalate \subseteq Msgs
    /\ retries \in [Msgs -> 0..MaxRetries]
    /\ queue \in [Msgs -> Entry] /\ flush \in [Msgs -> Entry]
    /\ net \in [Msgs -> 0..MaxCopies] /\ acks \in [Msgs -> 0..MaxCopies]
    /\ DedupType
    /\ toAck \in [Msgs -> Nat]
    /\ ackQueue \subseteq Msgs /\ ackFlush \subseteq Msgs
    /\ handled \in [Msgs -> Nat]
    /\ acked \subseteq Msgs /\ flushed \subseteq Msgs
    /\ forgotten \subseteq Msgs /\ dropped \subseteq Msgs

\* No silent loss: an envelope whose send call got past sendFn, with or without
\* an error, has been handled by the peer, or is still being looked after (the
\* call is about to track it, AckTracker holds it, it is on its way to or in the
\* offline queue, or a copy sent from that queue is in flight), unless it was
\* given up for one of the reasons kept in dropped.
NoSilentLoss ==
    \A m \in Msgs :
        api[m] # "new" /\ handled[m] = 0 /\ m \notin dropped =>
            \/ Undelivered(m)
            \/ queue[m] # "no"
            \/ m \in flushed /\ net[m] > 0

\* The sender stops tracking a message on the strength of an ACK, so an ACK in
\* any form (due, queued, in flight, received) exists only for a message whose
\* handler has run.
AckMeansHandled ==
    \A m \in Msgs :
        \/ toAck[m] > 0 \/ acks[m] > 0
        \/ m \in ackQueue \cup ackFlush \cup acked
        => handled[m] > 0

\* Retries, flushes and concurrent streams never run a handler twice for one
\* envelope while the dedup cache remembers it; only an eviction or a restart
\* of the receiver can.
HandledOnceWhileRemembered ==
    \A m \in Msgs : handled[m] > 1 => m \in forgotten

\* router.go:194: "Deduplicate by envelope ID (at-least-once -> effectively-once)".
\* Not what the code does: see "Disagreements" in README.md.
EffectivelyOnce == \A m \in Msgs : handled[m] <= 1

\* ack_tracker.go:32: "MaxRetriesFunc is called when a message exceeds max
\* retries without an ACK": no acknowledged message is given to onMaxRetries.
\* Not what the code does: see "Disagreements" in README.md.
EscalatedWithoutAck ==
    [][\A m \in Msgs : m \in escalate' /\ m \notin escalate => m \notin acked]_vars

\* The retry loop comes to an end for every message: acknowledged, escalated to
\* the offline queue, or lost with the sender's process.
RetriesEnd == \A m \in Msgs : m \in pending ~> m \notin pending

\* How m stands with the sender: in the care of the send call, of AckTracker or of a
\* copy that FlushQueue has sent, in the offline queue, given up, or handled.  "lost" is
\* none of these.
Standing(m) ==
    IF api[m] = "new" THEN "new"
    ELSE IF handled[m] > 0 THEN "delivered"
    ELSE IF m \in dropped THEN "given up"
    ELSE IF queue[m] # "no" THEN "parked"
    ELSE IF Undelivered(m) \/ (m \in flushed /\ net[m] > 0) THEN "held"
    ELSE "lost"

Promise == INSTANCE AtLeastOnce WITH
              standing   <- [m \in Msgs |-> Standing(m)],
              remembered <- {m \in Msgs : InDedup(m)},
              confirmed  <- acked

\* Sends, retries, escalation, the offline queue, dedup, ACKs and restarts together
\* (router.go, ack_tracker.go, offline_queue.go, main.go) deliver at least once: every
\* step is one of AtLeastOnce, and no envelope ever stands as "lost".
ImplementsAtLeastOnce == Promise!Spec

\* Whatever faults come, an envelope that the sender holds is in the end handled by the
\* peer, parked in the offline queue, or given up for a reason in dropped.
Settled == Promise!Settles

=============================================================================

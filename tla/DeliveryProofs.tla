--------------------------- MODULE DeliveryProofs ---------------------------
(***************************************************************************)
(* Theorems about Delivery, for any set of envelopes and every bound: its  *)
(* safety properties, and that it implements AtLeastOnce; then about       *)
(* Anycast, which chooses the peer an envelope is sent to.                 *)
(***************************************************************************)
EXTENDS Delivery, Anycast, TLAPS

\* What the dedup cache holds has been handled, and what has been handled and
\* not forgotten is in the cache.
DedupInv ==
    \A m \in Msgs :
        /\ InDedup(m) => handled[m] > 0
        /\ handled[m] > 0 /\ m \notin forgotten => InDedup(m)

\* A message that is about to be sent again has a retry left.
BatchInv == \A m \in batch : retries[m] < MaxRetries

TypeInv == TypeOK /\ BatchInv

IndInv == TypeInv /\ DedupInv /\ AckMeansHandled /\ HandledOnceWhileRemembered /\ NoSilentLoss

-----------------------------------------------------------------------------

\* What the bounds give the arithmetic leaves.
LEMMA ConstantFacts ==
    /\ MaxRetries \in Nat /\ DedupSize \in Nat /\ DedupSize > 0
    /\ MaxCopies \in Nat /\ MaxCopies > 0 /\ MaxFaults \in Nat
  BY RetriesAssumption, DedupAssumption, BoundsAssumption

\* Initially nothing is tracked, queued or in flight.
LEMMA TypeInit == Init => TypeInv
  BY ConstantFacts DEF Init, Idle, TypeInv, BatchInv, TypeOK, DedupType, ApiStates, Entry

\* A step that leaves the cache alone leaves it well typed.
LEMMA DedupSame ==
    ASSUME DedupType, UNCHANGED dedup
    PROVE  DedupType'
  BY DEF DedupType

\* HandleNew keeps the cache a sequence of envelopes no longer than its size.
LEMMA DedupNew ==
    ASSUME DedupType, NEW m \in Msgs, HandleNew(m)
    PROVE  DedupType'
<1> USE ConstantFacts DEF DedupType
<1>1. CASE Len(dedup) >= DedupSize
  <2>1. dedup' = Append(Tail(dedup), m)
    BY <1>1 DEF HandleNew
  <2>2. dedup # <<>> /\ Len(Tail(dedup)) = Len(dedup) - 1 /\ Tail(dedup) \in Seq(Msgs)
    BY <1>1
  <2>3. dedup' \in Seq(Msgs) /\ Len(dedup') = Len(dedup)
    BY <2>1, <2>2
  <2>4. QED
    BY <2>3
<1>2. CASE Len(dedup) < DedupSize
  <2>1. dedup' = Append(dedup, m)
    BY <1>2 DEF HandleNew
  <2>2. dedup' \in Seq(Msgs) /\ Len(dedup') = Len(dedup) + 1
    BY <2>1
  <2>3. QED
    BY <1>2, <2>2
<1>3. QED
  BY <1>1, <1>2

\* Every step of either daemon and of the network keeps the types.
LEMMA TypeStep == TypeInv /\ [Next]_vars => TypeInv'
<1> SUFFICES ASSUME TypeInv, [Next]_vars PROVE TypeInv'
  OBVIOUS
<1> USE ConstantFacts, DedupSame DEF TypeInv, BatchInv, TypeOK, Spend, senderVars, receiverVars, historyVars
<1>1. ASSUME NEW m \in Msgs, SenderStep(m) PROVE TypeInv'
  <2>1. ASSUME NEW ok \in BOOLEAN, Send(m, ok) PROVE TypeInv'
    BY <2>1 DEF Send, SendFn, SendA2AMessage, ApiStates, Entry
  <2>2. CASE SendLost(m)
    BY <2>2 DEF SendLost, SendFnLost, ApiStates
  <2>3. CASE Track(m)
    BY <2>3 DEF Track, ApiStates
  <2>4. CASE Acknowledge(m)
    BY <2>4 DEF Acknowledge
  <2>5. ASSUME NEW stored \in BOOLEAN, OnMaxRetries(m, stored) PROVE TypeInv'
    BY <2>5 DEF OnMaxRetries, Entry
  <2>6. ASSUME NEW ok \in BOOLEAN, RetrySend(m, ok) PROVE TypeInv'
    BY <2>6 DEF RetrySend, SendFn, SendA2AMessage, Counted, Entry
  <2>7. CASE RetryLost(m)
    BY <2>7 DEF RetryLost, SendFnLost, Counted
  <2>8. CASE FlushExpired(m)
    BY <2>8 DEF FlushExpired, Entry
  <2>9. ASSUME NEW ok \in BOOLEAN, FlushSend(m, ok) PROVE TypeInv'
    BY <2>9 DEF FlushSend, SendA2AMessage, Entry
  <2>10. CASE FlushKept(m)
    BY <2>10 DEF FlushKept, Entry
  <2>11. CASE Age(m)
    BY <2>11 DEF Age, Entry
  <2>12. CASE FlushExpiredKept(m)
    BY <2>12 DEF FlushExpiredKept, Entry
  <2>13. QED
    BY <1>1, <2>1, <2>2, <2>3, <2>4, <2>5, <2>6, <2>7, <2>8, <2>9, <2>10, <2>11, <2>12 DEF SenderStep
<1>2. ASSUME NEW due \in SUBSET pending, CollectDue(due) PROVE TypeInv'
  BY <1>2 DEF CollectDue
<1>3. ASSUME NEW m \in Msgs, ReceiverStep(m) PROVE TypeInv'
  <2>1. CASE PolicyReject(m)
    BY <2>1 DEF PolicyReject
  <2>2. CASE HandleDuplicate(m)
    BY <2>2 DEF HandleDuplicate
  <2>3. CASE HandleNew(m)
    <3>1. DedupType'
      BY <2>3, DedupNew
    <3>2. Len(dedup) >= DedupSize => Head(dedup) \in Msgs
      BY DEF DedupType
    <3>3. forgotten' \subseteq Msgs
      BY <2>3, <3>2 DEF HandleNew
    <3>4. /\ net' \in [Msgs -> 0..MaxCopies]
          /\ handled' \in [Msgs -> Nat]
          /\ toAck' \in [Msgs -> Nat]
          /\ UNCHANGED <<conn, faults, senderVars, flush, queue, acks, ackFlush, ackQueue,
                         acked, flushed, dropped>>
      BY <2>3 DEF HandleNew
    <3>5. QED
      BY <3>1, <3>3, <3>4
  <2>4. ASSUME NEW ok \in BOOLEAN, SendAck(m, ok) PROVE TypeInv'
    BY <2>4 DEF SendAck
  <2>5. CASE SendAckLost(m)
    BY <2>5 DEF SendAckLost
  <2>6. CASE FlushAckExpired(m)
    BY <2>6 DEF FlushAckExpired
  <2>7. ASSUME NEW ok \in BOOLEAN, FlushAck(m, ok) PROVE TypeInv'
    BY <2>7 DEF FlushAck
  <2>8. CASE FlushAckKept(m)
    BY <2>8 DEF FlushAckKept
  <2>9. QED
    BY <1>3, <2>1, <2>2, <2>3, <2>4, <2>5, <2>6, <2>7, <2>8 DEF ReceiverStep
<1>4. ASSUME NEW m \in Msgs, Lose(m) \/ LoseAck(m) PROVE TypeInv'
  BY <1>4 DEF Lose, LoseAck
<1>5. CASE Disconnect
  <2>1. conn' \in BOOLEAN
    BY <1>5, Zenon DEF Disconnect
  <2>2. QED
    BY <1>5, <2>1 DEF Disconnect
<1>6. ASSUME NEW listS \in BOOLEAN, NEW listR \in BOOLEAN, Connect(listS, listR) PROVE TypeInv'
  <2>1. conn' \in BOOLEAN
    BY <1>6, Zenon DEF Connect
  <2>2. QED
    BY <1>6, <2>1 DEF Connect
<1>7. CASE CrashSender
  <2>1. conn' \in BOOLEAN
    BY <1>7, Zenon DEF CrashSender
  <2>2. QED
    BY <1>7, <2>1 DEF CrashSender, ApiStates, Entry
<1>8. CASE CrashReceiver
  <2>1. DedupType'
    BY <1>8 DEF CrashReceiver, DedupType
  <2>2. conn' \in BOOLEAN
    BY <1>8, Zenon DEF CrashReceiver
  <2>3. QED
    BY <1>8, <2>1, <2>2 DEF CrashReceiver
<1>9. CASE UNCHANGED vars
  BY <1>9 DEF vars
<1>10. QED
  BY <1>1, <1>2, <1>3, <1>4, <1>5, <1>6, <1>7, <1>8, <1>9 DEF Next

\* Type correctness of the delivery protocol.
THEOREM TypeCorrect == Spec => []TypeOK
<1>1. Spec => []TypeInv
  BY TypeInit, TypeStep, PTL DEF Spec
<1>2. TypeInv => TypeOK
  BY DEF TypeInv
<1>3. QED
  BY <1>1, <1>2, PTL

-----------------------------------------------------------------------------

\* Only HandleNew and a restart of the receiver touch the cache and the counts.
LEMMA DedupFrame ==
    ASSUME [Next]_vars
    PROVE  \/ \E m \in Msgs : HandleNew(m)
           \/ CrashReceiver
           \/ UNCHANGED <<dedup, handled, forgotten>>
  BY DEF Next, SenderStep, ReceiverStep, vars, senderVars, receiverVars, historyVars,
         Send, SendLost, Track, Acknowledge, CollectDue, OnMaxRetries, RetrySend, RetryLost,
         FlushExpired, FlushSend, FlushKept, FlushExpiredKept, Age, PolicyReject, HandleDuplicate,
         SendAck, SendAckLost, FlushAck, FlushAckExpired, FlushAckKept, Lose, LoseAck,
         Disconnect, Connect, CrashSender

\* What HandleNew does to the contents of the cache.
LEMMA DedupContents ==
    ASSUME DedupType, NEW m \in Msgs, HandleNew(m), NEW x \in Msgs
    PROVE  /\ x = m => InDedup(x)'
           /\ InDedup(x)' /\ x # m => InDedup(x)
           /\ InDedup(x) => InDedup(x)' \/ x \in forgotten'
<1> USE ConstantFacts DEF DedupType, InDedup
<1>1. CASE Len(dedup) >= DedupSize
  <2>1. dedup' = Append(Tail(dedup), m) /\ forgotten' = forgotten \cup {Head(dedup)}
    BY <1>1 DEF HandleNew
  <2>2. /\ Len(dedup) \in Nat /\ Len(dedup) > 0
        /\ Len(dedup') = Len(dedup)
        /\ \A i \in 1..(Len(dedup) - 1) : dedup'[i] = dedup[i+1]
        /\ dedup'[Len(dedup)] = m
        /\ Head(dedup) = dedup[1]
    <3>1. /\ Len(dedup) \in Nat /\ Len(dedup) > 0 /\ Tail(dedup) \in Seq(Msgs)
          /\ Len(Tail(dedup)) = Len(dedup) - 1
          /\ \A i \in 1..(Len(dedup) - 1) : Tail(dedup)[i] = dedup[i+1]
      BY <1>1
    <3>2. QED
      BY <2>1, <3>1
  <2>3. ASSUME InDedup(x), x # dedup[1] PROVE InDedup(x)'
    <3>1. PICK i \in 1..Len(dedup) : dedup[i] = x
      BY <2>3
    <3>2. i - 1 \in 1..(Len(dedup) - 1) /\ dedup'[i - 1] = x
      BY <2>2, <2>3, <3>1
    <3>3. QED
      BY <2>2, <3>2
  <2>4. x = m => InDedup(x)'
    BY <2>2
  <2>5. ASSUME InDedup(x)', x # m PROVE InDedup(x)
    <3>1. PICK i \in 1..Len(dedup) : dedup'[i] = x
      BY <2>2, <2>5
    <3>2. i \in 1..(Len(dedup) - 1)
      BY <2>2, <2>5, <3>1
    <3>3. dedup[i+1] = x /\ i + 1 \in 1..Len(dedup)
      BY <2>2, <3>1, <3>2
    <3>4. QED
      BY <3>3
  <2>6. x = dedup[1] => x \in forgotten'
    BY <2>1, <2>2
  <2>7. QED
    BY <2>3, <2>4, <2>5, <2>6
<1>2. CASE Len(dedup) < DedupSize
  <2>1. dedup' = Append(dedup, m)
    BY <1>2 DEF HandleNew
  <2>2. /\ Len(dedup) \in Nat /\ Len(dedup') = Len(dedup) + 1
        /\ \A i \in 1..Len(dedup) : dedup'[i] = dedup[i]
        /\ dedup'[Len(dedup) + 1] = m
    BY <2>1
  <2>3. QED
    BY <2>2
<1>3. QED
  BY <1>1, <1>2

\* The cache and the counts stay in step, and no remembered envelope is handled twice.
LEMMA DedupStep ==
    ASSUME TypeOK, DedupInv, HandledOnceWhileRemembered, [Next]_vars
    PROVE  DedupInv' /\ HandledOnceWhileRemembered'
<1> USE DEF DedupInv, HandledOnceWhileRemembered
<1>1. ASSUME NEW m \in Msgs, HandleNew(m)
      PROVE  DedupInv' /\ HandledOnceWhileRemembered'
  <2> SUFFICES ASSUME NEW x \in Msgs
               PROVE  /\ InDedup(x)' => handled'[x] > 0
                      /\ handled'[x] > 0 /\ x \notin forgotten' => InDedup(x)'
                      /\ handled'[x] > 1 => x \in forgotten'
    BY Zenon
  <2>1. /\ handled \in [Msgs -> Nat]
        /\ handled' = [handled EXCEPT ![m] = @ + 1]
        /\ ~InDedup(m)
        /\ forgotten \subseteq forgotten'
    BY <1>1 DEF HandleNew, TypeOK
  <2>2. /\ x = m => InDedup(x)'
        /\ InDedup(x)' /\ x # m => InDedup(x)
        /\ InDedup(x) => InDedup(x)' \/ x \in forgotten'
    BY <1>1, DedupContents DEF TypeOK
  <2>3. QED
    BY <2>1, <2>2
<1>2. CASE CrashReceiver
  BY <1>2 DEF CrashReceiver, InDedup
<1>3. CASE UNCHANGED <<dedup, handled, forgotten>>
  BY <1>3 DEF InDedup
<1>4. QED
  BY <1>1, <1>2, <1>3, DedupFrame

-----------------------------------------------------------------------------

\* Counts never go down.
LEMMA HandledGrows ==
    ASSUME TypeOK, [Next]_vars, NEW x \in Msgs, handled[x] > 0
    PROVE  handled'[x] > 0
<1>1. ASSUME NEW m \in Msgs, HandleNew(m) PROVE handled'[x] > 0
  BY <1>1 DEF HandleNew, TypeOK
<1>2. CASE CrashReceiver
  BY <1>2 DEF CrashReceiver
<1>3. QED
  BY <1>1, <1>2, DedupFrame

\* An ACK only comes from a handled message.
LEMMA AckStep ==
    ASSUME TypeOK, AckMeansHandled, [Next]_vars
    PROVE  AckMeansHandled'
<1> SUFFICES ASSUME NEW x \in Msgs,
                    \/ toAck'[x] > 0 \/ acks'[x] > 0
                    \/ x \in ackQueue' \cup ackFlush' \cup acked'
             PROVE  handled'[x] > 0
  BY Zenon DEF AckMeansHandled
<1> DEFINE Owed == toAck[x] > 0 \/ acks[x] > 0 \/ x \in ackQueue \cup ackFlush \cup acked
<1>1. Owed => handled'[x] > 0
  BY HandledGrows DEF AckMeansHandled
<1>2. Owed \/ \E m \in Msgs : HandleNew(m) /\ m = x
  <2> USE DEF TypeOK, senderVars, receiverVars, historyVars
  <2>1. ASSUME NEW m \in Msgs, SenderStep(m) PROVE Owed
    BY <2>1 DEF SenderStep, Send, SendLost, Track, Acknowledge, OnMaxRetries, RetrySend,
                RetryLost, FlushExpired, FlushSend, FlushKept, FlushExpiredKept, Age
  <2>2. ASSUME NEW due \in SUBSET pending, CollectDue(due) PROVE Owed
    BY <2>2 DEF CollectDue
  <2>3. ASSUME NEW m \in Msgs, HandleNew(m) PROVE Owed \/ m = x
    BY <2>3 DEF HandleNew
  <2>4. ASSUME NEW m \in Msgs, ReceiverStep(m), ~HandleNew(m) PROVE Owed
    BY <2>4 DEF ReceiverStep, PolicyReject, HandleDuplicate, SendAck, SendAckLost, FlushAck,
                FlushAckExpired, FlushAckKept
  <2>5. ASSUME NEW m \in Msgs, Lose(m) \/ LoseAck(m) PROVE Owed
    BY <2>5 DEF Lose, LoseAck
  <2>6. CASE \/ Disconnect \/ \E listS, listR \in BOOLEAN : Connect(listS, listR)
             \/ CrashSender \/ CrashReceiver \/ UNCHANGED vars
    BY <2>6 DEF Disconnect, Connect, CrashSender, CrashReceiver, vars
  <2>7. QED
    BY <2>1, <2>2, <2>3, <2>4, <2>5, <2>6 DEF Next
<1>3. ASSUME HandleNew(x) PROVE handled'[x] > 0
  BY <1>3 DEF HandleNew, TypeOK
<1>4. QED
  BY <1>1, <1>2, <1>3

-----------------------------------------------------------------------------

\* One envelope is looked after, in the sense of NoSilentLoss.
Safe(x) ==
    \/ api[x] = "new" \/ handled[x] > 0 \/ x \in dropped
    \/ Undelivered(x)
    \/ queue[x] # "no"
    \/ x \in flushed /\ net[x] > 0

\* Safe names the disjunction NoSilentLoss makes of each message.
LEMMA SafeIsNoSilentLoss == TypeOK => (NoSilentLoss <=> \A x \in Msgs : Safe(x))
  BY DEF TypeOK, NoSilentLoss, Safe

\* NoSilentLoss is preserved by every step.
LEMMA LossStep ==
    ASSUME TypeOK, DedupInv, AckMeansHandled, [Next]_vars, NEW x \in Msgs, Safe(x)
    PROVE  Safe(x)'
<1> USE DEF TypeOK, Safe, Undelivered, senderVars, receiverVars, historyVars
<1>1. ASSUME NEW m \in Msgs, SenderStep(m) PROVE Safe(x)'
  <2>1. ASSUME NEW ok \in BOOLEAN, Send(m, ok) PROVE Safe(x)'
    BY <2>1 DEF Send, SendFn, SendA2AMessage
  <2>2. CASE SendLost(m)
    BY <2>2 DEF SendLost, SendFnLost
  <2>3. CASE Track(m)
    BY <2>3 DEF Track
  <2>4. CASE Acknowledge(m)
    BY <2>4 DEF Acknowledge, AckMeansHandled
  <2>5. ASSUME NEW stored \in BOOLEAN, OnMaxRetries(m, stored) PROVE Safe(x)'
    BY <2>5 DEF OnMaxRetries
  <2>6. ASSUME NEW ok \in BOOLEAN, RetrySend(m, ok) PROVE Safe(x)'
    BY <2>6 DEF RetrySend, SendFn, SendA2AMessage
  <2>7. CASE RetryLost(m)
    BY <2>7 DEF RetryLost, SendFnLost
  <2>8. CASE FlushExpired(m)
    BY <2>8 DEF FlushExpired
  <2>9. ASSUME NEW ok \in BOOLEAN, FlushSend(m, ok) PROVE Safe(x)'
    BY <2>9 DEF FlushSend, SendA2AMessage
  <2>10. CASE FlushKept(m)
    BY <2>10 DEF FlushKept
  <2>11. CASE Age(m) \/ FlushExpiredKept(m)
    BY <2>11 DEF Age, FlushExpiredKept
  <2>12. QED
    BY <1>1, <2>1, <2>2, <2>3, <2>4, <2>5, <2>6, <2>7, <2>8, <2>9, <2>10, <2>11 DEF SenderStep
<1>2. ASSUME NEW due \in SUBSET pending, CollectDue(due) PROVE Safe(x)'
  BY <1>2 DEF CollectDue
<1>3. ASSUME NEW m \in Msgs, ReceiverStep(m) PROVE Safe(x)'
  <2>1. CASE PolicyReject(m)
    BY <2>1 DEF PolicyReject
  <2>2. CASE HandleDuplicate(m)
    BY <2>2 DEF HandleDuplicate, DedupInv
  <2>3. CASE HandleNew(m)
    BY <2>3 DEF HandleNew
  <2>4. CASE \/ \E ok \in BOOLEAN : SendAck(m, ok) \/ FlushAck(m, ok)
             \/ SendAckLost(m) \/ FlushAckExpired(m) \/ FlushAckKept(m)
    BY <2>4 DEF SendAck, SendAckLost, FlushAck, FlushAckExpired, FlushAckKept
  <2>5. QED
    BY <1>3, <2>1, <2>2, <2>3, <2>4 DEF ReceiverStep
<1>4. ASSUME NEW m \in Msgs, Lose(m) \/ LoseAck(m) PROVE Safe(x)'
  BY <1>4 DEF Lose, LoseAck
<1>5. CASE \/ Disconnect \/ \E listS, listR \in BOOLEAN : Connect(listS, listR)
           \/ CrashReceiver \/ UNCHANGED vars
  BY <1>5 DEF Disconnect, Connect, CrashReceiver, vars
<1>6. CASE CrashSender
  BY <1>6 DEF CrashSender
<1>7. QED
  BY <1>1, <1>2, <1>3, <1>4, <1>5, <1>6 DEF Next

-----------------------------------------------------------------------------

\* The inductive invariant of the delivery protocol.
THEOREM IndInvCorrect == Spec => []IndInv
<1>1. Init => IndInv
  <2>1. Init => TypeInv
    BY TypeInit
  <2>2. Init => DedupInv /\ AckMeansHandled /\ HandledOnceWhileRemembered /\ NoSilentLoss
    BY DEF Init, Idle, DedupInv, InDedup, AckMeansHandled, HandledOnceWhileRemembered, NoSilentLoss
  <2>3. QED
    BY <2>1, <2>2 DEF IndInv
<1>2. IndInv /\ [Next]_vars => IndInv'
  <2> SUFFICES ASSUME IndInv, [Next]_vars PROVE IndInv'
    OBVIOUS
  <2>1. TypeInv'
    BY TypeStep DEF IndInv
  <2>2. DedupInv' /\ HandledOnceWhileRemembered'
    BY DedupStep DEF IndInv, TypeInv
  <2>3. AckMeansHandled'
    BY AckStep DEF IndInv, TypeInv
  <2>4. \A x \in Msgs : Safe(x)'
    BY LossStep, SafeIsNoSilentLoss DEF IndInv, TypeInv
  <2>5. NoSilentLoss'
    BY <2>1, <2>4 DEF TypeInv, TypeOK, NoSilentLoss, Safe, Undelivered
  <2>6. QED
    BY <2>1, <2>2, <2>3, <2>5 DEF IndInv
<1>3. QED
  BY <1>1, <1>2, PTL DEF Spec

\* No envelope accepted by a send call is lost without one of the recorded
\* reasons (router.go, ack_tracker.go, offline_queue.go, main.go together).
THEOREM NoSilentLossCorrect == Spec => []NoSilentLoss
<1>1. IndInv => NoSilentLoss
  BY DEF IndInv
<1>2. QED
  BY <1>1, IndInvCorrect, PTL

\* An ACK exists only for a message whose handler has run (router.go HandleMessage).
THEOREM AckMeansHandledCorrect == Spec => []AckMeansHandled
<1>1. IndInv => AckMeansHandled
  BY DEF IndInv
<1>2. QED
  BY <1>1, IndInvCorrect, PTL

\* A handler runs twice for one envelope only after an eviction or a restart
\* (router.go isDuplicate).
THEOREM HandledOnceCorrect == Spec => []HandledOnceWhileRemembered
<1>1. IndInv => HandledOnceWhileRemembered
  BY DEF IndInv
<1>2. QED
  BY <1>1, IndInvCorrect, PTL

-----------------------------------------------------------------------------
(***************************************************************************)
(* Delivery implements AtLeastOnce: what the send calls, AckTracker, the   *)
(* offline queue, the dedup cache and the restarts do together, seen per   *)
(* envelope, is what the abstract specification allows.                    *)
(***************************************************************************)

\* Before its send call an envelope is nowhere.
FreshInv ==
    \A m \in Msgs : api[m] = "new" =>
        /\ net[m] = 0 /\ queue[m] = "no" /\ flush[m] = "no" /\ handled[m] = 0
        /\ m \notin pending \cup batch \cup escalate

\* A message that is being retried or flushed has been sent.
LEMMA FreshStep ==
    ASSUME TypeOK, FreshInv, [Next]_vars
    PROVE  FreshInv'
<1> USE DEF TypeOK, FreshInv, senderVars, receiverVars, historyVars
<1>1. ASSUME NEW m \in Msgs, SenderStep(m) PROVE FreshInv'
  <2>1. ASSUME NEW ok \in BOOLEAN, Send(m, ok) PROVE FreshInv'
    BY <2>1 DEF Send, SendFn, SendA2AMessage
  <2>2. CASE SendLost(m)
    BY <2>2 DEF SendLost, SendFnLost
  <2>3. CASE Track(m)
    BY <2>3 DEF Track
  <2>4. CASE Acknowledge(m)
    BY <2>4 DEF Acknowledge
  <2>5. ASSUME NEW stored \in BOOLEAN, OnMaxRetries(m, stored) PROVE FreshInv'
    BY <2>5 DEF OnMaxRetries
  <2>6. ASSUME NEW ok \in BOOLEAN, RetrySend(m, ok) PROVE FreshInv'
    BY <2>6 DEF RetrySend, SendFn, SendA2AMessage, Counted
  <2>7. CASE RetryLost(m)
    BY <2>7 DEF RetryLost, SendFnLost, Counted
  <2>8. CASE FlushExpired(m)
    BY <2>8 DEF FlushExpired
  <2>9. ASSUME NEW ok \in BOOLEAN, FlushSend(m, ok) PROVE FreshInv'
    BY <2>9 DEF FlushSend, SendA2AMessage
  <2>10. CASE FlushKept(m)
    BY <2>10 DEF FlushKept
  <2>11. CASE Age(m) \/ FlushExpiredKept(m)
    BY <2>11 DEF Age, FlushExpiredKept
  <2>12. QED
    BY <1>1, <2>1, <2>2, <2>3, <2>4, <2>5, <2>6, <2>7, <2>8, <2>9, <2>10, <2>11 DEF SenderStep
<1>2. ASSUME NEW due \in SUBSET pending, CollectDue(due) PROVE FreshInv'
  BY <1>2 DEF CollectDue
<1>3. ASSUME NEW m \in Msgs, ReceiverStep(m) PROVE FreshInv'
  <2>1. CASE PolicyReject(m) \/ HandleDuplicate(m)
    BY <2>1 DEF PolicyReject, HandleDuplicate
  <2>2. CASE HandleNew(m)
    BY <2>2 DEF HandleNew
  <2>3. CASE \/ \E ok \in BOOLEAN : SendAck(m, ok) \/ FlushAck(m, ok)
             \/ SendAckLost(m) \/ FlushAckExpired(m) \/ FlushAckKept(m)
    BY <2>3 DEF SendAck, SendAckLost, FlushAck, FlushAckExpired, FlushAckKept
  <2>4. QED
    BY <1>3, <2>1, <2>2, <2>3 DEF ReceiverStep
<1>4. ASSUME NEW m \in Msgs, Lose(m) \/ LoseAck(m) PROVE FreshInv'
  BY <1>4 DEF Lose, LoseAck
<1>5. CASE \/ Disconnect \/ CrashReceiver \/ CrashSender \/ UNCHANGED vars
  BY <1>5 DEF Disconnect, CrashReceiver, CrashSender, vars
<1>6. ASSUME NEW listS \in BOOLEAN, NEW listR \in BOOLEAN, Connect(listS, listR) PROVE FreshInv'
  BY <1>6 DEF Connect
<1>7. QED
  BY <1>1, <1>2, <1>3, <1>4, <1>5, <1>6 DEF Next

\* What the refinement rests on.
RefInv == IndInv /\ FreshInv

\* The invariants of DeliveryProofs and FreshInv hold together.
LEMMA RefInvCorrect == Spec => []RefInv
<1>1. Init => FreshInv
  BY DEF Init, Idle, FreshInv
<1>2. IndInv /\ FreshInv /\ [Next]_vars => FreshInv'
  BY FreshStep DEF IndInv, TypeInv
<1>3. QED
  BY <1>1, <1>2, IndInvCorrect, PTL DEF Spec, RefInv

-----------------------------------------------------------------------------

\* The sender moves m along, or leaves it as it stands; the receiver is not involved.
Moves(m) ==
    /\ \A x \in Msgs \ {m} : Standing(x)' = Standing(x)
    /\ UNCHANGED <<dedup, acked>>
    /\ \/ Standing(m)' = Standing(m)
       \/ Standing(m) = "new" /\ Standing(m)' \in {"held", "parked", "given up"}
       \/ Standing(m) = "held" /\ Standing(m)' = "parked"
       \/ Standing(m) = "parked" /\ Standing(m)' = "held"
       \/ Standing(m) \in {"held", "parked"} /\ Standing(m)' = "given up"

\* The abstract view of the envelopes, as in the INSTANCE of AtLeastOnce.
St == [m \in Msgs |-> Standing(m)]

\* A step under which only m changes, in the form that EXCEPT takes.
LEMMA OneChanges ==
    ASSUME NEW m \in Msgs, NEW to, Standing(m)' = to,
           \A x \in Msgs \ {m} : Standing(x)' = Standing(x)
    PROVE  St' = [St EXCEPT ![m] = to]
<1>1. \A x \in Msgs : St'[x] = IF x = m THEN to ELSE St[x]
  BY DEF St
<1>2. QED
  BY <1>1, Zenon DEF St

\* Each such move is a step of AtLeastOnce, or invisible.
LEMMA MovesAllowed ==
    ASSUME NEW m \in Msgs, Moves(m)
    PROVE  Promise!Next \/ UNCHANGED Promise!vars
<1>1. {x \in Msgs : InDedup(x)'} = {x \in Msgs : InDedup(x)} /\ acked' = acked
  BY DEF Moves, InDedup
<1>2. CASE Standing(m)' = Standing(m)
  <2>1. \A x \in Msgs : Standing(x)' = Standing(x)
    BY <1>2 DEF Moves
  <2>2. St' = St
    BY <2>1, Zenon DEF St
  <2>3. QED
    BY <1>1, <2>2 DEF Promise!vars, St
<1>3. CASE Standing(m) = "new" /\ Standing(m)' \in {"held", "parked", "given up"}
  <2>1. St' = [St EXCEPT ![m] = Standing(m)'] /\ St[m] = "new"
    BY <1>3, OneChanges DEF Moves, St
  <2>2. Promise!Accept(m, Standing(m)')
    BY <1>1, <1>3, <2>1 DEF Promise!Accept, St
  <2>3. QED
    BY <1>3, <2>2 DEF Promise!Next
<1>4. CASE Standing(m) = "held" /\ Standing(m)' = "parked"
  <2>1. St' = [St EXCEPT ![m] = "parked"] /\ St[m] = "held"
    BY <1>4, OneChanges DEF Moves, St
  <2>2. Promise!Park(m)
    BY <1>1, <2>1 DEF Promise!Park, St
  <2>3. QED
    BY <2>2 DEF Promise!Next
<1>5. CASE Standing(m) = "parked" /\ Standing(m)' = "held"
  <2>1. St' = [St EXCEPT ![m] = "held"] /\ St[m] = "parked"
    BY <1>5, OneChanges DEF Moves, St
  <2>2. Promise!Unpark(m)
    BY <1>1, <2>1 DEF Promise!Unpark, St
  <2>3. QED
    BY <2>2 DEF Promise!Next
<1>6. CASE Standing(m) \in {"held", "parked"} /\ Standing(m)' = "given up"
  <2>1. \A x \in Msgs : Standing(x)' = IF x \in {m} THEN "given up" ELSE Standing(x)
    BY <1>6 DEF Moves
  <2>2. Promise!GiveUp({m})
    BY <1>1, <1>6, <2>1 DEF Promise!GiveUp
  <2>3. QED
    BY <2>2 DEF Promise!Next
<1>7. QED
  BY <1>2, <1>3, <1>4, <1>5, <1>6 DEF Moves

-----------------------------------------------------------------------------

\* A step of the send call, of AckTracker or of FlushQueue, other than Acknowledge, moves
\* its envelope along and touches no other.
LEMMA SenderMoves ==
    ASSUME RefInv, NEW m \in Msgs, SenderStep(m), ~Acknowledge(m), Safe(m), Safe(m)'
    PROVE  Moves(m)
<1> USE DEF RefInv, IndInv, TypeInv, TypeOK, FreshInv, Moves, Standing, Safe, Undelivered,
            senderVars, receiverVars, historyVars
<1>1. ASSUME NEW ok \in BOOLEAN, Send(m, ok) PROVE Moves(m)
  <2>1. /\ api[m] = "new" /\ api' = [api EXCEPT ![m] = IF ok THEN "wire" ELSE "error"]
        /\ queue' = [queue EXCEPT ![m] = IF ok THEN @ ELSE "fresh"]
        /\ \A x \in Msgs \ {m} : net'[x] = net[x]
        /\ UNCHANGED <<pending, escalate, handled, dropped, flushed, dedup, acked>>
    BY <1>1 DEF Send, SendFn, SendA2AMessage
  <2>2. \A x \in Msgs \ {m} : Standing(x)' = Standing(x)
    BY <2>1
  <2>3. Standing(m) = "new" /\ Standing(m)' \in {"held", "parked", "given up"}
    <3>1. handled'[m] = 0 /\ queue[m] = "no" /\ api'[m] # "new"
      BY <2>1
    <3>2. ok => api'[m] = "wire"
      BY <2>1
    <3>3. ~ok => queue'[m] # "no"
      BY <2>1
    <3>4. QED
      BY <2>1, <3>1, <3>2, <3>3
  <2>4. QED
    BY <2>1, <2>2, <2>3
<1>2. CASE SendLost(m)
  <2>1. /\ api[m] = "new" /\ api' = [api EXCEPT ![m] = "error"]
        /\ dropped' = dropped \cup {m}
        /\ UNCHANGED <<queue, net, pending, escalate, handled, flushed, dedup, acked>>
    BY <1>2 DEF SendLost, SendFnLost
  <2>2. \A x \in Msgs \ {m} : Standing(x)' = Standing(x)
    BY <2>1
  <2>3. Standing(m) = "new" /\ Standing(m)' = "given up"
    BY <2>1
  <2>4. QED
    BY <2>1, <2>2, <2>3
<1>3. CASE Track(m)
  BY <1>3 DEF Track
<1>4. ASSUME NEW stored \in BOOLEAN, OnMaxRetries(m, stored) PROVE Moves(m)
  BY <1>4 DEF OnMaxRetries
<1>5. ASSUME NEW ok \in BOOLEAN, RetrySend(m, ok) PROVE Moves(m)
  BY <1>5 DEF RetrySend, SendFn, SendA2AMessage
<1>6. CASE RetryLost(m)
  BY <1>6 DEF RetryLost, SendFnLost
<1>7. CASE FlushExpired(m)
  BY <1>7 DEF FlushExpired
<1>8. ASSUME NEW ok \in BOOLEAN, FlushSend(m, ok) PROVE Moves(m)
  BY <1>8 DEF FlushSend, SendA2AMessage
<1>9. CASE FlushKept(m)
  BY <1>9 DEF FlushKept
<1>10. CASE Age(m) \/ FlushExpiredKept(m)
  BY <1>10 DEF Age, FlushExpiredKept
<1>11. QED
  BY <1>1, <1>2, <1>3, <1>4, <1>5, <1>6, <1>7, <1>8, <1>9, <1>10 DEF SenderStep

\* So does a step of the receiver other than HandleNew, and a loss in the network.
LEMMA ReceiverMoves ==
    ASSUME RefInv, NEW m \in Msgs, ReceiverStep(m) \/ Lose(m) \/ LoseAck(m), ~HandleNew(m),
           Safe(m), Safe(m)'
    PROVE  Moves(m)
<1> USE DEF RefInv, IndInv, TypeInv, TypeOK, FreshInv, Moves, Standing, Safe, Undelivered,
            senderVars, receiverVars, historyVars
<1>1. CASE PolicyReject(m)
  BY <1>1 DEF PolicyReject
<1>2. CASE HandleDuplicate(m)
  BY <1>2 DEF HandleDuplicate, DedupInv
<1>3. CASE \/ \E ok \in BOOLEAN : SendAck(m, ok) \/ FlushAck(m, ok)
           \/ SendAckLost(m) \/ FlushAckExpired(m) \/ FlushAckKept(m)
  BY <1>3 DEF SendAck, SendAckLost, FlushAck, FlushAckExpired, FlushAckKept
<1>4. CASE Lose(m) \/ LoseAck(m)
  BY <1>4 DEF Lose, LoseAck
<1>5. QED
  BY <1>1, <1>2, <1>3, <1>4 DEF ReceiverStep

\* A pass of processRetries, a connection made or lost, and a stuttering step are invisible.
LEMMA Invisible ==
    ASSUME RefInv, NEW x \in Msgs, Safe(x), Safe(x)',
           \/ \E due \in SUBSET pending : CollectDue(due)
           \/ Disconnect \/ \E listS, listR \in BOOLEAN : Connect(listS, listR)
           \/ UNCHANGED vars
    PROVE  Standing(x)' = Standing(x) /\ UNCHANGED <<dedup, acked>>
<1> USE DEF RefInv, IndInv, TypeInv, TypeOK, Standing, Safe, Undelivered,
            senderVars, receiverVars, historyVars
<1>1. ASSUME NEW due \in SUBSET pending, CollectDue(due)
      PROVE  Standing(x)' = Standing(x) /\ UNCHANGED <<dedup, acked>>
  BY <1>1 DEF CollectDue
<1>2. CASE Disconnect \/ (\E listS, listR \in BOOLEAN : Connect(listS, listR)) \/ UNCHANGED vars
  BY <1>2 DEF Disconnect, Connect, vars
<1>3. QED
  BY <1>1, <1>2

\* HandleNew delivers the envelope, and may forget what the cache evicts.
LEMMA NewDelivers ==
    ASSUME RefInv, NEW m \in Msgs, HandleNew(m)
    PROVE  Promise!Next
<1> DEFINE Old == {x \in Msgs : InDedup(x) /\ ~InDedup(x)'}
<1>1. /\ Standing(m)' = "delivered" /\ Standing(m) # "new"
      /\ \A x \in Msgs \ {m} : Standing(x)' = Standing(x)
      /\ ~InDedup(m) /\ acked' = acked
  BY DEF HandleNew, RefInv, IndInv, TypeInv, TypeOK, FreshInv, Standing, Undelivered,
         senderVars, receiverVars, historyVars
<1>2. \A x \in Msgs : InDedup(x)' <=> (InDedup(x) /\ x \notin Old) \/ x = m
  BY <1>1, DedupContents DEF RefInv, IndInv, TypeInv, TypeOK
<1>3. {x \in Msgs : InDedup(x)'} = ({x \in Msgs : InDedup(x)} \ Old) \cup {m}
  BY <1>2
<1>4. St' = [St EXCEPT ![m] = "delivered"]
  BY <1>1, OneChanges
<1>5. Promise!Deliver(m, Old)
  BY <1>1, <1>3, <1>4 DEF Promise!Deliver, St
<1>6. Old \in SUBSET {x \in Msgs : InDedup(x)}
  OBVIOUS
<1>7. QED
  BY <1>5, <1>6 DEF Promise!Next

\* An ACK confirms a delivery.
LEMMA AckConfirms ==
    ASSUME RefInv, NEW m \in Msgs, Acknowledge(m)
    PROVE  Promise!Next
<1>1. /\ \A x \in Msgs : Standing(x)' = Standing(x)
      /\ Standing(m) = "delivered"
      /\ acked' = acked \cup {m} /\ dedup' = dedup
  <2>1. handled[m] > 0 /\ api[m] # "new"
    BY DEF Acknowledge, RefInv, IndInv, TypeInv, TypeOK, FreshInv, AckMeansHandled
  <2>2. /\ pending' = pending \ {m} /\ acked' = acked \cup {m}
        /\ UNCHANGED <<api, queue, net, escalate, handled, dropped, flushed, dedup>>
    BY DEF Acknowledge, receiverVars
  <2>3. QED
    BY <2>1, <2>2 DEF Standing, Undelivered
<1>2. St' = St /\ St[m] = "delivered"
  BY <1>1, Zenon DEF St
<1>3. Promise!Confirm(m)
  BY <1>1, <1>2 DEF Promise!Confirm, St, InDedup
<1>4. QED
  BY <1>3 DEF Promise!Next

\* A crash of the sender gives up what only its memory held.
LEMMA CrashGivesUp ==
    ASSUME RefInv, CrashSender, \A x \in Msgs : Safe(x)
    PROVE  Promise!Next
<1> DEFINE Some == {x \in Msgs : Standing(x) \in {"held", "parked"} /\ Standing(x)' = "given up"}
<1>1. \A x \in Msgs : Standing(x)' = IF x \in Some THEN "given up" ELSE Standing(x)
  BY DEF CrashSender, RefInv, IndInv, TypeInv, TypeOK, FreshInv, Standing, Safe,
         Undelivered, senderVars, receiverVars, historyVars
<1>2. \A x \in Some : St[x] \in {"held", "parked"}
  BY DEF St
<1>3. dedup' = dedup /\ acked' = acked
  BY DEF CrashSender, receiverVars
<1>4. Promise!GiveUp(Some)
  BY <1>1, <1>2, <1>3 DEF Promise!GiveUp, St, InDedup
<1>5. Some \in SUBSET Msgs
  OBVIOUS
<1>6. QED
  BY <1>4, <1>5 DEF Promise!Next

\* A crash of the receiver forgets.
LEMMA CrashForgets ==
    ASSUME RefInv, CrashReceiver
    PROVE  Promise!Next
<1>1. /\ \A x \in Msgs : Standing(x)' = Standing(x)
      /\ acked' = acked /\ dedup' = <<>>
  BY DEF CrashReceiver, Standing, Undelivered, senderVars
<1>2. St' = St
  BY <1>1, Zenon DEF St
<1>3. {x \in Msgs : InDedup(x)'} = {}
  BY <1>1 DEF InDedup
<1>4. Promise!Forget
  BY <1>1, <1>2, <1>3 DEF Promise!Forget, St
<1>5. QED
  BY <1>4 DEF Promise!Next

-----------------------------------------------------------------------------

\* The delivery of envelopes (router.go, ack_tracker.go, offline_queue.go, main.go)
\* implements AtLeastOnce: what happens to an envelope is accepted, parked, unparked, given
\* up, delivered or confirmed as the abstract specification allows, and it is never lost.
THEOREM AtLeastOnceImplemented == Spec => ImplementsAtLeastOnce
<1>1. Init => Promise!Init
  <2> SUFFICES ASSUME Init PROVE Promise!Init
    OBVIOUS
  <2>1. \A m \in Msgs : Standing(m) = "new"
    BY DEF Init, Idle, Standing
  <2>2. {m \in Msgs : InDedup(m)} = {} /\ acked = {}
    BY DEF Init, Idle, InDedup
  <2>3. QED
    BY <2>1, <2>2 DEF Promise!Init
<1>2. RefInv /\ [Next]_vars /\ RefInv' => [Promise!Next]_(Promise!vars)
  <2> SUFFICES ASSUME RefInv, [Next]_vars, RefInv'
               PROVE  Promise!Next \/ UNCHANGED Promise!vars
    BY DEF Promise!vars
  <2>1. \A x \in Msgs : Safe(x) /\ Safe(x)'
    <3>1. \A x \in Msgs : Safe(x)
      BY SafeIsNoSilentLoss DEF RefInv, IndInv, TypeInv
    <3>2. QED
      BY <3>1, LossStep DEF RefInv, IndInv, TypeInv
  <2>2. ASSUME NEW m \in Msgs, SenderStep(m) PROVE Promise!Next \/ UNCHANGED Promise!vars
    BY <2>1, <2>2, SenderMoves, AckConfirms, MovesAllowed
  <2>3. ASSUME NEW m \in Msgs, ReceiverStep(m) \/ Lose(m) \/ LoseAck(m)
        PROVE  Promise!Next \/ UNCHANGED Promise!vars
    BY <2>1, <2>3, ReceiverMoves, NewDelivers, MovesAllowed
  <2>4. CASE \/ \E due \in SUBSET pending : CollectDue(due)
             \/ Disconnect \/ \E listS, listR \in BOOLEAN : Connect(listS, listR)
             \/ UNCHANGED vars
    <3>1. \A x \in Msgs : Standing(x)' = Standing(x)
      BY <2>1, <2>4, Invisible
    <3>2. dedup' = dedup /\ acked' = acked
      BY <2>4 DEF CollectDue, Disconnect, Connect, vars, receiverVars, historyVars
    <3>3. St' = St
      BY <3>1, Zenon DEF St
    <3>4. QED
      BY <3>2, <3>3 DEF Promise!vars, St, InDedup
  <2>5. CASE CrashSender
    BY <2>1, <2>5, CrashGivesUp
  <2>6. CASE CrashReceiver
    BY <2>6, CrashForgets
  <2>7. QED
    BY <2>2, <2>3, <2>4, <2>5, <2>6 DEF Next
<1>3. QED
  BY <1>1, <1>2, RefInvCorrect, PTL DEF Spec, Promise!Spec, ImplementsAtLeastOnce

-----------------------------------------------------------------------------
(***************************************************************************)
(* To whom a task goes that is sent by skill: Anycast, for any peers,      *)
(* providers and requests, and every TTL.                                  *)
(***************************************************************************)

\* How long ago a peer was listed: one that is listed, now; one that a query has found,
\* since the query began; and one of a cache entry, within what is over of its time.
RecentInv ==
    /\ \A p \in Peers : Listed(p) => unlisted[p] = 0
    /\ \A q \in Requests : \A p \in merged[q] : Asking(q) /\ unlisted[p] <= wait[q]
    /\ left >= 0 => \A p \in endpoints : unlisted[p] + left <= TTL + MaxQuery

AnycastInv == AnycastTypeOK /\ RecentInv

\* What the constants give the arithmetic leaves.
LEMMA AnycastConstants ==
    /\ TTL \in Nat /\ MaxQuery \in Nat /\ Oldest \in Nat /\ Oldest = TTL + MaxQuery + 1
    /\ NoPeer \notin Peers
  BY ConstAssumption DEF Oldest

\* Initially nobody is listed and nothing is cached.
LEMMA AnycastInvInit == AnycastInit => AnycastInv
  BY AnycastConstants DEF AnycastInit, AnycastInv, AnycastTypeOK, RecentInv, Listed, Asking

\* Every step keeps the types and the ages.
LEMMA AnycastInvStep == AnycastInv /\ [AnycastNext]_anycastVars => AnycastInv'
<1> SUFFICES ASSUME AnycastInv, [AnycastNext]_anycastVars PROVE AnycastInv'
  OBVIOUS
<1> USE AnycastConstants DEF AnycastInv, AnycastTypeOK
<1>1. ASSUME NEW q \in Requests, ResolveCached(q) PROVE AnycastInv'
  <2>1. AnycastTypeOK'
    BY <1>1 DEF ResolveCached, Select, Cached
  <2>2. RecentInv'
    BY <1>1 DEF ResolveCached, RecentInv, Listed, Asking
  <2>3. QED
    BY <2>1, <2>2
<1>2. ASSUME NEW q \in Requests, NEW asking \in {"resolving", "discovering"}, Ask(q, asking)
      PROVE  AnycastInv'
  BY <1>2 DEF Ask, RecentInv, Listed, Asking
<1>3. ASSUME NEW q \in Requests, NEW r \in Providers, NEW ok \in BOOLEAN, Answer(q, r, ok)
      PROVE  AnycastInv'
  <2>1. Found(r) \subseteq listed[r] /\ listed[r] \subseteq Peers
    BY DEF Found
  <2>2. \A p \in Found(r) : unlisted[p] = 0
    BY <2>1 DEF RecentInv, Listed
  <2>3. AnycastTypeOK'
    BY <1>3, <2>1 DEF Answer
  <2>4. RecentInv'
    BY <1>3, <2>1, <2>2 DEF Answer, RecentInv, Listed, Asking
  <2>5. QED
    BY <2>3, <2>4
<1>4. ASSUME NEW q \in Requests, Merge(q) PROVE AnycastInv'
  <2>1. \A p \in merged[q] : unlisted[p] <= MaxQuery
    BY DEF RecentInv
  <2>2. AnycastTypeOK'
    BY <1>4 DEF Merge, Put, Select
  <2>3. RecentInv'
    BY <1>4, <2>1 DEF Merge, Put, RecentInv, Listed, Asking
  <2>4. QED
    BY <2>2, <2>3
<1>5. ASSUME NEW q \in Requests,
             SendTask(q) \/ SendTaskFails(q) \/ ToolSendFails(q) \/ Return(q)
      PROVE  AnycastInv'
  <2>1. ~Asking(q)
    BY <1>5 DEF SendTask, SendTaskFails, ToolSendFails, Return, Asking
  <2>2. AnycastTypeOK'
    BY <1>5 DEF SendTask, SendTaskFails, ToolSendFails, Return
  <2>3. RecentInv'
    BY <1>5, <2>1 DEF SendTask, SendTaskFails, ToolSendFails, Return, RecentInv, Listed, Asking
  <2>4. QED
    BY <2>2, <2>3
<1>6. ASSUME NEW r \in Providers, NEW p \in Peers, Relist(r, p) PROVE AnycastInv'
  <2>1. AnycastTypeOK'
    BY <1>6 DEF Relist
  <2>2. \A x \in Peers : unlisted'[x] <= unlisted[x] /\ (x # p => unlisted'[x] = unlisted[x])
    BY <1>6 DEF Relist
  <2>3. \A x \in Peers : Listed(x)' => unlisted'[x] = 0
    BY <1>6 DEF Relist, RecentInv, Listed
  <2>4. RecentInv'
    BY <1>6, <2>2, <2>3 DEF Relist, RecentInv, Asking
  <2>5. QED
    BY <2>1, <2>4
<1>7. CASE Tick
  <2>1. \A p \in Peers : /\ unlisted'[p] \in 0..Oldest
                         /\ unlisted'[p] <= unlisted[p] + 1 /\ (Listed(p) => unlisted'[p] = 0)
    BY <1>7 DEF Tick
  <2>2. AnycastTypeOK'
    BY <1>7, <2>1 DEF Tick
  <2>3. RecentInv'
    BY <1>7, <2>1 DEF Tick, RecentInv, Listed, Asking
  <2>4. QED
    BY <2>2, <2>3
<1>8. CASE UNCHANGED anycastVars
  BY <1>8 DEF anycastVars, RecentInv, Listed, Asking
<1>9. QED
  BY <1>1, <1>2, <1>3, <1>4, <1>5, <1>6, <1>7, <1>8 DEF AnycastNext

\* The types and the ages.
THEOREM AnycastInvCorrect == AnycastSpec => []AnycastInv
  BY AnycastInvInit, AnycastInvStep, PTL DEF AnycastSpec

\* A peer that Resolve returns was listed by some provider at most TTL and one query ago,
\* however many requests fill, use and invalidate the cache entry at once
\* (router.go:51-108, cache.go:31-51).
THEOREM RouteIsRecentCorrect == AnycastSpec => RouteIsRecent
<1> DEFINE Recent ==
        \A q \in Requests : Resolves(q) => unlisted[selected'[q]] <= TTL + MaxQuery
<1>1. ASSUME AnycastInv, [AnycastNext]_anycastVars PROVE [Recent]_anycastVars
  <2> USE AnycastConstants DEF AnycastInv, AnycastTypeOK
  <2>1. SUFFICES ASSUME NEW q \in Requests, Resolves(q), AnycastNext
                 PROVE  unlisted[selected'[q]] <= TTL + MaxQuery
    BY <1>1 DEF Resolves, anycastVars
  <2>2. ResolveCached(q) \/ Merge(q)
    BY <1>1, <2>1 DEF AnycastNext, Resolves, ResolveCached, Ask, Answer, Merge, SendTask, SendTaskFails,
                ToolSendFails, Return, Relist, Tick
  <2>3. CASE ResolveCached(q)
    <3>1. left >= 0 /\ selected'[q] \in endpoints
      BY <1>1, <2>3 DEF ResolveCached, Cached, Select
    <3>2. QED
      BY <1>1, <3>1 DEF RecentInv
  <2>4. CASE Merge(q)
    <3>1. selected'[q] \in merged[q]
      BY <1>1, <2>1, <2>4 DEF Merge, Select, Resolves, Put
    <3>2. QED
      BY <1>1, <3>1 DEF RecentInv
  <2>5. QED
    BY <2>2, <2>3, <2>4
<1>2. QED
  BY <1>1, AnycastInvCorrect, PTL DEF AnycastSpec, RouteIsRecent

=============================================================================

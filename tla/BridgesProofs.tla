--------------------------- MODULE BridgesProofs ---------------------------
(***************************************************************************)
(* Proofs about Bridges, for any number of calls, any capacity of the      *)
(* channel and any answers of other agents.  The ANP bridge comes first,   *)
(* by itself: the shutdown never closes the channel under a handler, and   *)
(* the goroutine of a call never blocks on its response.  Beside the HTTP  *)
(* bridge it behaves as it does by itself; the second half is about what   *)
(* the two bridges have in common, the tasks they make, and about what the *)
(* caller of send_task is told.                                            *)
(***************************************************************************)
EXTENDS Bridges, TLAPS

Working == {"none", "taken", "sending", "sent", "failed", "done"}

TypeInv ==
    /\ handler \in [Requests -> {"idle", "queueing", "waiting", "answered"}]
    /\ worker \in [Requests -> Working]
    /\ result \in [Requests -> Seq(Ids)]
    /\ queue \in Seq(Requests)

\* After http.Server.Shutdown nobody is in serveRPC.
ClosedInv ==
    /\ ~panicked
    /\ stage \in {"closed", "exited"} => \A r \in Requests : handler[r] \notin {"queueing", "waiting"}

\* A call is in the channel at most once, and only before a goroutine has it.
QueueInv ==
    /\ \A i \in 1..Len(queue) : worker[queue[i]] = "none"
    /\ \A i, j \in 1..Len(queue) : queue[i] = queue[j] => i = j
    /\ \A r \in Requests : handler[r] \in {"idle", "queueing"} =>
          worker[r] = "none" /\ \A i \in 1..Len(queue) : queue[i] # r

\* A goroutine that has not responded has put nothing into its channel.
ResultInv == \A r \in Requests : worker[r] # "done" => result[r] = <<>>

IndInv == TypeInv /\ ClosedInv /\ QueueInv /\ ResultInv

\* Every step keeps the types.
LEMMA TypeStep == TypeInv /\ [Next]_vars => TypeInv'
<1> SUFFICES ASSUME TypeInv, [Next]_vars PROVE TypeInv'
  OBVIOUS
<1> USE DEF TypeInv, Working
<1>1. ASSUME NEW r \in Requests,
             Accept(r) \/ Refuse(r) \/ Enqueue(r) \/ Busy(r) \/ Receive(r) \/ TimedOut(r)
      PROVE  TypeInv'
  <2>1. CASE Accept(r) \/ Refuse(r) \/ Busy(r) \/ TimedOut(r)
    BY <2>1 DEF Accept, Refuse, Busy, TimedOut, Answered
  <2>2. CASE Enqueue(r)
    <3>1. /\ worker' = worker /\ result' = result
          /\ handler' = handler \/ handler' = [handler EXCEPT ![r] = "waiting"]
          /\ queue' = queue \/ queue' = Append(queue, r)
      BY <2>2 DEF Enqueue
    <3>2. Append(queue, r) \in Seq(Requests)
      OBVIOUS
    <3>3. queue' \in Seq(Requests)
      BY <3>1, <3>2
    <3>4. QED
      BY <3>1, <3>3
  <2>3. CASE Receive(r)
    BY <2>3 DEF Receive, Answered
  <2>4. QED
    BY <1>1, <2>1, <2>2, <2>3
<1>2. ASSUME NEW r \in Requests, CreateTask(r) \/ \E ok \in BOOLEAN : SendTask(r, ok)
      PROVE  TypeInv'
  BY <1>2 DEF CreateTask, SendTask
<1>3. ASSUME NEW r \in Requests, Respond(r) PROVE TypeInv'
  BY <1>3 DEF Respond, Ids
<1>4. CASE Take
  BY <1>4 DEF Take
<1>5. CASE ConsumerEnds \/ Stop \/ CloseChannel \/ Exit \/ UNCHANGED vars
  BY <1>5 DEF ConsumerEnds, Stop, CloseChannel, Exit, vars
<1>6. QED
  BY <1>1, <1>2, <1>3, <1>4, <1>5 DEF Next

\* Every step keeps the handlers out of a closed channel.
LEMMA ClosedStep == TypeInv /\ ClosedInv /\ [Next]_vars => ClosedInv'
<1> SUFFICES ASSUME TypeInv, ClosedInv, [Next]_vars PROVE ClosedInv'
  OBVIOUS
<1> USE DEF TypeInv, ClosedInv
<1>1. ASSUME NEW r \in Requests,
             Accept(r) \/ Refuse(r) \/ Busy(r) \/ TimedOut(r) \/ Receive(r)
      PROVE  ClosedInv'
  BY <1>1 DEF Accept, Refuse, Busy, TimedOut, Receive, Answered
<1>2. ASSUME NEW r \in Requests, Enqueue(r) PROVE ClosedInv'
  BY <1>2 DEF Enqueue, Up
<1>3. ASSUME NEW r \in Requests,
             CreateTask(r) \/ Respond(r) \/ \E ok \in BOOLEAN : SendTask(r, ok)
      PROVE  ClosedInv'
  BY <1>3 DEF CreateTask, Respond, SendTask
<1>4. CASE Take \/ ConsumerEnds \/ UNCHANGED vars
  BY <1>4 DEF Take, ConsumerEnds, vars
<1>5. CASE Stop \/ CloseChannel \/ Exit
  BY <1>5 DEF Stop, CloseChannel, Exit
<1>6. QED
  BY <1>1, <1>2, <1>3, <1>4, <1>5 DEF Next

\* Every step keeps the calls in the channel distinct and without a goroutine.
LEMMA QueueStep == TypeInv /\ ClosedInv /\ QueueInv /\ [Next]_vars => QueueInv'
<1> SUFFICES ASSUME TypeInv, ClosedInv, QueueInv, [Next]_vars PROVE QueueInv'
  OBVIOUS
<1> USE DEF TypeInv, QueueInv
<1>1. ASSUME NEW r \in Requests,
             Accept(r) \/ Refuse(r) \/ Busy(r) \/ TimedOut(r) \/ Receive(r)
      PROVE  QueueInv'
  BY <1>1 DEF Accept, Refuse, Busy, TimedOut, Receive, Answered
<1>2. ASSUME NEW r \in Requests, Enqueue(r) PROVE QueueInv'
  <2>1. CASE stage = "closed"
    BY <1>2, <2>1 DEF Enqueue
  <2>2. CASE stage # "closed"
    <3>1. /\ queue' = Append(queue, r) /\ worker' = worker /\ worker[r] = "none"
          /\ handler' = [handler EXCEPT ![r] = "waiting"]
          /\ \A i \in 1..Len(queue) : queue[i] # r
      BY <1>2, <2>2 DEF Enqueue
    <3>2. /\ Len(queue') = Len(queue) + 1 /\ queue'[Len(queue) + 1] = r
          /\ \A i \in 1..Len(queue) : queue'[i] = queue[i]
          /\ Len(queue) \in Nat
      BY <3>1
    <3>3. \A i \in 1..Len(queue') : i \in 1..Len(queue) \/ i = Len(queue) + 1
      BY <3>2
    <3>4. QED
      BY <3>1, <3>2, <3>3
  <2>3. QED
    BY <2>1, <2>2
<1>3. ASSUME NEW r \in Requests,
             CreateTask(r) \/ Respond(r) \/ \E ok \in BOOLEAN : SendTask(r, ok)
      PROVE  QueueInv'
  <2>1. worker[r] # "none" /\ queue' = queue /\ handler' = handler
        /\ \A q \in Requests : q # r => worker'[q] = worker[q]
    BY <1>3 DEF CreateTask, Respond, SendTask
  <2>2. \A i \in 1..Len(queue) : queue[i] \in Requests
    OBVIOUS
  <2>3. QED
    BY <2>1, <2>2
<1>4. CASE Take
  <2>1. /\ queue # <<>> /\ queue' = Tail(queue) /\ handler' = handler
        /\ worker' = [worker EXCEPT ![Head(queue)] = "taken"]
    BY <1>4 DEF Take
  <2>2. /\ Len(queue) \in Nat \ {0} /\ Head(queue) = queue[1] /\ Len(queue') = Len(queue) - 1
        /\ \A i \in 1..Len(queue') : queue'[i] = queue[i + 1] /\ i + 1 \in 1..Len(queue)
        /\ 1 \in 1..Len(queue)
    <3>1. Len(queue) \in Nat \ {0}
      BY <2>1 DEF QueueInv
    <3>2. Len(queue') = Len(queue) - 1
      BY <2>1, <3>1
    <3>3. \A i \in 1..Len(queue') : queue'[i] = queue[i + 1]
      BY <2>1, <3>1, <3>2
    <3>4. QED
      BY <2>1, <3>1, <3>2, <3>3
  <2>3. \A i \in 1..Len(queue) : queue[i] \in Requests
    OBVIOUS
  <2>4. \A i \in 1..Len(queue') : queue'[i] # queue[1] /\ queue'[i] \in Requests
    <3> TAKE i \in 1..Len(queue')
    <3>1. i + 1 # 1 /\ i + 1 \in 1..Len(queue)
      BY <2>2
    <3>2. QED
      BY <2>2, <2>3, <3>1
  <2>5. \A q \in Requests : q # queue[1] => worker'[q] = worker[q]
    BY <2>1, <2>2
  <2>6. \A i \in 1..Len(queue') : worker'[queue'[i]] = "none"
    <3> TAKE i \in 1..Len(queue')
    <3>1. i + 1 \in 1..Len(queue) /\ queue'[i] = queue[i + 1]
      BY <2>2
    <3>2. worker[queue[i + 1]] = "none"
      BY <3>1
    <3>3. worker'[queue'[i]] = worker[queue'[i]]
      BY <2>4, <2>5
    <3>4. QED
      BY <3>1, <3>2, <3>3
  <2>7. \A i, j \in 1..Len(queue') : queue'[i] = queue'[j] => i = j
    <3> TAKE i, j \in 1..Len(queue')
    <3>1. /\ i + 1 \in 1..Len(queue) /\ queue'[i] = queue[i + 1]
          /\ j + 1 \in 1..Len(queue) /\ queue'[j] = queue[j + 1]
      BY <2>2
    <3>2. ASSUME NEW a \in 1..Len(queue), NEW b \in 1..Len(queue), queue[a] = queue[b]
          PROVE  a = b
      BY <3>2
    <3>3. queue'[i] = queue'[j] => i + 1 = j + 1
      BY <3>1, <3>2
    <3>4. i \in Int /\ j \in Int
      OBVIOUS
    <3>5. QED
      BY <3>3, <3>4
  <2>8. \A q \in Requests : handler'[q] \in {"idle", "queueing"} =>
           worker'[q] = "none" /\ \A i \in 1..Len(queue') : queue'[i] # q
    BY <2>1, <2>2, <2>5
  <2>9. QED
    BY <2>6, <2>7, <2>8
<1>5. CASE ConsumerEnds \/ Stop \/ CloseChannel \/ Exit \/ UNCHANGED vars
  BY <1>5 DEF ConsumerEnds, Stop, CloseChannel, Exit, vars
<1>6. QED
  BY <1>1, <1>2, <1>3, <1>4, <1>5 DEF Next

\* Every step leaves the channel of a goroutine that has not responded empty.
LEMMA ResultStep == TypeInv /\ QueueInv /\ ResultInv /\ [Next]_vars => ResultInv'
<1> SUFFICES ASSUME TypeInv, QueueInv, ResultInv, [Next]_vars PROVE ResultInv'
  OBVIOUS
<1> USE DEF TypeInv, ResultInv
<1>1. ASSUME NEW r \in Requests,
             Accept(r) \/ Refuse(r) \/ Busy(r) \/ TimedOut(r) \/ Enqueue(r)
      PROVE  ResultInv'
  BY <1>1 DEF Accept, Refuse, Busy, TimedOut, Enqueue, Answered
<1>2. ASSUME NEW r \in Requests, Receive(r) PROVE ResultInv'
  BY <1>2 DEF Receive
<1>3. ASSUME NEW r \in Requests, CreateTask(r) \/ \E ok \in BOOLEAN : SendTask(r, ok)
      PROVE  ResultInv'
  BY <1>3 DEF CreateTask, SendTask
<1>4. ASSUME NEW r \in Requests, Respond(r) PROVE ResultInv'
  BY <1>4 DEF Respond
<1>5. CASE Take
  <2>1. Head(queue) \in Requests /\ worker[Head(queue)] = "none"
    BY <1>5 DEF Take, QueueInv
  <2>2. QED
    BY <1>5, <2>1 DEF Take
<1>6. CASE ConsumerEnds \/ Stop \/ CloseChannel \/ Exit \/ UNCHANGED vars
  BY <1>6 DEF ConsumerEnds, Stop, CloseChannel, Exit, vars
<1>7. QED
  BY <1>1, <1>2, <1>3, <1>4, <1>5, <1>6 DEF Next

\* The inductive invariant holds in every behaviour of the bridge.
THEOREM AnpInvCorrect == Spec => []IndInv
<1>1. Init => IndInv
  BY DEF Init, IndInv, TypeInv, ClosedInv, QueueInv, ResultInv, Working
<1>2. IndInv /\ [Next]_vars => IndInv'
  BY TypeStep, ClosedStep, QueueStep, ResultStep DEF IndInv
<1>3. QED
  BY <1>1, <1>2, PTL DEF Spec

\* The rest of TypeOK: the bounds of the channels and where a request has its task.
RoomInv ==
    /\ answer \in [Requests -> Ids \cup {"none"}]
    /\ Len(queue) <= QueueCap
    /\ \A r \in Requests : Len(result[r]) <= 1
    /\ tasks \subseteq Requests
    /\ \A r \in Requests : worker[r] \in {"sending", "sent", "failed", "done"} => r \in tasks
    /\ stage \in {"serving", "stopping", "closed", "exited"}

\* Every step keeps the channels within their capacities.
LEMMA RoomStep == IndInv /\ RoomInv /\ [Next]_vars => RoomInv'
<1> SUFFICES ASSUME IndInv, RoomInv, [Next]_vars PROVE RoomInv'
  OBVIOUS
<1> USE DEF IndInv, TypeInv, Working, RoomInv
<1>1. ASSUME NEW r \in Requests, Accept(r) \/ Refuse(r) \/ Busy(r) \/ TimedOut(r) PROVE RoomInv'
  BY <1>1 DEF Accept, Refuse, Busy, TimedOut, Answered, Ids
<1>2. ASSUME NEW r \in Requests, Enqueue(r) PROVE RoomInv'
  <2>1. UNCHANGED <<answer, worker, result, tasks, stage>>
    BY <1>2 DEF Enqueue
  <2>2. Len(queue') <= QueueCap
    <3>1. queue' = queue \/ (queue' = Append(queue, r) /\ Len(queue) < QueueCap)
      BY <1>2 DEF Enqueue
    <3>2. Len(Append(queue, r)) = Len(queue) + 1 /\ Len(queue) \in Nat
      OBVIOUS
    <3> QED
      BY <3>1, <3>2, QueueAssumption
  <2> QED
    BY <2>1, <2>2
<1>3. ASSUME NEW r \in Requests, Receive(r) PROVE RoomInv'
  <2>1. result[r] \in Seq(Ids) /\ result[r] # <<>>
    BY <1>3 DEF Receive
  <2>2. Head(result[r]) \in Ids /\ Tail(result[r]) \in Seq(Ids) /\ Len(Tail(result[r])) <= 1
    BY <2>1
  <2>3. UNCHANGED <<queue, worker, tasks, stage>>
    BY <1>3 DEF Receive
  <2>4. /\ answer' = [answer EXCEPT ![r] = Head(result[r])]
        /\ result' = [result EXCEPT ![r] = Tail(result[r])]
    BY <1>3 DEF Receive, Answered
  <2> QED
    BY <2>2, <2>3, <2>4
<1>4. ASSUME NEW r \in Requests, CreateTask(r) \/ \E ok \in BOOLEAN : SendTask(r, ok)
      PROVE  RoomInv'
  BY <1>4 DEF CreateTask, SendTask
<1>5. ASSUME NEW r \in Requests, Respond(r) PROVE RoomInv'
  <2>1. result[r] = <<>> /\ Len(Append(result[r], "method")) <= 1
    BY <1>5 DEF Respond, ResultInv
  <2> QED
    BY <1>5, <2>1 DEF Respond
<1>6. CASE Take
  <2>1. Head(queue) \in Requests /\ Len(Tail(queue)) <= QueueCap
    BY <1>6, QueueAssumption DEF Take
  <2> QED
    BY <1>6, <2>1 DEF Take
<1>7. CASE ConsumerEnds \/ Stop \/ CloseChannel \/ Exit \/ UNCHANGED vars
  BY <1>7 DEF ConsumerEnds, Stop, CloseChannel, Exit, vars
<1> QED
  BY <1>1, <1>2, <1>3, <1>4, <1>5, <1>6, <1>7 DEF Next

\* anpTaskChan holds a request at most once and no more than it has room for, and only
\* before a goroutine has it (anp/handler.go: serveRPC; main.go: its consumer).
THEOREM AnpTypeCorrect == Spec => []TypeOK
<1>1. Init => RoomInv
  BY QueueAssumption DEF Init, RoomInv
<1>2. ASSUME IndInv, RoomInv PROVE TypeOK
  <2>1. queue \in Seq(Requests) /\ DOMAIN queue = 1..Len(queue)
    BY <1>2 DEF IndInv, TypeInv
  <2>2. /\ \A i \in DOMAIN queue : queue[i] \in Requests /\ worker[queue[i]] = "none"
        /\ \A i, j \in DOMAIN queue : queue[i] = queue[j] => i = j
    BY <1>2, <2>1 DEF IndInv, QueueInv
  <2> QED
    BY <1>2, <2>2 DEF IndInv, TypeInv, Working, RoomInv, TypeOK
<1> QED
  BY <1>1, <1>2, RoomStep, AnpInvCorrect, PTL DEF Spec

\* The steps that an ANP request takes, and those of a call of the tool.
AnpAction(r) ==
    \/ AnpStep(Accept(r)) \/ AnpStep(Refuse(r)) \/ AnpStep(Enqueue(r)) \/ AnpStep(Busy(r))
    \/ AnpStep(Receive(r)) \/ AnpStep(TimedOut(r)) \/ AnpStep(CreateTask(r))
    \/ AnpStep(Respond(r)) \/ \E o \in SendOutcomes : SendAnp(r, o)

HttpAction(c) ==
    \/ \E place \in {"posted", "agent"} : SendByURL(c, place)
    \/ ToolReceives(c) \/ ToolGivesUp(c)
    \/ \E s \in AgentStatuses, i \in {Id("agent", c), NoId} : AgentAnswers(c, s, i)
    \/ AgentRefuses(c) \/ Arrive(c) \/ ReadFails(c) \/ CheckPolicy(c) \/ CreateInbound(c)
    \/ \E o \in SendOutcomes : SendInbound(c, o)
    \/ AnswerInbound(c)

\* The steps of the AckTracker with the message of a request.
TrackerAction(x) == Acknowledge(x) \/ Retry(x) \/ Expire(x) \/ Escalate(x)

\* The daemon with both bridges runs AnpBridge: every step of the HTTP bridge and of the
\* AckTracker is a step that the ANP bridge does not see.
THEOREM AnpBridgeUndisturbed == BridgesSpec => Spec
<1>1. BridgesInit => Init
  BY DEF BridgesInit
<1>2. [BridgesNext]_allVars => [Next]_vars
  <2> SUFFICES ASSUME [BridgesNext]_allVars PROVE [Next]_vars
    OBVIOUS
  <2>1. ASSUME NEW r \in Requests, AnpAction(r) PROVE Next
    <3>1. CASE \E o \in SendOutcomes : SendAnp(r, o)
      <4>1. PICK o \in SendOutcomes : SendTask(r, o = "sent")
        BY <3>1 DEF SendAnp
      <4>2. (o = "sent") \in BOOLEAN
        OBVIOUS
      <4> QED
        BY <4>1, <4>2 DEF Next
    <3> QED
      BY <2>1, <3>1 DEF AnpAction, AnpStep, Next
  <2>2. CASE AnpStep(Take) \/ AnpStep(ConsumerEnds) \/ AnpStep(CloseChannel) \/ StopBridges \/ ExitDaemon
    BY <2>2 DEF AnpStep, StopBridges, ExitDaemon, Next
  <2>3. ASSUME NEW c \in Calls, HttpAction(c) PROVE UNCHANGED vars
    BY <2>3 DEF HttpAction, SendByURL, ToolReceives, ToolGivesUp, AgentAnswers, AgentRefuses, Arrive,
                ReadFails, CheckPolicy, CreateInbound, SendInbound, AnswerInbound
  <2>4. CASE SetPolicy \/ UNCHANGED allVars
    BY <2>4 DEF SetPolicy, allVars
  <2>5. ASSUME NEW x \in Bridged, TrackerAction(x) PROVE UNCHANGED vars
    BY <2>5 DEF TrackerAction, Acknowledge, Retry, Expire, Escalate, Tracked
  <2>6. QED
    BY <2>1, <2>2, <2>3, <2>4, <2>5 DEF BridgesNext, AnpAction, HttpAction, TrackerAction
<1>3. QED
  BY <1>1, <1>2, PTL DEF BridgesSpec, Spec

\* No serveRPC ever sends on the channel that the shutdown of main closes.
THEOREM NoSendOnClosedCorrect == BridgesSpec => []NoSendOnClosed
<1>1. IndInv => NoSendOnClosed
  BY DEF IndInv, ClosedInv, NoSendOnClosed
<1>2. QED
  BY AnpInvCorrect, AnpBridgeUndisturbed, <1>1, PTL

\* The goroutine of a call always finds room in its ResultCh.
THEOREM WorkerNeverBlocksCorrect == BridgesSpec => []WorkerNeverBlocks
<1>1. IndInv => WorkerNeverBlocks
  BY DEF IndInv, ResultInv, WorkerNeverBlocks, ResultCap
<1>2. QED
  BY AnpInvCorrect, AnpBridgeUndisturbed, <1>1, PTL

-----------------------------------------------------------------------------
(* The tasks of both bridges *)

\* Nothing has been done with the message of x; somebody has it, or it cannot be made; it
\* has been sent.
Unplaced(x) == track[x] = "none" /\ x \notin given
Placed(x)   == x \in given \/ track[x] \in {"unmade", "pending", "acked", "expired"}
Sent(x)     == track[x] \notin {"none", "unmade"}

\* A step does not disturb where the message of x is.
Kept(x) ==
    /\ Unplaced(x) => Unplaced(x)'
    /\ Placed(x) => Placed(x)'
    /\ Sent(x) => Sent(x)'

HttpPlaces == {"none", "posted", "arrived", "admitted", "sending", "sent", "failed",
               "answered", "aborted", "agent", "done by agent"}

HttpTypeInv ==
    /\ tool \in [Calls -> {"idle", "waiting", "ok", "error"}]
    /\ http \in [Calls -> HttpPlaces]
    /\ DOMAIN got = Calls /\ DOMAIN reply = Calls /\ DOMAIN envelope = Calls
    /\ tasks \subseteq Requests
    /\ track \in [Bridged -> Tracks] /\ given \subseteq Bridged

\* The message of an ANP call is nowhere until the goroutine sends it, and has a place
\* from then on.
AnpAccount(r) ==
    /\ worker[r] \in {"none", "taken"} => r \notin tasks /\ Unplaced(r)
    /\ worker[r] = "sending" => r \in tasks /\ Unplaced(r)
    /\ worker[r] \in {"sent", "failed", "done"} => r \in tasks /\ Placed(r)

\* So is the message of a call of the HTTP bridge; and a call that was answered without a
\* task has left nothing.
HttpAccount(c) ==
    /\ http[c] \in {"none", "posted", "arrived", "admitted", "aborted", "agent", "done by agent"} =>
          envelope[c] = NoMessage /\ Unplaced(c)
    /\ http[c] = "sending" => envelope[c] = Message[c] /\ Unplaced(c)
    /\ http[c] = "sent" => envelope[c] = Message[c] /\ Sent(c) /\ Placed(c)
    /\ http[c] = "failed" => envelope[c] = Message[c] /\ Placed(c)
    /\ http[c] = "answered" => \/ envelope[c] = NoMessage /\ Unplaced(c)
                               \/ envelope[c] = Message[c] /\ Placed(c)

\* The response that the bridge sends for a call whose message went out, and the one of
\* another agent.
BridgeReply(c)   == Result(Id("engine", c), "submitted", ProtoMessageToHTTP(Message[c]))
AgentReply(s, i) == Result(i, s, AgentMessage)

\* A response is an error or tells what was done; what the tool returned is the response,
\* converted.
ReplyInv(c) ==
    /\ tool[c] = "idle" => http[c] = "none"
    /\ http[c] \notin {"answered", "done by agent"} => reply[c] = NoReply
    /\ http[c] = "answered" =>
          reply[c] = Error \/ (reply[c] = BridgeReply(c) /\ envelope[c] = Message[c] /\ Sent(c))
    /\ http[c] = "done by agent" =>
          \/ reply[c] = Error
          \/ \E s \in AgentStatuses, i \in {Id("agent", c), NoId} : reply[c] = AgentReply(s, i)
    /\ tool[c] = "ok" =>
          reply[c] # NoReply /\ reply[c] # Error /\ got[c] = httpTaskResultToProto(c, reply[c])

BridgesInv ==
    /\ HttpTypeInv
    /\ \A r \in Requests : AnpAccount(r)
    /\ \A c \in Calls : HttpAccount(c) /\ ReplyInv(c)

\* A part of a known kind, wherever it is in a message, goes through either conversion as
\* it is.
LEMMA KnownParts ==
    ASSUME NEW q \in Seq([type : {"text", "url"}, body : STRING])
    PROVE  /\ [i \in DOMAIN q |-> protoPartToHTTP(q[i])] = q
           /\ [i \in DOMAIN q |-> httpPartToProto(q[i])] = q
<1> DEFINE P == [type : {"text", "url"}, body : STRING]
<1>1. \A e \in P : e.type \in {"text", "url"} /\ e = [type |-> e.type, body |-> e.body]
  OBVIOUS
<1>2. \A e \in P : protoPartToHTTP(e) = e
  BY <1>1 DEF protoPartToHTTP
<1>3. \A e \in P : httpPartToProto(e) = e
  <2>1. ASSUME NEW e \in P, e.type = "text" PROVE httpPartToProto(e) = e
    BY <2>1, <1>1 DEF httpPartToProto
  <2>2. ASSUME NEW e \in P, e.type = "url" PROVE httpPartToProto(e) = e
    BY <2>2 DEF httpPartToProto
  <2>3. QED
    BY <1>1, <2>1, <2>2
<1>4. q \in Seq(P)
  OBVIOUS
<1> HIDE DEF P
<1>5. q = [i \in DOMAIN q |-> q[i]] /\ \A i \in DOMAIN q : q[i] \in P
  BY <1>4
<1>6. [i \in DOMAIN q |-> protoPartToHTTP(q[i])] = q
  BY <1>2, <1>5
<1>7. [i \in DOMAIN q |-> httpPartToProto(q[i])] = q
  BY <1>3, <1>5
<1>8. QED
  BY <1>6, <1>7

\* The tool's message survives the two conversions, and so does an agent's.
LEMMA MessageRoundTrip ==
    /\ \A c \in Calls : HTTPMessageToProto(ProtoMessageToHTTP(Message[c])) = Message[c]
    /\ ProtoMessageToHTTP(HTTPMessageToProto(AgentMessage)) = AgentMessage
<1>1. ASSUME NEW c \in Calls PROVE HTTPMessageToProto(ProtoMessageToHTTP(Message[c])) = Message[c]
  <2> DEFINE m == Message[c]
  <2>1. m \in [role : {"USER", "AGENT"}, parts : Seq([type : {"text", "url"}, body : STRING])]
    BY MessageAssumption
  <2> HIDE DEF m
  <2>2. m.parts \in Seq([type : {"text", "url"}, body : STRING])
    BY <2>1
  <2>3. [i \in DOMAIN m.parts |-> protoPartToHTTP(m.parts[i])] = m.parts
    BY <2>2, KnownParts
  <2>4. [i \in DOMAIN m.parts |-> httpPartToProto(m.parts[i])] = m.parts
    BY <2>2, KnownParts
  <2>5. ProtoMessageToHTTP(m) = [role |-> IF m.role = "AGENT" THEN "agent" ELSE "user", parts |-> m.parts]
    BY <2>3 DEF ProtoMessageToHTTP
  <2>6. HTTPMessageToProto(ProtoMessageToHTTP(m)) = [role |-> m.role, parts |-> m.parts]
    BY <2>1, <2>4, <2>5 DEF HTTPMessageToProto
  <2>7. QED
    BY <2>1, <2>6 DEF m
<1>2. ProtoMessageToHTTP(HTTPMessageToProto(AgentMessage)) = AgentMessage
  <2> DEFINE m == AgentMessage
  <2>1. m \in [role : {"user", "agent"}, parts : Seq([type : {"text", "url"}, body : STRING])]
    BY MessageAssumption
  <2> HIDE DEF m
  <2>2. m.parts \in Seq([type : {"text", "url"}, body : STRING])
    BY <2>1
  <2>3. [i \in DOMAIN m.parts |-> protoPartToHTTP(m.parts[i])] = m.parts
    BY <2>2, KnownParts
  <2>4. [i \in DOMAIN m.parts |-> httpPartToProto(m.parts[i])] = m.parts
    BY <2>2, KnownParts
  <2>5. HTTPMessageToProto(m) = [role |-> IF m.role = "agent" THEN "AGENT" ELSE "USER", parts |-> m.parts]
    BY <2>4 DEF HTTPMessageToProto
  <2>6. ProtoMessageToHTTP(HTTPMessageToProto(m)) = [role |-> m.role, parts |-> m.parts]
    BY <2>1, <2>3, <2>5 DEF ProtoMessageToHTTP
  <2>7. QED
    BY <2>1, <2>6 DEF m
<1>3. QED
  BY <1>1, <1>2

\* A status that an agent gives is kept if the protocol knows it.
LEMMA StatusRoundTrip ==
    ASSUME NEW s
    PROVE  protoStatusToHTTP(HTTPStatusToProto(s)) =
               IF s \in {protoStatusToHTTP(t) : t \in Statuses} THEN s ELSE "unknown"
<1>1. {protoStatusToHTTP(t) : t \in Statuses} =
          {"submitted", "working", "input-required", "completed", "failed", "canceled", "rejected"}
  BY DEF Statuses, protoStatusToHTTP
<1>2. CASE s \in {"submitted", "working", "input-required", "completed", "failed", "canceled", "rejected"}
  BY <1>1, <1>2 DEF HTTPStatusToProto, protoStatusToHTTP
<1>3. CASE s \notin {"submitted", "working", "input-required", "completed", "failed", "canceled", "rejected"}
  BY <1>1, <1>3 DEF HTTPStatusToProto, protoStatusToHTTP, Unspecified
<1>4. QED
  BY <1>2, <1>3

\* The kinds of responses are told apart.
LEMMA Kinds ==
    /\ NoReply # Error
    /\ \A c \in Calls : BridgeReply(c) # Error /\ BridgeReply(c) # NoReply
    /\ \A s, i : AgentReply(s, i) # Error /\ AgentReply(s, i) # NoReply
    /\ \A c \in Calls : Message[c] # NoMessage
<1>1. NoReply.kind = "none" /\ Error.kind = "error"
  BY DEF NoReply, Error
<1>2. \A c \in Calls : BridgeReply(c).kind = "result"
  BY DEF BridgeReply, Result
<1>3. \A s, i : AgentReply(s, i).kind = "result"
  BY DEF AgentReply, Result
<1>4. \A c \in Calls : Message[c].role # "none"
  BY MessageAssumption
<1>5. NoMessage.role = "none"
  BY DEF NoMessage
<1>6. QED
  BY <1>1, <1>2, <1>3, <1>4, <1>5

\* A step that does not touch the message of x.
LEMMA Untouched ==
    ASSUME NEW x, track'[x] = track[x], x \in given' <=> x \in given
    PROVE  Kept(x)
  BY DEF Kept, Unplaced, Placed, Sent

\* The AckTracker keeps a message it has, or gives it to the offline queue.
LEMMA TrackerKeeps ==
    ASSUME HttpTypeInv, NEW x \in Bridged, TrackerAction(x)
    PROVE  /\ \A y \in Bridged : Kept(y)
           /\ UNCHANGED <<vars, tool, got, http, reply, policy, envelope>>
           /\ HttpTypeInv'
<1>1. UNCHANGED <<vars, tool, got, http, reply, policy, envelope>>
  BY DEF TrackerAction, Acknowledge, Retry, Expire, Escalate, Tracked
<1>2. /\ track \in [Bridged -> Tracks] /\ given \subseteq Bridged
      /\ \/ track[x] \in {"pending", "acked"} /\ given' = given \cup {x} /\ track' = track
         \/ track[x] = "pending" /\ given' = given
            /\ \E t \in {"acked", "expired"} : track' = [track EXCEPT ![x] = t]
         \/ track[x] = "expired" /\ given' = given \cup {x}
            /\ track' = [track EXCEPT ![x] = "escalated"]
  BY DEF TrackerAction, Acknowledge, Retry, Expire, Escalate, HttpTypeInv
<1>3. \A y \in Bridged : Kept(y)
  <2> TAKE y \in Bridged
  <2>1. CASE y = x
    BY <1>2, <2>1 DEF Kept, Unplaced, Placed, Sent
  <2>2. CASE y # x
    BY <1>2, <2>2, Untouched
  <2> QED
    BY <2>1, <2>2
<1>4. HttpTypeInv'
  BY <1>1, <1>2 DEF HttpTypeInv, Tracks, vars
<1> QED
  BY <1>1, <1>3, <1>4

\* A step that leaves a call alone keeps what holds of it.
LEMMA SameCall ==
    ASSUME NEW d \in Calls, HttpAccount(d), ReplyInv(d), Kept(d),
           tool'[d] = tool[d], http'[d] = http[d], got'[d] = got[d], reply'[d] = reply[d],
           envelope'[d] = envelope[d]
    PROVE  HttpAccount(d)' /\ ReplyInv(d)'
<1>1. HttpAccount(d)'
  BY DEF HttpAccount, Kept
<1>2. ReplyInv(d)'
  BY DEF ReplyInv, Kept
<1>3. QED
  BY <1>1, <1>2

\* A step of a call leaves the other calls and the ANP requests alone.
LEMMA OtherCalls ==
    ASSUME HttpTypeInv, NEW c \in Calls, HttpAction(c)
    PROVE  /\ tasks' = tasks /\ worker' = worker
           /\ \A x \in Bridged : x # c => track'[x] = track[x] /\ (x \in given' <=> x \in given)
           /\ \A d \in Calls : d # c =>
                 /\ tool'[d] = tool[d] /\ http'[d] = http[d] /\ got'[d] = got[d]
                 /\ reply'[d] = reply[d] /\ envelope'[d] = envelope[d]
<1> USE DEF HttpTypeInv, MovesTo, AnswersError, vars
<1>1. CASE (\E place \in {"posted", "agent"} : SendByURL(c, place)) \/ ToolReceives(c) \/ ToolGivesUp(c)
  BY <1>1 DEF SendByURL, ToolReceives, ToolGivesUp
<1>2. CASE (\E s \in AgentStatuses, i \in {Id("agent", c), NoId} : AgentAnswers(c, s, i)) \/ AgentRefuses(c)
  BY <1>2 DEF AgentAnswers, AgentRefuses
<1>3. CASE Arrive(c) \/ ReadFails(c) \/ CheckPolicy(c)
  BY <1>3 DEF Arrive, ReadFails, CheckPolicy
<1>4. CASE CreateInbound(c) \/ AnswerInbound(c)
  BY <1>4 DEF CreateInbound, AnswerInbound
<1>5. CASE \E o \in SendOutcomes : SendInbound(c, o)
  BY <1>5 DEF SendInbound, SendAndTrack
<1>6. QED
  BY <1>1, <1>2, <1>3, <1>4, <1>5, HttpAction(c) DEF HttpAction

\* The types of the HTTP bridge.
LEMMA HttpTypeStep == HttpTypeInv /\ [BridgesNext]_allVars => HttpTypeInv'
<1> SUFFICES ASSUME HttpTypeInv, [BridgesNext]_allVars PROVE HttpTypeInv'
  OBVIOUS
<1> USE DEF HttpTypeInv
<1>1. ASSUME NEW c \in Calls, HttpAction(c) PROVE HttpTypeInv'
  <2> USE DEF MovesTo, AnswersError, vars, HttpPlaces
  <2>1. CASE (\E place \in {"posted", "agent"} : SendByURL(c, place)) \/ ToolReceives(c) \/ ToolGivesUp(c)
    <3>1. CASE \E place \in {"posted", "agent"} : SendByURL(c, place)
      <4>1. PICK place \in {"posted", "agent"} : SendByURL(c, place)
        BY <3>1
      <4>2. tool' \in [Calls -> {"idle", "waiting", "ok", "error"}]
        BY <4>1 DEF SendByURL
      <4>3. http' \in [Calls -> HttpPlaces]
        BY <4>1 DEF SendByURL
      <4>4. QED
        BY <4>1, <4>2, <4>3 DEF SendByURL
    <3>2. CASE ToolReceives(c)
      BY <3>2 DEF ToolReceives
    <3>3. CASE ToolGivesUp(c)
      BY <3>3 DEF ToolGivesUp
    <3>4. QED
      BY <2>1, <3>1, <3>2, <3>3
  <2>2. CASE (\E s \in AgentStatuses, i \in {Id("agent", c), NoId} : AgentAnswers(c, s, i)) \/ AgentRefuses(c)
    BY <2>2 DEF AgentAnswers, AgentRefuses
  <2>3. CASE Arrive(c) \/ ReadFails(c) \/ CheckPolicy(c)
    BY <2>3 DEF Arrive, ReadFails, CheckPolicy
  <2>4. CASE CreateInbound(c) \/ AnswerInbound(c)
    BY <2>4 DEF CreateInbound, AnswerInbound
  <2>5. CASE \E o \in SendOutcomes : SendInbound(c, o)
    <3>1. c \in Bridged
      BY DEF Bridged
    <3>2. PICK o \in SendOutcomes : SendInbound(c, o)
      BY <2>5
    <3>3. track' \in [Bridged -> Tracks] /\ given' \subseteq Bridged
      BY <3>1, <3>2 DEF SendInbound, SendAndTrack, Tracks
    <3>4. http' \in [Calls -> HttpPlaces]
      BY <3>2 DEF SendInbound
    <3>5. QED
      BY <3>2, <3>3, <3>4 DEF SendInbound
  <2>6. QED
    BY <1>1, <2>1, <2>2, <2>3, <2>4, <2>5 DEF HttpAction
<1>2. ASSUME NEW r \in Requests, AnpAction(r) PROVE HttpTypeInv'
  <2>1. CASE \E o \in SendOutcomes : SendAnp(r, o)
    <3>1. r \in Bridged
      BY DEF Bridged
    <3>2. PICK o \in SendOutcomes : SendAnp(r, o)
      BY <2>1
    <3>3. track' \in [Bridged -> Tracks] /\ given' \subseteq Bridged
      BY <3>1, <3>2 DEF SendAnp, SendAndTrack, Tracks
    <3>4. QED
      BY <3>2, <3>3 DEF SendAnp, SendTask
  <2>2. CASE AnpStep(CreateTask(r))
    BY <2>2 DEF AnpStep, CreateTask, httpVars
  <2>3. CASE \/ AnpStep(Accept(r)) \/ AnpStep(Refuse(r)) \/ AnpStep(Enqueue(r)) \/ AnpStep(Busy(r))
             \/ AnpStep(Receive(r)) \/ AnpStep(TimedOut(r)) \/ AnpStep(Respond(r))
    BY <2>3 DEF AnpStep, Accept, Refuse, Enqueue, Busy, Receive, TimedOut, Respond, httpVars
  <2>4. QED
    BY <1>2, <2>1, <2>2, <2>3 DEF AnpAction
<1>3. CASE AnpStep(Take) \/ AnpStep(ConsumerEnds) \/ AnpStep(CloseChannel) \/ StopBridges \/ ExitDaemon
  BY <1>3 DEF AnpStep, Take, ConsumerEnds, CloseChannel, StopBridges, Stop, ExitDaemon, Exit, httpVars
<1>4. CASE SetPolicy \/ UNCHANGED allVars
  BY <1>4 DEF SetPolicy, allVars, vars, httpVars
<1>5. ASSUME NEW x \in Bridged, TrackerAction(x) PROVE HttpTypeInv'
  BY <1>5, TrackerKeeps
<1>6. QED
  BY <1>1, <1>2, <1>3, <1>4, <1>5 DEF BridgesNext, AnpAction, HttpAction, TrackerAction

\* A step of a call, as seen by the call.
LEMMA OwnCall ==
    ASSUME HttpTypeInv, NEW c \in Calls, HttpAccount(c), ReplyInv(c), HttpAction(c)
    PROVE  HttpAccount(c)' /\ ReplyInv(c)'
<1>0. HttpTypeInv'
  BY HttpTypeStep DEF BridgesNext, HttpAction
<1>a. c \in Bridged
  BY DEF Bridged
<1>1. CASE \E place \in {"posted", "agent"} : SendByURL(c, place)
  <2>1. /\ tool'[c] = "waiting" /\ http'[c] \in {"posted", "agent"} /\ http[c] = "none"
        /\ got' = got /\ reply' = reply /\ envelope' = envelope
        /\ track' = track /\ given' = given
    BY <1>1 DEF SendByURL, MovesTo, HttpTypeInv, ReplyInv
  <2>2. QED
    BY <1>a, <2>1 DEF HttpAccount, ReplyInv, Unplaced, Placed, Sent
<1>2. CASE ToolReceives(c)
  <2>1. /\ http' = http /\ reply' = reply /\ envelope' = envelope
        /\ track' = track /\ given' = given
        /\ reply[c] # NoReply
        /\ \/ tool'[c] = "error"
           \/ tool'[c] = "ok" /\ reply[c] # Error /\ got'[c] = httpTaskResultToProto(c, reply[c])
    BY <1>2 DEF ToolReceives, HttpTypeInv
  <2>2. HttpAccount(c)'
    BY <1>a, <2>1 DEF HttpAccount, Unplaced, Placed, Sent
  <2>3. ReplyInv(c)'
    BY <2>1 DEF ReplyInv, Sent, BridgeReply, AgentReply
  <2>4. QED
    BY <2>2, <2>3
<1>3. CASE ToolGivesUp(c)
  <2>1. /\ http' = http /\ reply' = reply /\ envelope' = envelope /\ tool'[c] = "error"
        /\ track' = track /\ given' = given
    BY <1>3 DEF ToolGivesUp, HttpTypeInv
  <2>2. QED
    BY <1>a, <2>1 DEF HttpAccount, ReplyInv, Unplaced, Placed, Sent
<1>4. CASE (\E s \in AgentStatuses, i \in {Id("agent", c), NoId} : AgentAnswers(c, s, i)) \/ AgentRefuses(c)
  <2>1. /\ http[c] = "agent" /\ http'[c] = "done by agent" /\ tool' = tool /\ got' = got
        /\ envelope' = envelope /\ track' = track /\ given' = given
        /\ \/ reply'[c] = Error
           \/ \E s \in AgentStatuses, i \in {Id("agent", c), NoId} : reply'[c] = AgentReply(s, i)
    BY <1>4 DEF AgentAnswers, AgentRefuses, MovesTo, HttpTypeInv, AgentReply
  <2>2. HttpAccount(c)'
    BY <1>a, <2>1 DEF HttpAccount, Unplaced, Placed, Sent
  <2>3. tool[c] # "ok" /\ tool[c] # "idle"
    BY <2>1 DEF ReplyInv
  <2>4. ReplyInv(c)'
    BY <2>1, <2>3 DEF ReplyInv
  <2>5. QED
    BY <2>2, <2>4
<1>5. CASE Arrive(c) \/ ReadFails(c) \/ CheckPolicy(c)
  <2>1. /\ http[c] \in {"posted", "arrived"} /\ tool' = tool /\ got' = got
        /\ envelope' = envelope /\ track' = track /\ given' = given
        /\ \/ http'[c] \in {"arrived", "admitted", "aborted"} /\ reply' = reply
           \/ http'[c] = "answered" /\ reply'[c] = Error
    BY <1>5 DEF Arrive, ReadFails, CheckPolicy, At, MovesTo, AnswersError, HttpTypeInv
  <2>2. tool[c] # "ok" /\ tool[c] # "idle" /\ reply[c] = NoReply
    BY <2>1 DEF ReplyInv
  <2>3. HttpAccount(c)'
    BY <1>a, <2>1 DEF HttpAccount, Unplaced, Placed, Sent
  <2>4. ReplyInv(c)'
    BY <2>1, <2>2 DEF ReplyInv
  <2>5. QED
    BY <2>3, <2>4
<1>6. CASE CreateInbound(c)
  <2>1. /\ http[c] = "admitted" /\ http'[c] = "sending" /\ tool' = tool /\ got' = got /\ reply' = reply
        /\ envelope'[c] = Message[c] /\ track' = track /\ given' = given
    BY <1>6, MessageRoundTrip DEF CreateInbound, At, MovesTo, HttpTypeInv
  <2>2. tool[c] # "ok" /\ tool[c] # "idle" /\ reply[c] = NoReply
    BY <2>1 DEF ReplyInv
  <2>3. HttpAccount(c)'
    BY <1>a, <2>1 DEF HttpAccount, Unplaced, Placed, Sent
  <2>4. ReplyInv(c)'
    BY <2>1, <2>2 DEF ReplyInv
  <2>5. QED
    BY <2>3, <2>4
<1>7. ASSUME NEW o \in SendOutcomes, SendInbound(c, o)
      PROVE  HttpAccount(c)' /\ ReplyInv(c)'
  <2>1. /\ http[c] = "sending" /\ http'[c] = (IF o = "sent" THEN "sent" ELSE "failed")
        /\ tool' = tool /\ got' = got /\ reply' = reply /\ envelope' = envelope
    BY <1>7 DEF SendInbound, At, MovesTo, HttpTypeInv
  <2>2. tool[c] # "ok" /\ tool[c] # "idle" /\ reply[c] = NoReply
    BY <2>1 DEF ReplyInv
  <2>3. envelope[c] = Message[c]
    BY <2>1 DEF HttpAccount
  <2>4. Placed(c)' /\ (o = "sent" => Sent(c)')
    BY <1>7, <1>a DEF SendInbound, SendAndTrack, SendOutcomes, HttpTypeInv, Placed, Sent
  <2>5. HttpAccount(c)'
    BY <2>1, <2>3, <2>4 DEF HttpAccount
  <2>6. ReplyInv(c)'
    BY <2>1, <2>2 DEF ReplyInv
  <2>7. QED
    BY <2>5, <2>6
<1>8. CASE AnswerInbound(c)
  <2>1. /\ http[c] \in {"sent", "failed"} /\ http'[c] = "answered" /\ tool' = tool /\ got' = got
        /\ envelope' = envelope /\ track' = track /\ given' = given
    BY <1>8 DEF AnswerInbound, AnswersError, At, MovesTo, HttpTypeInv
  <2>2. \/ reply'[c] = Error
        \/ http[c] = "sent" /\ reply'[c] = Result(Id("engine", c), "submitted", ProtoMessageToHTTP(envelope[c]))
    BY <1>8 DEF AnswerInbound, AnswersError, At, HttpTypeInv, protoStatusToHTTP
  <2>3. envelope[c] = Message[c] /\ (http[c] = "sent" => Sent(c)) /\ Placed(c)
    BY <2>1 DEF HttpAccount
  <2>4. HttpAccount(c)'
    BY <1>a, <2>1, <2>3 DEF HttpAccount, Placed
  <2>5. tool[c] # "ok" /\ tool[c] # "idle"
    BY <2>1 DEF ReplyInv
  <2>6. ReplyInv(c)'
    BY <2>1, <2>2, <2>3, <2>5 DEF ReplyInv, BridgeReply, Sent
  <2>7. QED
    BY <2>4, <2>6
<1>9. QED
  BY <1>1, <1>2, <1>3, <1>4, <1>5, <1>6, <1>7, <1>8 DEF HttpAction

\* A step that leaves an ANP request alone.
LEMMA SameRequest ==
    ASSUME NEW r \in Requests, AnpAccount(r), worker'[r] = worker[r], r \in tasks' <=> r \in tasks, Kept(r)
    PROVE  AnpAccount(r)'
  BY DEF AnpAccount, Kept

\* Every step keeps the account of both bridges.
LEMMA BridgesInvStep == IndInv /\ BridgesInv /\ [BridgesNext]_allVars => BridgesInv'
<1> SUFFICES ASSUME IndInv, BridgesInv, [BridgesNext]_allVars PROVE BridgesInv'
  OBVIOUS
<1>0. HttpTypeInv /\ HttpTypeInv'
  BY HttpTypeStep DEF BridgesInv
<1>a. /\ \A c \in Calls, r \in Requests : c # r
      /\ Calls \subseteq Bridged /\ Requests \subseteq Bridged
  BY MessageAssumption DEF Bridged
<1>1. ASSUME NEW c \in Calls, HttpAction(c) PROVE BridgesInv'
  <2>0. \A x \in Bridged : x # c => Kept(x)
    BY <1>0, <1>1, OtherCalls, Untouched
  <2>1. \A d \in Calls : HttpAccount(d)' /\ ReplyInv(d)'
    <3> TAKE d \in Calls
    <3>0. HttpAccount(d) /\ ReplyInv(d)
      BY DEF BridgesInv
    <3>1. CASE d = c
      BY <1>0, <1>1, <3>0, <3>1, OwnCall
    <3>2. CASE d # c
      BY <1>0, <1>1, <1>a, <2>0, <3>0, <3>2, OtherCalls, SameCall
    <3>3. QED
      BY <3>1, <3>2
  <2>2. \A r \in Requests : AnpAccount(r)'
    BY <1>0, <1>1, <1>a, <2>0, OtherCalls, SameRequest DEF BridgesInv
  <2>3. QED
    BY <1>0, <2>1, <2>2 DEF BridgesInv
<1>2. ASSUME UNCHANGED <<tool, got, http, reply, envelope>>, \A c \in Calls : Kept(c),
             \A r \in Requests : AnpAccount(r)'
      PROVE  BridgesInv'
  BY <1>0, <1>2, SameCall DEF BridgesInv
<1>3. ASSUME UNCHANGED <<tool, got, http, reply, envelope, track, given>>, tasks' = tasks, worker' = worker
      PROVE  BridgesInv'
  <2>1. \A x : Kept(x)
    BY <1>3, Untouched
  <2> QED
    BY <1>2, <1>3, <2>1, SameRequest DEF BridgesInv
<1>4. ASSUME NEW r \in Requests, AnpAction(r) PROVE BridgesInv'
  <2>0. TypeInv /\ AnpAccount(r) /\ r \in Bridged
    BY <1>a DEF IndInv, BridgesInv
  <2>1. CASE \E o \in SendOutcomes : SendAnp(r, o)
    <3>1. PICK o \in SendOutcomes : SendAnp(r, o)
      BY <2>1
    <3>2. /\ worker[r] = "sending" /\ worker'[r] \in {"sent", "failed"} /\ tasks' = tasks
          /\ \A q \in Requests : q # r => worker'[q] = worker[q]
          /\ UNCHANGED <<tool, got, http, reply, policy, envelope>>
      BY <2>0, <3>1 DEF SendAnp, SendTask, TypeInv
    <3>3. \A x \in Bridged : x # r => track'[x] = track[x] /\ (x \in given' <=> x \in given)
      BY <1>0, <3>1 DEF SendAnp, SendAndTrack, HttpTypeInv
    <3>4. Placed(r)'
      BY <1>0, <2>0, <3>1 DEF SendAnp, SendAndTrack, SendOutcomes, HttpTypeInv, Placed
    <3>5. AnpAccount(r)'
      BY <2>0, <3>2, <3>4 DEF AnpAccount
    <3>6. \A x \in Bridged : x # r => Kept(x)
      BY <3>3, Untouched
    <3>7. \A q \in Requests : AnpAccount(q)'
      BY <1>a, <3>2, <3>5, <3>6, SameRequest DEF BridgesInv
    <3>8. QED
      BY <1>2, <1>a, <3>2, <3>6, <3>7
  <2>2. CASE AnpStep(CreateTask(r)) \/ AnpStep(Respond(r))
    <3>1. /\ UNCHANGED httpVars /\ \A q \in Requests : q # r => worker'[q] = worker[q]
          /\ \/ worker[r] = "taken" /\ worker'[r] = "sending" /\ tasks' = tasks \cup {r}
             \/ worker[r] \in {"sent", "failed"} /\ worker'[r] = "done" /\ tasks' = tasks
      BY <2>0, <2>2 DEF AnpStep, CreateTask, Respond, TypeInv
    <3>2. \A x : Kept(x)
      BY <3>1, Untouched DEF httpVars
    <3>3. AnpAccount(r)'
      BY <2>0, <3>1, <3>2 DEF AnpAccount, Kept
    <3>4. \A q \in Requests : AnpAccount(q)'
      BY <3>1, <3>2, <3>3, SameRequest DEF BridgesInv
    <3>5. QED
      BY <1>2, <3>1, <3>2, <3>4 DEF httpVars
  <2>3. CASE \/ AnpStep(Accept(r)) \/ AnpStep(Refuse(r)) \/ AnpStep(Enqueue(r)) \/ AnpStep(Busy(r))
             \/ AnpStep(Receive(r)) \/ AnpStep(TimedOut(r))
    BY <1>3, <2>3 DEF AnpStep, Accept, Refuse, Enqueue, Busy, Receive, TimedOut, httpVars
  <2>4. QED
    BY <1>4, <2>1, <2>2, <2>3 DEF AnpAction
<1>5. CASE AnpStep(Take)
  <2>1. queue # <<>> /\ queue \in Seq(Requests)
    BY <1>5 DEF AnpStep, Take, IndInv, TypeInv
  <2>2. Head(queue) \in Requests /\ Head(queue) = queue[1] /\ 1 \in 1..Len(queue)
    BY <2>1
  <2>3. PICK h \in Requests : h = Head(queue)
    BY <2>2
  <2>4. worker[h] = "none"
    BY <2>2, <2>3 DEF IndInv, QueueInv
  <2>5. /\ worker'[h] = "taken" /\ tasks' = tasks /\ UNCHANGED httpVars
        /\ \A q \in Requests : q # h => worker'[q] = worker[q]
    BY <1>5, <2>3 DEF AnpStep, Take, IndInv, TypeInv
  <2>6. \A x : Kept(x)
    BY <2>5, Untouched DEF httpVars
  <2>7. AnpAccount(h)'
    BY <2>4, <2>5, <2>6 DEF AnpAccount, Kept, BridgesInv
  <2>8. \A q \in Requests : AnpAccount(q)'
    BY <2>5, <2>6, <2>7, SameRequest DEF BridgesInv
  <2>9. QED
    BY <1>2, <2>5, <2>6, <2>8 DEF httpVars
<1>6. CASE AnpStep(ConsumerEnds) \/ AnpStep(CloseChannel) \/ StopBridges \/ ExitDaemon
  BY <1>3, <1>6 DEF AnpStep, ConsumerEnds, CloseChannel, StopBridges, Stop, ExitDaemon, Exit, httpVars
<1>7. CASE SetPolicy \/ UNCHANGED allVars
  BY <1>3, <1>7 DEF SetPolicy, allVars, vars, httpVars
<1>8. ASSUME NEW x \in Bridged, TrackerAction(x) PROVE BridgesInv'
  <2>1. (\A y \in Bridged : Kept(y)) /\ UNCHANGED <<vars, tool, got, http, reply, envelope>>
    BY <1>0, <1>8, TrackerKeeps
  <2>2. \A r \in Requests : AnpAccount(r)'
    BY <1>a, <2>1, SameRequest DEF BridgesInv, vars
  <2>3. QED
    BY <1>2, <1>a, <2>1, <2>2
<1>9. QED
  BY <1>1, <1>4, <1>5, <1>6, <1>7, <1>8 DEF BridgesNext, AnpAction, HttpAction, TrackerAction

\* Both invariants hold in every behaviour of the daemon.
THEOREM BridgesInvCorrect == BridgesSpec => [](IndInv /\ BridgesInv)
<1>1. BridgesInit => BridgesInv
  BY Kinds DEF BridgesInit, Init, BridgesInv, HttpTypeInv, HttpPlaces, AnpAccount, HttpAccount, ReplyInv,
               Unplaced, Placed, Sent, Bridged, Tracks
<1>2. QED
  BY <1>1, BridgesInvStep, AnpInvCorrect, AnpBridgeUndisturbed, PTL DEF BridgesSpec

\* The variables of both bridges keep their types (handler_inbound.go, main.go).
THEOREM BridgesTypeCorrect == BridgesSpec => [](TypeOK /\ BridgesTypeOK)
<1> DEFINE PolicyType == policy \in {"nil", "torn", "set"}
<1>1. BridgesInit => PolicyType
  BY DEF BridgesInit
<1>2. PolicyType /\ [BridgesNext]_allVars => PolicyType'
  <2> SUFFICES ASSUME PolicyType, [BridgesNext]_allVars PROVE PolicyType'
    OBVIOUS
  <2>1. ASSUME NEW r \in Requests, AnpAction(r) PROVE PolicyType'
    BY <2>1 DEF AnpAction, AnpStep, SendAnp, httpVars
  <2>2. CASE AnpStep(Take) \/ AnpStep(ConsumerEnds) \/ AnpStep(CloseChannel) \/ StopBridges \/ ExitDaemon
    BY <2>2 DEF AnpStep, StopBridges, ExitDaemon, httpVars
  <2>3. ASSUME NEW c \in Calls, HttpAction(c) PROVE PolicyType'
    BY <2>3 DEF HttpAction, SendByURL, ToolReceives, ToolGivesUp, AgentAnswers, AgentRefuses, Arrive,
                ReadFails, CheckPolicy, CreateInbound, SendInbound, AnswerInbound
  <2>4. CASE SetPolicy \/ UNCHANGED allVars
    BY <2>4 DEF SetPolicy, allVars, httpVars
  <2>5. ASSUME NEW x \in Bridged, TrackerAction(x) PROVE PolicyType'
    BY <2>5 DEF TrackerAction, Acknowledge, Retry, Expire, Escalate, Tracked
  <2> QED
    BY <2>1, <2>2, <2>3, <2>4, <2>5 DEF BridgesNext, AnpAction, HttpAction, TrackerAction
<1>3. IndInv /\ BridgesInv /\ PolicyType => BridgesTypeOK
  BY DEF BridgesInv, HttpTypeInv, HttpPlaces, BridgesTypeOK
<1> QED
  BY <1>1, <1>2, <1>3, BridgesInvCorrect, AnpTypeCorrect, AnpBridgeUndisturbed, PTL DEF BridgesSpec

\* The message of a task that is over, at either bridge, is in the hands of the AckTracker or
\* acknowledged, or was given to the offline queue, or could not be made and its caller was
\* told; retries, the ACK and the callback never let it fall between them, and what has no
\* task has left no message (router.go:446-458, main.go:220-235, ack_tracker.go:148-209).
THEOREM BridgedTaskAccountedCorrect == BridgesSpec => []BridgedTaskAccounted
<1>1. ASSUME IndInv, BridgesInv PROVE BridgedTaskAccounted
  <2> DEFINE made == tasks \cup {c \in Calls : envelope[c] # NoMessage}
             over == {r \in Requests : worker[r] = "done"} \cup {c \in Calls : http[c] \in {"answered", "aborted"}}
  <2>1. /\ \A c \in Calls, r \in Requests : c # r
        /\ tasks \subseteq Requests
    BY <1>1, MessageAssumption DEF BridgesInv, HttpTypeInv
  <2>2. \A r \in Requests : /\ Unplaced(r) \/ r \in tasks
                            /\ worker[r] = "done" => Placed(r)
    BY <1>1 DEF BridgesInv, AnpAccount, IndInv, TypeInv, Working
  <2>3. \A c \in Calls : /\ Unplaced(c) \/ envelope[c] # NoMessage
                         /\ http[c] \in {"answered", "aborted"} => envelope[c] = NoMessage \/ Placed(c)
    BY <1>1, Kinds DEF BridgesInv, HttpAccount, HttpTypeInv, HttpPlaces
  <2>4. \A x \in made \cap over : Placed(x)
    BY <2>1, <2>2, <2>3
  <2>5. \A x \in Bridged \ made : Unplaced(x)
    BY <2>2, <2>3 DEF Bridged
  <2>6. \A c \in Calls : http[c] = "answered" /\ track[c] = "unmade" => reply[c] = Error
    BY <1>1 DEF BridgesInv, ReplyInv, Sent
  <2>7. QED
    BY <2>4, <2>5, <2>6 DEF BridgedTaskAccounted, Placed, Unplaced
<1>2. QED
  BY <1>1, BridgesInvCorrect, PTL

\* What send_task returns for a URL is true of the task it started, at a bridge and at another
\* agent, whatever the other calls and the shutdown do (tools.go:380-401,
\* handler_outbound.go:41-121).
THEOREM ResultIsTheTaskCorrect == BridgesSpec => []ResultIsTheTask
<1>1. ASSUME BridgesInv PROVE ResultIsTheTask
  <2> SUFFICES ASSUME NEW c \in Calls, tool[c] = "ok"
               PROVE  IF http[c] # "done by agent"
                      THEN /\ got[c].id = Id("engine", c) /\ got[c].status = "SUBMITTED"
                           /\ got[c].message = Message[c] /\ envelope[c] = Message[c]
                           /\ track[c] \notin {"none", "unmade"}
                      ELSE /\ ProtoMessageToHTTP(got[c].message) = AgentMessage
                           /\ protoStatusToHTTP(got[c].status) =
                                  IF reply[c].status \in {protoStatusToHTTP(s) : s \in Statuses}
                                  THEN reply[c].status ELSE "unknown"
                           /\ reply[c].id # NoId => got[c].id = reply[c].id
    BY DEF ResultIsTheTask
  <2>1. reply[c] # NoReply /\ reply[c] # Error /\ got[c] = httpTaskResultToProto(c, reply[c]) /\ ReplyInv(c)
    BY <1>1 DEF BridgesInv, ReplyInv
  <2>2. CASE http[c] = "answered"
    <3>1. reply[c] = BridgeReply(c) /\ envelope[c] = Message[c] /\ track[c] \notin {"none", "unmade"}
      BY <2>1, <2>2 DEF ReplyInv, Sent
    <3>2. /\ reply[c].id = Id("engine", c) /\ reply[c].status = "submitted"
          /\ reply[c].message = ProtoMessageToHTTP(Message[c])
      BY <3>1 DEF BridgeReply, Result
    <3>3. Id("engine", c) # NoId
      BY DEF Id, NoId
    <3>4. /\ got[c].id = Id("engine", c) /\ got[c].status = HTTPStatusToProto("submitted")
          /\ got[c].message = HTTPMessageToProto(ProtoMessageToHTTP(Message[c]))
      BY <2>1, <3>2, <3>3 DEF httpTaskResultToProto, Result
    <3>5. HTTPStatusToProto("submitted") = "SUBMITTED"
      BY DEF HTTPStatusToProto
    <3>6. QED
      BY <2>2, <3>1, <3>4, <3>5, MessageRoundTrip
  <2>3. CASE http[c] = "done by agent"
    <3>1. PICK s \in AgentStatuses, i \in {Id("agent", c), NoId} : reply[c] = AgentReply(s, i)
      BY <2>1, <2>3 DEF ReplyInv
    <3>2. reply[c].id = i /\ reply[c].status = s /\ reply[c].message = AgentMessage
      BY <3>1 DEF AgentReply, Result
    <3>3. /\ reply[c].id # NoId => got[c].id = reply[c].id
          /\ got[c].status = HTTPStatusToProto(s)
          /\ got[c].message = HTTPMessageToProto(AgentMessage)
      BY <2>1, <3>2 DEF httpTaskResultToProto, Result
    <3>4. QED
      BY <2>3, <3>2, <3>3, MessageRoundTrip, StatusRoundTrip
  <2>4. QED
    BY <2>1, <2>2, <2>3 DEF ReplyInv
<1>2. QED
  BY <1>1, BridgesInvCorrect, PTL
=============================================================================

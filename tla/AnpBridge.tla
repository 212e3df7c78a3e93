----------------------------- MODULE AnpBridge -----------------------------
(***************************************************************************)
(* The ANP bridge: POST /agent/rpc (internal/anp/handler.go), the channel  *)
(* to the consumer in cmd/agentanycastd/main.go, the goroutine it starts   *)
(* for each call (Server.HandleInboundTask), and the shutdown, which stops *)
(* the HTTP server and then closes the channel.                            *)
(*                                                                         *)
(* HandleInboundTask sends the task to the node's own peer ID through the  *)
(* A2A router: the engine has the task before the message is sent.  What   *)
(* becomes of the message, which the HTTP bridge's share with it, is in    *)
(* Bridges.                                                                *)
(***************************************************************************)
EXTENDS Integers, Sequences, FiniteSets

CONSTANTS
    Requests,
    QueueCap    \* capacity of anpTaskChan (64 in the code)

ASSUME QueueAssumption == QueueCap \in Nat \ {0}

VARIABLES
    handler,  \* handler[r]: "idle", "queueing", "waiting", "answered"
    answer,   \* answer[r]: the id of the response, "none" before it; see Ids
    queue,    \* anpTaskChan
    worker,   \* worker[r]: "none", "taken", "sending", "sent", "failed", "done"
    result,   \* result[r]: the responses in r's ResultCh
    tasks,    \* requests whose task the engine has
    consumer, \* the goroutine that ranges over anpTaskChan has not ended
    stage,    \* "serving", "stopping" (anpSrv.Stop), "closed", "exited"
    panicked  \* a handler sent on the closed channel

vars == <<handler, answer, queue, worker, result, tasks, consumer, stage, panicked>>

\* The id of a response: the one of the request, null, or the name of the method.
Ids == {"request", "null", "method"}

Init ==
    /\ handler  = [r \in Requests |-> "idle"]
    /\ answer   = [r \in Requests |-> "none"]
    /\ queue    = <<>>
    /\ worker   = [r \in Requests |-> "none"]
    /\ result   = [r \in Requests |-> <<>>]
    /\ tasks    = {}
    /\ consumer = TRUE
    /\ stage    = "serving"
    /\ panicked = FALSE

Up == stage # "exited" /\ ~panicked

\* Mutant: resultCh is unbuffered.
ResultCap_Unbuffered == 0

\* Capacity of resultCh.
ResultCap == 1

---------------------------------------------------------------------------
(* serveRPC.                                                               *)

Answered(r, id) ==
    /\ handler' = [handler EXCEPT ![r] = "answered"]
    /\ answer'  = [answer EXCEPT ![r] = id]

Accept(r) ==
    /\ Up /\ stage = "serving" /\ handler[r] = "idle"
    /\ handler' = [handler EXCEPT ![r] = "queueing"]
    /\ UNCHANGED <<answer, queue, worker, result, tasks, consumer, stage, panicked>>

\* The body cannot be read or is not JSON.
Refuse(r) ==
    /\ Up /\ stage = "serving" /\ handler[r] = "idle"
    /\ Answered(r, "null")
    /\ UNCHANGED <<queue, worker, result, tasks, consumer, stage, panicked>>

\* The send in the select; on a closed channel it panics, and the model stops there.
Enqueue(r) ==
    /\ Up /\ handler[r] = "queueing"
    /\ IF stage = "closed"
       THEN panicked' = TRUE /\ UNCHANGED <<handler, queue>>
       ELSE /\ Len(queue) < QueueCap
            /\ queue'    = Append(queue, r)
            /\ handler'  = [handler EXCEPT ![r] = "waiting"]
            /\ panicked' = panicked
    /\ UNCHANGED <<answer, worker, result, tasks, consumer, stage>>

\* ctx.Done: 30 seconds are over or the client has gone.
Busy(r) ==
    /\ Up /\ handler[r] = "queueing"
    /\ Answered(r, "request")
    /\ UNCHANGED <<queue, worker, result, tasks, consumer, stage, panicked>>

Receive(r) ==
    /\ Up /\ handler[r] = "waiting" /\ result[r] # <<>>
    /\ Answered(r, Head(result[r]))
    /\ result' = [result EXCEPT ![r] = Tail(@)]
    /\ UNCHANGED <<queue, worker, tasks, consumer, stage, panicked>>

\* Mutant: the wait for the result has no deadline.
TimedOut_Missing(r) ==
    /\ FALSE
    /\ UNCHANGED vars

\* ctx.Done while waiting: the call is answered, the goroutine goes on.
TimedOut(r) ==
    /\ Up /\ handler[r] = "waiting"
    /\ Answered(r, "request")
    /\ UNCHANGED <<queue, worker, result, tasks, consumer, stage, panicked>>

---------------------------------------------------------------------------
(* The consumer and its goroutines.                                        *)

Take ==
    /\ Up /\ consumer /\ queue # <<>>
    /\ worker' = [worker EXCEPT ![Head(queue)] = "taken"]
    /\ queue'  = Tail(queue)
    /\ UNCHANGED <<handler, answer, result, tasks, consumer, stage, panicked>>

\* range ends when the channel is closed and empty.
ConsumerEnds ==
    /\ Up /\ consumer /\ stage = "closed" /\ queue = <<>>
    /\ consumer' = FALSE
    /\ UNCHANGED <<handler, answer, queue, worker, result, tasks, stage, panicked>>

\* HandleInboundTask: router.SendTask creates the task ...
CreateTask(r) ==
    /\ Up /\ worker[r] = "taken"
    /\ tasks'  = tasks \cup {r}
    /\ worker' = [worker EXCEPT ![r] = "sending"]
    /\ UNCHANGED <<handler, answer, queue, result, consumer, stage, panicked>>

\* ... and sends the message to the node's own ID, or returns the error.
SendTask(r, ok) ==
    /\ Up /\ worker[r] = "sending"
    /\ worker' = [worker EXCEPT ![r] = IF ok THEN "sent" ELSE "failed"]
    /\ UNCHANGED <<handler, answer, queue, result, tasks, consumer, stage, panicked>>

\* t.ResultCh <- the result or the error, with the method's name for an id.  The
\* channel is r's own: without room the goroutine would wait for serveRPC.
Respond(r) ==
    /\ Up /\ worker[r] \in {"sent", "failed"}
    /\ Len(result[r]) < ResultCap
    /\ result' = [result EXCEPT ![r] = Append(@, "method")]
    /\ worker' = [worker EXCEPT ![r] = "done"]
    /\ UNCHANGED <<handler, answer, queue, tasks, consumer, stage, panicked>>

---------------------------------------------------------------------------
(* Shutdown: the deferred function of main.                                *)

Stop ==
    /\ Up /\ stage = "serving"
    /\ stage' = "stopping"
    /\ UNCHANGED <<handler, answer, queue, worker, result, tasks, consumer, panicked>>

\* Mutant: the channel is closed without waiting for the handlers.
CloseChannel_AtOnce ==
    /\ Up /\ stage = "stopping"
    /\ stage' = "closed"
    /\ UNCHANGED <<handler, answer, queue, worker, result, tasks, consumer, panicked>>

\* http.Server.Shutdown returns when no handler is active; then close(anpTaskChan).
CloseChannel ==
    /\ Up /\ stage = "stopping"
    /\ \A r \in Requests : handler[r] \notin {"queueing", "waiting"}
    /\ stage' = "closed"
    /\ UNCHANGED <<handler, answer, queue, worker, result, tasks, consumer, panicked>>

\* main returns, whatever its goroutines are doing.
Exit ==
    /\ Up /\ stage = "closed"
    /\ stage' = "exited"
    /\ UNCHANGED <<handler, answer, queue, worker, result, tasks, consumer, panicked>>

Next ==
    \/ \E r \in Requests :
          \/ Accept(r) \/ Refuse(r) \/ Enqueue(r) \/ Busy(r) \/ Receive(r) \/ TimedOut(r)
          \/ CreateTask(r) \/ Respond(r)
          \/ \E ok \in BOOLEAN : SendTask(r, ok)
    \/ Take
    \/ ConsumerEnds
    \/ Stop
    \/ CloseChannel
    \/ Exit

Spec == Init /\ [][Next]_vars

---------------------------------------------------------------------------
(* Properties.                                                             *)

\* The types of the variables; a request is in the channel at most once, and its
\* ResultCh never holds more than it has room for.
TypeOK ==
    /\ handler \in [Requests -> {"idle", "queueing", "waiting", "answered"}]
    /\ answer \in [Requests -> Ids \cup {"none"}]
    /\ Len(queue) <= QueueCap
    /\ \A i \in DOMAIN queue : queue[i] \in Requests /\ worker[queue[i]] = "none"
    /\ \A i, j \in DOMAIN queue : queue[i] = queue[j] => i = j
    /\ worker \in [Requests -> {"none", "taken", "sending", "sent", "failed", "done"}]
    /\ \A r \in Requests : Len(result[r]) <= 1
    /\ tasks \subseteq Requests
    /\ stage \in {"serving", "stopping", "closed", "exited"}

\* Shutdown closes anpTaskChan only when no serveRPC can still send on it: a request that
\* is being served when the signal comes is answered, and does not end in a panic that
\* net/http turns into a dropped connection.
NoSendOnClosed == ~panicked

\* serveRPC may have given up on a call, but the goroutine that runs it never waits for
\* it: it can always leave its response and end.
WorkerNeverBlocks ==
    \A r \in Requests : worker[r] \in {"sent", "failed"} => Len(result[r]) < ResultCap

\* Every call that is accepted is answered.
CallAnswered == \A r \in Requests : handler[r] = "waiting" ~> handler[r] = "answered"

\* POST /agent/rpc is a JSON-RPC 2.0 endpoint: the response to a call that could be read
\* has the id of the call.
\* Not what the code does: see "Disagreements" in README.md.
AnswerHasRequestId == \A r \in Requests : answer[r] # "method"
=============================================================================

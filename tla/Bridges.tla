------------------------------ MODULE Bridges ------------------------------
(***************************************************************************)
(* The HTTP bridge beside the ANP bridge of AnpBridge, in one daemon: both *)
(* hand their requests to Server.HandleInboundTask, and main stops the ANP *)
(* bridge first, then the HTTP bridge, then returns.  The messages of both *)
(* are sent by Router.SendTask, and the AckTracker goes on with them: it   *)
(* sends again, through the same sendFn, what is not acknowledged, and     *)
(* puts it into the offline queue in the end (internal/a2a).  Delivery has *)
(* that part in detail; here it runs beside the requests.                  *)
(*                                                                         *)
(* The requests come from the MCP tool send_task of another daemon         *)
(* (internal/mcp/tools.go), which gives a URL to OutboundClient            *)
(* (internal/bridge/handler_outbound.go).  The URL is this daemon's bridge *)
(* (internal/bridge/handler_inbound.go) or some other A2A agent, which is  *)
(* external and answers what it likes.                                     *)
(***************************************************************************)
EXTENDS AnpBridge, HttpTranslator

CONSTANTS
    Calls,          \* calls of send_task with a URL
    Message,        \* Message[c]: the message of the call, in protobuf
    AgentMessage,   \* the message in an agent's answer, in JSON
    AgentStatuses,  \* what an agent may call the status of its task
    MaxFollowed     \* bound: messages that the AckTracker goes on with

\* Messages of the kinds that the formats have in common; an ANP request is no HTTP call.
ASSUME MessageAssumption ==
    /\ Message \in [Calls -> [role : {"USER", "AGENT"}, parts : Seq([type : {"text", "url"}, body : STRING])]]
    /\ AgentMessage \in [role : {"user", "agent"}, parts : Seq([type : {"text", "url"}, body : STRING])]
    /\ Calls \cap Requests = {}

VARIABLES
    tool,      \* tool[c]: "idle", "waiting", "ok", "error"
    got,       \* got[c]: the task that the tool returned; see Task
    http,      \* http[c]: where the request is; see Serving
    reply,     \* reply[c]: the response, NoReply before it
    policy,    \* the handler's policy: "nil", "torn" (half of it is written), "set"
    envelope,  \* envelope[c]: the message of the task the engine made for c, or NoMessage
    track,     \* track[x]: what the AckTracker has of x's message; see Tracks
    \* history
    given      \* requests whose message was given to the offline queue, which stores it
               \* or logs that it cannot

httpVars == <<tool, got, http, reply, policy, envelope, track, given>>
allVars  == <<vars, httpVars>>

\* The requests of both bridges, and where the AckTracker may have their messages:
\* "unmade" is one that could not be marshalled.
Bridged == Requests \cup Calls
Tracks  == {"none", "unmade", "pending", "acked", "expired", "escalated"}

NoMessage == [role |-> "none", parts |-> <<>>]
NoReply   == [kind |-> "none"]
Error     == [kind |-> "error"]

\* The id the engine, the client or an agent gives to the task of c; NoId is left out of
\* the JSON.
Id(by, c) == <<by, c>>
NoId      == <<>>
Result(id, status, message) ==
    [kind |-> "result", id |-> id, status |-> status, message |-> message]

BridgesInit ==
    /\ Init
    /\ tool     = [c \in Calls |-> "idle"]
    /\ got      = [c \in Calls |-> NoReply]
    /\ http     = [c \in Calls |-> "none"]
    /\ reply    = [c \in Calls |-> NoReply]
    /\ policy   = "nil"
    /\ envelope = [c \in Calls |-> NoMessage]
    /\ track    = [x \in Bridged |-> "none"]
    /\ given    = {}

At(c, place)     == Up /\ http[c] = place
MovesTo(c, place) == http' = [http EXCEPT ![c] = place]

\* Requests that are in ServeHTTP.
Serving == {c \in Calls : http[c] \in {"arrived", "admitted", "sending", "sent", "failed"}}

---------------------------------------------------------------------------
(* The tool and its HTTP client, at another daemon.                        *)

\* handleSendTask, sendByURL and the first half of OutboundClient.SendTask: the URL is
\* this daemon's bridge, or that of another agent.
SendByURL(c, place) ==
    /\ tool[c] = "idle"
    /\ tool' = [tool EXCEPT ![c] = "waiting"]
    /\ MovesTo(c, place)
    /\ UNCHANGED <<vars, got, reply, policy, envelope, track, given>>

\* Mutant: the task keeps the id that the client made up.
httpTaskResultToProto_OwnId(c, r) ==
    Result(Id("client", c), HTTPStatusToProto(r.status), HTTPMessageToProto(r.message))

\* The task of a response; without an id in it the task has the id of the request.
httpTaskResultToProto(c, r) ==
    Result(IF r.id = NoId THEN Id("client", c) ELSE r.id,
           HTTPStatusToProto(r.status), HTTPMessageToProto(r.message))

\* The response arrives: ParseA2AHTTPResponse and the tool's result.
ToolReceives(c) ==
    /\ tool[c] = "waiting" /\ reply[c] # NoReply
    /\ IF reply[c] = Error
       THEN /\ tool' = [tool EXCEPT ![c] = "error"]
            /\ got' = got
       ELSE /\ tool' = [tool EXCEPT ![c] = "ok"]
            /\ got' = [got EXCEPT ![c] = httpTaskResultToProto(c, reply[c])]
    /\ UNCHANGED <<vars, http, reply, policy, envelope, track, given>>

\* The client's 60 seconds are over, the connection fails, or the caller has gone.
ToolGivesUp(c) ==
    /\ tool[c] = "waiting"
    /\ tool' = [tool EXCEPT ![c] = "error"]
    /\ UNCHANGED <<vars, got, http, reply, policy, envelope, track, given>>

\* The ids that get_task_status finds at the tool's daemon: sendByURL puts none into the
\* engine there.
ToolTasks == {}

\* External: another agent answers, with an id or without.
AgentAnswers(c, status, id) ==
    /\ http[c] = "agent"
    /\ MovesTo(c, "done by agent")
    /\ reply' = [reply EXCEPT ![c] = Result(id, status, AgentMessage)]
    /\ UNCHANGED <<vars, tool, got, policy, envelope, track, given>>

\* External: it answers with an error or with an HTTP status that is not 200.
AgentRefuses(c) ==
    /\ http[c] = "agent"
    /\ MovesTo(c, "done by agent")
    /\ reply' = [reply EXCEPT ![c] = Error]
    /\ UNCHANGED <<vars, tool, got, policy, envelope, track, given>>

---------------------------------------------------------------------------
(* InboundHandler.  The server takes requests until its own shutdown,      *)
(* which follows the one of the ANP bridge.                                *)

Arrive(c) ==
    /\ At(c, "posted") /\ stage \in {"serving", "stopping"}
    /\ MovesTo(c, "arrived")
    /\ UNCHANGED <<vars, tool, got, reply, policy, envelope, track, given>>

AnswersError(c) == MovesTo(c, "answered") /\ reply' = [reply EXCEPT ![c] = Error]

\* The body cannot be read.
ReadFails(c) ==
    /\ At(c, "arrived")
    /\ AnswersError(c)
    /\ UNCHANGED <<vars, tool, got, policy, envelope, track, given>>

\* Without a policy nothing is checked.  main sets it while requests are served, and the
\* two words of the interface value are written one after the other.
CheckPolicy(c) ==
    /\ At(c, "arrived")
    /\ \/ policy \in {"nil", "set"} /\ MovesTo(c, "admitted") /\ UNCHANGED reply
       \/ policy = "set" /\ AnswersError(c)
       \* The method is called on a nil Core and panics; net/http drops the connection.
       \/ policy = "torn" /\ MovesTo(c, "aborted") /\ UNCHANGED reply
    /\ UNCHANGED <<vars, tool, got, policy, envelope, track, given>>

\* HandleInboundTask: the engine makes a task; its id is not the one of the request.
CreateInbound(c) ==
    /\ At(c, "admitted")
    /\ MovesTo(c, "sending")
    /\ envelope' = [envelope EXCEPT ![c] = HTTPMessageToProto(ProtoMessageToHTTP(Message[c]))]
    /\ UNCHANGED <<vars, tool, got, reply, policy, track, given>>

\* Router.SendTask with the message it has made: sendFn sends it to the node's own ID, and
\* it is tracked; or it cannot be sent, sendFn gives it to the offline queue and reports
\* the error all the same; or it cannot be marshalled, and there is none.  An ACK that
\* comes before Track finds nothing and leaves no trace, so that the two are one step.
SendOutcomes == {"sent", "unsent", "unmade"}
SendAndTrack(x, outcome) ==
    \/ outcome = "sent"   /\ track' = [track EXCEPT ![x] = "pending"] /\ UNCHANGED given
    \/ outcome = "unsent" /\ given' = given \cup {x} /\ UNCHANGED track
    \/ outcome = "unmade" /\ track' = [track EXCEPT ![x] = "unmade"] /\ UNCHANGED given

\* Mutant: the send does not end with the daemon's context.
SendInbound_IgnoresCancel(c, outcome) ==
    /\ At(c, "sending") /\ stage = "serving"
    /\ MovesTo(c, IF outcome = "sent" THEN "sent" ELSE "failed")
    /\ SendAndTrack(c, outcome)
    /\ UNCHANGED <<vars, tool, got, reply, policy, envelope>>

\* The rest of HandleInboundTask.  The send runs under the daemon's context, which main
\* cancels before it stops the servers, and the write has a deadline.
SendInbound(c, outcome) ==
    /\ At(c, "sending")
    /\ MovesTo(c, IF outcome = "sent" THEN "sent" ELSE "failed")
    /\ SendAndTrack(c, outcome)
    /\ UNCHANGED <<vars, tool, got, reply, policy, envelope>>

\* The response: the task as the engine made it, with the message of the request, or an
\* error, also when the response cannot be marshalled.
AnswerInbound(c) ==
    \/ /\ At(c, "sent")
       /\ MovesTo(c, "answered")
       /\ reply' = [reply EXCEPT ![c] =
              Result(Id("engine", c), protoStatusToHTTP("SUBMITTED"), ProtoMessageToHTTP(envelope[c]))]
       /\ UNCHANGED <<vars, tool, got, policy, envelope, track, given>>
    \/ /\ Up /\ http[c] \in {"sent", "failed"}
       /\ AnswersError(c)
       /\ UNCHANGED <<vars, tool, got, policy, envelope, track, given>>

---------------------------------------------------------------------------
(* The AckTracker, until main returns.                                     *)

\* It does more with x's message than wait, within the bound.
Followed   == {x \in Bridged : \/ track[x] \in {"acked", "expired", "escalated"}
                               \/ track[x] = "pending" /\ x \in given}
Follows(x) == Up /\ Cardinality(Followed \cup {x}) <= MaxFollowed

Tracked == UNCHANGED <<vars, tool, got, http, reply, policy, envelope>>

\* The ACK arrives; one for a message that is not pending changes nothing.
Acknowledge(x) ==
    /\ Follows(x) /\ track[x] = "pending"
    /\ track' = [track EXCEPT ![x] = "acked"]
    /\ Tracked /\ UNCHANGED given

\* processRetries sends again what was pending when it looked, under the lock; the ACK may
\* have come since.  Sent again, nothing changes here; when it cannot be sent, sendFn
\* gives it to the offline queue, and it stays pending.
Retry(x) ==
    /\ Follows(x) /\ track[x] \in {"pending", "acked"}
    /\ given' = given \cup {x}
    /\ Tracked /\ UNCHANGED track

\* processRetries: the retries are used up, and the entry is deleted under the lock.
Expire(x) ==
    /\ Follows(x) /\ track[x] = "pending"
    /\ track' = [track EXCEPT ![x] = "expired"]
    /\ Tracked /\ UNCHANGED given

\* Mutant: there is no callback, and what has expired is dropped.
Escalate_NoCallback(x) ==
    /\ Follows(x) /\ track[x] = "expired"
    /\ track' = [track EXCEPT ![x] = "escalated"]
    /\ Tracked /\ UNCHANGED given

\* onMaxRetries, after the unlock: main's callback puts it into the offline queue.
Escalate(x) ==
    /\ Follows(x) /\ track[x] = "expired"
    /\ track' = [track EXCEPT ![x] = "escalated"]
    /\ given' = given \cup {x}
    /\ Tracked

---------------------------------------------------------------------------
(* main.                                                                   *)

\* bridgeInbound.SetInboundPolicy, long after the server has been started.
SetPolicy ==
    /\ policy # "set"
    /\ policy' = IF policy = "nil" THEN "torn" ELSE "set"
    /\ UNCHANGED <<vars, tool, got, http, reply, envelope, track, given>>

\* The signal is waited for when all is set up.
StopBridges == Stop /\ policy = "set" /\ UNCHANGED httpVars

\* bridgeSrv.Shutdown has no deadline: it returns when no request is served any more.
ExitDaemon == Exit /\ Serving = {} /\ UNCHANGED httpVars

\* The ANP bridge's call of Router.SendTask.
SendAnp(r, outcome) ==
    /\ SendTask(r, outcome = "sent")
    /\ SendAndTrack(r, outcome)
    /\ UNCHANGED <<tool, got, http, reply, policy, envelope>>

AnpStep(A) == A /\ UNCHANGED httpVars

BridgesNext ==
    \/ \E r \in Requests :
          \/ AnpStep(Accept(r)) \/ AnpStep(Refuse(r)) \/ AnpStep(Enqueue(r)) \/ AnpStep(Busy(r))
          \/ AnpStep(Receive(r)) \/ AnpStep(TimedOut(r)) \/ AnpStep(CreateTask(r))
          \/ AnpStep(Respond(r))
          \/ \E o \in SendOutcomes : SendAnp(r, o)
    \/ AnpStep(Take) \/ AnpStep(ConsumerEnds) \/ AnpStep(CloseChannel)
    \/ \E c \in Calls :
          \/ \E place \in {"posted", "agent"} : SendByURL(c, place)
          \/ ToolReceives(c) \/ ToolGivesUp(c)
          \/ \E s \in AgentStatuses, id \in {Id("agent", c), NoId} : AgentAnswers(c, s, id)
          \/ AgentRefuses(c)
          \/ Arrive(c) \/ ReadFails(c) \/ CheckPolicy(c) \/ CreateInbound(c)
          \/ \E o \in SendOutcomes : SendInbound(c, o)
          \/ AnswerInbound(c)
    \/ \E x \in Bridged :
          Acknowledge(x) \/ Retry(x) \/ Expire(x) \/ Escalate(x)
    \/ SetPolicy
    \/ StopBridges
    \/ ExitDaemon

BridgesSpec == BridgesInit /\ [][BridgesNext]_allVars

\* Goroutines that can run do run, and the 30 seconds of an ANP call pass.  Nothing is
\* assumed of the clients, agents and ACKs, nor of the send for an ANP call; the one of
\* ServeHTTP ends, since it runs under the daemon's context and has a write deadline.
BridgesFairSpec ==
    /\ BridgesSpec
    /\ WF_allVars(AnpStep(Take)) /\ WF_allVars(AnpStep(CloseChannel)) /\ WF_allVars(ExitDaemon)
    /\ \A r \in Requests :
          /\ WF_allVars(AnpStep(Busy(r))) /\ WF_allVars(AnpStep(TimedOut(r)))
          /\ WF_allVars(AnpStep(CreateTask(r))) /\ WF_allVars(AnpStep(Respond(r)))
    /\ \A c \in Calls :
          /\ WF_allVars(CheckPolicy(c)) /\ WF_allVars(CreateInbound(c))
          /\ WF_allVars(AnswerInbound(c))
          /\ WF_allVars(\E o \in SendOutcomes : SendInbound(c, o))

---------------------------------------------------------------------------
(* Properties.                                                             *)

\* The types of the HTTP bridge's variables.
BridgesTypeOK ==
    /\ tool \in [Calls -> {"idle", "waiting", "ok", "error"}]
    /\ http \in [Calls -> {"none", "posted", "arrived", "admitted", "sending", "sent", "failed",
                           "answered", "aborted", "agent", "done by agent"}]
    /\ policy \in {"nil", "torn", "set"}
    /\ track \in [Bridged -> Tracks] /\ given \subseteq Bridged

\* What send_task returns for a URL is true of the task it started, through two
\* conversions in each direction, time-outs and the handlers of other calls: at a bridge
\* the id is the one of the engine's task, whose message is the one of the call, has gone
\* out and is tracked; at another agent status and message are the ones it has given, and the id its
\* own when it gave one (tools.go:380-401, handler_outbound.go:41-121).
ResultIsTheTask ==
    \A c \in Calls : tool[c] = "ok" =>
        IF http[c] # "done by agent"
           THEN /\ got[c].id = Id("engine", c) /\ got[c].status = "SUBMITTED"
                /\ got[c].message = Message[c] /\ envelope[c] = Message[c] /\ track[c] \notin {"none", "unmade"}
           ELSE /\ ProtoMessageToHTTP(got[c].message) = AgentMessage
                /\ protoStatusToHTTP(got[c].status) =
                       IF reply[c].status \in {protoStatusToHTTP(s) : s \in Statuses}
                       THEN reply[c].status ELSE "unknown"
                /\ reply[c].id # NoId => got[c].id = reply[c].id

\* No message of a task that either bridge has put into the engine falls between the
\* request, the AckTracker and the offline queue: while the daemon runs and once the
\* request is over, it is acknowledged or in the tracker's hands, or it was given to the
\* queue, by sendFn, by a retry or at last by the callback, unless there never was one, and
\* then the request has failed (router.go:446-458, main.go:220-235, ack_tracker.go:148-209).
\* A request that was refused or dropped before it had a task has left nothing anywhere.
BridgedTaskAccounted ==
    LET made == tasks \cup {c \in Calls : envelope[c] # NoMessage}
        over == {r \in Requests : worker[r] = "done"} \cup
                {c \in Calls : http[c] \in {"answered", "aborted"}}
    IN  /\ stage # "exited" =>
              \A x \in made \cap over : x \in given \/ track[x] \in {"unmade", "pending", "acked", "expired"}
        /\ \A c \in Calls : http[c] = "answered" /\ track[c] = "unmade" => reply[c] = Error
        /\ \A x \in Bridged \ made : track[x] = "none" /\ x \notin given

\* The shutdown of both servers ends, one after the other, whatever is being served when
\* the signal comes and although neither is given a deadline (main.go:357, 372-375).
ShutdownEnds == stage = "stopping" ~> stage = "exited"

\* tools.go:117, of get_task_status: "The task ID returned by send_task or
\* send_task_by_skill", and that tool finds the task of the id.
\* Not what the code does: see "Disagreements" in README.md.
ReturnedIdIsKnown == \A c \in Calls : tool[c] = "ok" => got[c].id \in ToolTasks

\* handler_inbound.go:105: "Inbound policy check (ACL, rate limiting, audit)."  No task
\* comes from a request that was not checked.
\* Not what the code does: see "Disagreements" in README.md.
NoTaskUnchecked == [][\A c \in Calls : http[c] = "arrived" /\ http'[c] = "admitted" => policy = "set"]_allVars
=============================================================================

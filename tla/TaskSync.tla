------------------------------ MODULE TaskSync ------------------------------
(***************************************************************************)
(* The two views of a task: the originator's record, made by               *)
(* Router.SendTask, and the worker's record, made by handleSendTask; and   *)
(* the messages by which the first follows the second.  The worker's       *)
(* agent drives its record through the gRPC calls UpdateTaskStatus,        *)
(* CompleteTask, FailTask and CancelTask (pkg/grpcserver/server.go), or    *)
(* handleMCPProxyTask drives it when the task targets a proxied skill.     *)
(* Every one of these starts a goroutine that sends one envelope on a      *)
(* stream of its own, so the envelopes of a task arrive in any order;      *)
(* Delivery shows why each arrives at most once while the dedup cache      *)
(* remembers it.  An envelope that the originator's engine refuses is      *)
(* acknowledged all the same and is gone.                                  *)
(*                                                                         *)
(* An envelope is modelled by the status it asks for: TASK_STATUS_UPDATE   *)
(* carries its own, TASK_COMPLETE means COMPLETED and TASK_FAIL FAILED.    *)
(***************************************************************************)
EXTENDS TaskStatus, Integers

CONSTANTS
    Tasks,     \* tasks, each sent by the originator to the worker
    Proxied,   \* the tasks that target a skill of the MCP proxy
    None,      \* no record
    MaxReg,    \* bound: times the worker registers one task
    MaxMsgs,   \* bound: equal envelopes of one task in flight
    MaxLoss    \* bound: envelopes lost for good

ASSUME ProxiedAssumption == Proxied \subseteq Tasks
ASSUME NoneAssumption    == None \notin Statuses
ASSUME BoundsAssumption  == MaxReg \in Nat /\ MaxMsgs \in Nat /\ MaxLoss \in Nat

VARIABLES
    ost,       \* ost[t]: status in the originator's engine, or None
    wst,       \* wst[t]: status in the worker's engine, or None
    msgs,      \* msgs[t][s]: envelopes to the originator asking for status s
    events,    \* events[t]: events of t in the worker's incomingCh
    running,   \* running[t]: handleMCPProxyTask calls waiting for the proxy
    known,     \* known[t]: the worker's agent has been told of t
    lost,      \* envelopes lost so far
    \* history
    regs,      \* regs[t]: how often the worker has registered t
    reached,   \* reached[t]: statuses the worker's record has had
    cancelO,   \* cancelO[t]: the originator's CancelTask has succeeded
    cancelW,   \* cancelW[t]: the worker's CancelTask has been called
    overtaken  \* overtaken[t]: the originator has refused an envelope of t while another
               \* was on its way

vars == <<ost, wst, msgs, events, running, known, lost, regs, reached, cancelO, cancelW, overtaken>>

Init ==
    /\ ost     = [t \in Tasks |-> None]
    /\ wst     = [t \in Tasks |-> None]
    /\ msgs    = [t \in Tasks |-> [s \in Statuses |-> 0]]
    /\ events  = [t \in Tasks |-> 0]
    /\ running = [t \in Tasks |-> 0]
    /\ known   = [t \in Tasks |-> FALSE]
    /\ lost    = 0
    /\ regs    = [t \in Tasks |-> 0]
    /\ reached = [t \in Tasks |-> {}]
    /\ cancelO = [t \in Tasks |-> FALSE]
    /\ cancelW = [t \in Tasks |-> FALSE]
    /\ overtaken = [t \in Tasks |-> FALSE]

\* A goroutine of the worker sends an envelope to the originator.
SendToOriginator(t, s) ==
    /\ msgs[t][s] < MaxMsgs
    /\ msgs' = [msgs EXCEPT ![t][s] = @ + 1]

\* TransitionTask on the worker's engine, where its error is ignored.
TryTransition(t, s) ==
    IF wst[t] # None /\ Accepts(wst[t], s)
    THEN /\ wst' = [wst EXCEPT ![t] = s]
         /\ reached' = [reached EXCEPT ![t] = @ \cup {s}]
    ELSE UNCHANGED <<wst, reached>>

-----------------------------------------------------------------------------
(* The originator *)

\* Router.SendTask: CreateTask, then the SEND_TASK envelope is on its way.
SendTask(t) ==
    /\ ost[t] = None
    /\ ost' = [ost EXCEPT ![t] = "SUBMITTED"]
    /\ UNCHANGED <<wst, msgs, events, running, known, lost, regs, reached, cancelO, cancelW, overtaken>>

\* CancelTask on a record whose OriginatorPeerID is "local": no envelope is sent.
CancelTaskAtOriginator(t) ==
    /\ ost[t] # None
    /\ Accepts(ost[t], "CANCELED")
    /\ ost' = [ost EXCEPT ![t] = "CANCELED"]
    /\ cancelO' = [cancelO EXCEPT ![t] = TRUE]
    /\ UNCHANGED <<wst, msgs, events, running, known, lost, regs, reached, cancelW, overtaken>>

\* handleTaskStatusUpdate, handleTaskComplete, handleTaskFail: the envelope is
\* consumed (and acknowledged) whether or not TransitionTask accepts it.
Deliver(t, s) ==
    /\ msgs[t][s] > 0
    /\ msgs' = [msgs EXCEPT ![t][s] = @ - 1]
    /\ LET accepted == ost[t] # None /\ Accepts(ost[t], s)
           others   == \E r \in Statuses : msgs'[t][r] > 0
       IN  /\ ost' = [ost EXCEPT ![t] = IF accepted THEN s ELSE @]
           /\ overtaken' = [overtaken EXCEPT ![t] = @ \/ (~accepted /\ others)]
    /\ UNCHANGED <<wst, events, running, known, lost, regs, reached, cancelO, cancelW>>

-----------------------------------------------------------------------------
(* The worker *)

\* handleSendTask: RegisterTask writes a SUBMITTED record over whatever is there;
\* the event goes to incomingCh, or is dropped when that is full.  The envelope
\* can come again after the worker has forgotten its id.
HandleSendTask(t, room) ==
    /\ ost[t] # None
    /\ regs[t] < MaxReg
    /\ regs' = [regs EXCEPT ![t] = @ + 1]
    /\ wst' = [wst EXCEPT ![t] = "SUBMITTED"]
    /\ reached' = [reached EXCEPT ![t] = @ \cup {"SUBMITTED"}]
    /\ events' = [events EXCEPT ![t] = IF room THEN @ + 1 ELSE @]
    /\ UNCHANGED <<ost, msgs, running, known, lost, cancelO, cancelW, overtaken>>

\* forwardIncomingTasks, for a task that is not proxied: the agent hears of it if it
\* has subscribed and its channel has room; the event is gone in any case.
ForwardToAgent(t, room) ==
    /\ t \notin Proxied
    /\ events[t] > 0
    /\ events' = [events EXCEPT ![t] = @ - 1]
    /\ known' = [known EXCEPT ![t] = @ \/ room]
    /\ UNCHANGED <<ost, wst, msgs, running, lost, regs, reached, cancelO, cancelW, overtaken>>

\* An accepted TransitionTask followed by the send of the new status.
TransitionAndSend(t, s) ==
    /\ known[t]
    /\ Accepts(wst[t], s)
    /\ wst' = [wst EXCEPT ![t] = s]
    /\ reached' = [reached EXCEPT ![t] = @ \cup {s}]
    /\ SendToOriginator(t, s)
    /\ UNCHANGED <<ost, events, running, known, lost, regs, cancelO, cancelW, overtaken>>

\* Mutant: the update is sent before the engine has accepted it.
UpdateTaskStatus_SendsFirst(t, s) ==
    /\ known[t]
    /\ TryTransition(t, s)
    /\ SendToOriginator(t, s)
    /\ UNCHANGED <<ost, events, running, known, lost, regs, cancelO, cancelW, overtaken>>

\* UpdateTaskStatus passes on any status that the engine accepts.
UpdateTaskStatus(t, s) == TransitionAndSend(t, s)

\* Mutant: the originator is not told.
CompleteTask_Unsent(t) ==
    /\ known[t]
    /\ Accepts(wst[t], "COMPLETED")
    /\ TryTransition(t, "COMPLETED")
    /\ UNCHANGED <<ost, msgs, events, running, known, lost, regs, cancelO, cancelW, overtaken>>

CompleteTask(t) == TransitionAndSend(t, "COMPLETED")

FailTask(t) == TransitionAndSend(t, "FAILED")

\* CancelTask on a record that came from a peer: the goroutine with SendFail is
\* started before TransitionTask is asked, so the envelope goes out even when
\* the cancellation is then refused.
CancelTaskAtWorker(t) ==
    /\ known[t]
    /\ SendToOriginator(t, "FAILED")
    /\ TryTransition(t, "CANCELED")
    /\ cancelW' = [cancelW EXCEPT ![t] = TRUE]
    /\ UNCHANGED <<ost, events, running, known, lost, regs, cancelO, overtaken>>

\* forwardIncomingTasks for a proxied task, and handleMCPProxyTask up to the
\* proxy call: the record becomes WORKING, and the originator is not told.
StartProxyTask(t) ==
    /\ t \in Proxied
    /\ events[t] > 0
    /\ events' = [events EXCEPT ![t] = @ - 1]
    /\ running' = [running EXCEPT ![t] = @ + 1]
    /\ TryTransition(t, "WORKING")
    /\ UNCHANGED <<ost, msgs, known, lost, regs, cancelO, cancelW, overtaken>>

\* handleMCPProxyTask after the proxy call: errors of TransitionTask are
\* ignored and the outcome is sent.
FinishProxyTask(t, s) ==
    /\ running[t] > 0
    /\ running' = [running EXCEPT ![t] = @ - 1]
    /\ TryTransition(t, s)
    /\ SendToOriginator(t, s)
    /\ UNCHANGED <<ost, events, known, lost, regs, cancelO, cancelW, overtaken>>

-----------------------------------------------------------------------------

\* An envelope is lost for good (the reasons are those of Delivery).
Lose(t, s) ==
    /\ msgs[t][s] > 0
    /\ lost < MaxLoss
    /\ lost' = lost + 1
    /\ msgs' = [msgs EXCEPT ![t][s] = @ - 1]
    /\ UNCHANGED <<ost, wst, events, running, known, regs, reached, cancelO, cancelW, overtaken>>

Next ==
    \E t \in Tasks :
        \/ SendTask(t)
        \/ CancelTaskAtOriginator(t)
        \/ \E s \in Statuses : Deliver(t, s)
        \/ \E room \in BOOLEAN : HandleSendTask(t, room)
        \/ \E room \in BOOLEAN : ForwardToAgent(t, room)
        \/ \E s \in Statuses : UpdateTaskStatus(t, s)
        \/ CompleteTask(t)
        \/ FailTask(t)
        \/ CancelTaskAtWorker(t)
        \/ StartProxyTask(t)
        \/ \E s \in {"COMPLETED", "FAILED"} : FinishProxyTask(t, s)
        \/ \E s \in Statuses : Lose(t, s)

Spec == Init /\ [][Next]_vars

\* The daemons go on by themselves: envelopes are delivered, the first SEND_TASK
\* is handled, events are forwarded, proxy calls return.  The agents and the
\* users of CancelTask owe nothing.
Fairness ==
    \A t \in Tasks :
        /\ \A s \in Statuses : WF_vars(Deliver(t, s))
        /\ WF_vars(regs[t] = 0 /\ \E room \in BOOLEAN : HandleSendTask(t, room))
        /\ WF_vars(\E room \in BOOLEAN : ForwardToAgent(t, room))
        /\ WF_vars(StartProxyTask(t))
        /\ WF_vars(\E s \in {"COMPLETED", "FAILED"} : FinishProxyTask(t, s))

FairSpec == Spec /\ Fairness

-----------------------------------------------------------------------------
(* Properties *)

\* Type invariant.
TypeOK ==
    /\ ost \in [Tasks -> Statuses \cup {None}]
    /\ wst \in [Tasks -> Statuses \cup {None}]
    /\ msgs \in [Tasks -> [Statuses -> 0..MaxMsgs]]
    /\ events \in [Tasks -> 0..MaxReg]
    /\ running \in [Tasks -> 0..MaxReg]
    /\ known \in [Tasks -> BOOLEAN]
    /\ lost \in 0..MaxLoss
    /\ regs \in [Tasks -> 0..MaxReg]
    /\ reached \in [Tasks -> SUBSET Statuses]
    /\ cancelO \in [Tasks -> BOOLEAN]
    /\ cancelW \in [Tasks -> BOOLEAN]
    /\ overtaken \in [Tasks -> BOOLEAN]

\* The statuses that can still follow s, s included.
Reach(s) ==
    CASE s = "SUBMITTED" -> Statuses
      [] s \in {"WORKING", "INPUT_REQUIRED"} ->
            {"WORKING", "INPUT_REQUIRED", "COMPLETED", "FAILED", "CANCELED"}
      [] OTHER -> {s}

\* Whatever is reordered, lost or registered again, the originator never shows
\* an outcome that the worker's record did not have: it shows SUBMITTED, a
\* status the worker has had, its own cancellation, or the FAILED by which the
\* worker's CancelTask announces itself.
OriginatorFollows ==
    \A t \in Tasks :
        \/ ost[t] \in {None, "SUBMITTED"} \cup reached[t]
        \/ ost[t] = "CANCELED" /\ cancelO[t]
        \/ ost[t] = "FAILED" /\ cancelW[t]

\* While nobody cancels and the task is registered once, the originator is never
\* ahead and never on another branch: the worker's status can still follow the
\* one the originator shows.  In particular two terminal statuses are equal.
OriginatorBehind ==
    \A t \in Tasks :
        ~cancelO[t] /\ ~cancelW[t] /\ regs[t] = 1 => wst[t] \in Reach(ost[t])

\* How the two sides of a finished task can end up apart (server.go:826, 261): when
\* nothing is on its way any more, nothing was lost, nobody canceled and the task was
\* registered once, the originator has the worker's outcome unless an envelope was
\* refused because it overtook another, or the task was the MCP proxy's, which sends
\* the result and no update before it.
ApartOnlyByOvertaking ==
    \A t \in Tasks :
        /\ wst[t] \in Terminal /\ \A s \in Statuses : msgs[t][s] = 0
        /\ lost = 0 /\ regs[t] = 1 /\ ~cancelO[t] /\ ~cancelW[t]
        => ost[t] = wst[t] \/ overtaken[t] \/ t \in Proxied

\* server.go:826 "Send completion to originator peer" and server.go:255 "sends
\* the result back to the originator": if no envelope is lost, the originator
\* of a completed task sees it completed, unless one side cancels it.
\* Not what the code does: see "Disagreements" in README.md.
ResultReachesOriginator ==
    \A t \in Tasks :
        wst[t] = "COMPLETED" /\ ~cancelW[t] ~>
            ost[t] = "COMPLETED" \/ cancelO[t] \/ cancelW[t]

\* server.go:687 "Send cancel to remote peer": a task that its originator has
\* canceled comes to an end at the worker.
\* Not what the code does: see "Disagreements" in README.md.
CancelReachesWorker ==
    \A t \in Tasks :
        cancelO[t] /\ wst[t] # None ~> wst[t] \in Terminal

\* server.go:687 "Send cancel to remote peer", seen from the worker: when both
\* sides have a final status after a CancelTask there, it is the same one.
\* Not what the code does: see "Disagreements" in README.md.
CancelAgrees ==
    \A t \in Tasks :
        /\ ~cancelO[t] /\ regs[t] = 1
        /\ ost[t] \in Terminal /\ wst[t] \in Terminal
        => ost[t] = wst[t]

=============================================================================

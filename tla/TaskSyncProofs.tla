--------------------------- MODULE TaskSyncProofs ---------------------------
(***************************************************************************)
(* Theorems about TaskSync, for any tasks and every bound: what the        *)
(* originator's record of a task may show while the envelopes about it     *)
(* are reordered, repeated and lost.                                       *)
(***************************************************************************)
EXTENDS TaskSync, TLAPS

\* An event in incomingCh, or a running proxy call, comes from a registration.
EventInv == \A t \in Tasks : events[t] + running[t] <= regs[t]

\* Before the worker has registered t nothing has happened but what the originator did.
Fresh(t) ==
    regs[t] = 0 =>
        /\ wst[t] = None /\ ~known[t]
        /\ \A s \in Statuses : msgs[t][s] = 0
        /\ ost[t] \in {None, "SUBMITTED"} \/ (ost[t] = "CANCELED" /\ cancelO[t])

Registered(t) == regs[t] > 0 => ost[t] # None /\ wst[t] # None

\* The MCP proxy reports outcomes only, and none of them is accepted.
ProxyReports(t) ==
    t \in Proxied =>
        /\ ~known[t]
        /\ \A s \in Statuses : msgs[t][s] > 0 => s \in {"COMPLETED", "FAILED"}
        /\ ost[t] \in {None, "SUBMITTED"} \/ (ost[t] = "CANCELED" /\ cancelO[t])

\* What an agent's calls report has happened, or is the FAILED of a CancelTask.
AgentReports(t) ==
    t \notin Proxied =>
        /\ running[t] = 0
        /\ \A s \in Statuses : msgs[t][s] > 0 =>
              s \in reached[t] \/ (s = "FAILED" /\ cancelW[t])

\* OriginatorFollows for one task.
Follows(t) ==
    \/ ost[t] \in {None, "SUBMITTED"} \cup reached[t]
    \/ ost[t] = "CANCELED" /\ cancelO[t]
    \/ ost[t] = "FAILED" /\ cancelW[t]

\* What is on its way is no further than the worker.
MsgsBehind(t) ==
    t \notin Proxied /\ ~cancelW[t] /\ regs[t] = 1 =>
        \A s \in Statuses : msgs[t][s] > 0 => wst[t] \in Reach(s)

\* OriginatorBehind for one task.
Behind(t) == ~cancelO[t] /\ ~cancelW[t] /\ regs[t] = 1 => wst[t] \in Reach(ost[t])

\* Nobody can ask for SUBMITTED.
NoSubmitted(t) == msgs[t]["SUBMITTED"] = 0

\* The premises under which the envelopes on their way lead from the originator's status
\* to the worker's.
Undisturbed(t) ==
    /\ t \notin Proxied /\ lost = 0 /\ regs[t] = 1
    /\ ~cancelO[t] /\ ~cancelW[t] /\ ~overtaken[t]

\* 1 for WORKING, 0 for the statuses before and after it.
Busy(s) == IF s = "WORKING" THEN 1 ELSE 0

\* The balance of an undisturbed task whose originator has no outcome yet: WORKING and
\* INPUT_REQUIRED alternate, so that the difference of their envelopes tells how far the
\* originator is behind; and an outcome that it has not seen is on its way.
Balanced(t) ==
    LET ahead == msgs[t]["WORKING"] - msgs[t]["INPUT_REQUIRED"]
    IN  Undisturbed(t) /\ ost[t] \notin Terminal =>
            /\ wst[t] \in {"SUBMITTED", "REJECTED"} =>
                  /\ ost[t] = "SUBMITTED"
                  /\ msgs[t]["WORKING"] = 0 /\ msgs[t]["INPUT_REQUIRED"] = 0
            /\ wst[t] \in {"WORKING", "COMPLETED", "FAILED"} => ahead = 1 - Busy(ost[t])
            /\ wst[t] = "INPUT_REQUIRED" => ahead = 0 - Busy(ost[t])
            /\ wst[t] \in Terminal => msgs[t][wst[t]] > 0

TaskInv(t) ==
    /\ Fresh(t) /\ Registered(t) /\ NoSubmitted(t)
    /\ ProxyReports(t) /\ AgentReports(t) /\ Follows(t)
    /\ MsgsBehind(t) /\ Behind(t) /\ Balanced(t)

TypeInv == TypeOK /\ EventInv
IndInv  == TypeInv /\ \A t \in Tasks : TaskInv(t)

-----------------------------------------------------------------------------

\* Initially there are no records and no envelopes.
LEMMA InitInv == Init => IndInv
<1> SUFFICES ASSUME Init PROVE IndInv
  OBVIOUS
<1> USE NoneAssumption, BoundsAssumption DEF Init
<1>1. TypeInv
  BY DEF TypeInv, TypeOK, EventInv
<1>2. ASSUME NEW t \in Tasks PROVE TaskInv(t)
  BY DEF TaskInv, Fresh, Registered, NoSubmitted, ProxyReports, AgentReports, Follows, MsgsBehind,
         Behind, Balanced, Undisturbed, Statuses
<1>3. QED
  BY <1>1, <1>2 DEF IndInv

\* Statuses and edges, as the leaves need them.
LEMMA StatusFacts ==
    /\ \A s \in Statuses \cup {None} : \A r :
          Accepts(s, r) => s \in Statuses /\ r \in Statuses /\ r # "SUBMITTED"
    /\ None \notin Statuses
    /\ "SUBMITTED" \in Statuses /\ "WORKING" \in Statuses /\ "INPUT_REQUIRED" \in Statuses
    /\ "COMPLETED" \in Statuses /\ "FAILED" \in Statuses /\ "CANCELED" \in Statuses
  BY NoneAssumption DEF Accepts, validTransitions, Statuses, Terminal

\* TryTransition writes a status or nothing.
LEMMA TryType ==
    ASSUME TypeOK, NEW t \in Tasks, NEW s \in Statuses, TryTransition(t, s)
    PROVE  wst' \in [Tasks -> Statuses \cup {None}] /\ reached' \in [Tasks -> SUBSET Statuses]
<1>1. CASE wst[t] # None /\ Accepts(wst[t], s)
  <2>1. /\ wst' = [wst EXCEPT ![t] = s]
        /\ reached' = [reached EXCEPT ![t] = @ \cup {s}]
    BY <1>1 DEF TryTransition
  <2>2. QED
    BY <2>1 DEF TypeOK
<1>2. CASE ~(wst[t] # None /\ Accepts(wst[t], s))
  BY <1>2 DEF TypeOK, TryTransition
<1>3. QED
  BY <1>1, <1>2

\* SendToOriginator keeps the counts within their bound.
LEMMA SendType ==
    ASSUME TypeOK, NEW t \in Tasks, NEW s \in Statuses, SendToOriginator(t, s)
    PROVE  msgs' \in [Tasks -> [Statuses -> 0..MaxMsgs]]
  BY BoundsAssumption DEF TypeOK, SendToOriginator

\* Every step keeps the types.
LEMMA TypeStep == TypeInv /\ [Next]_vars => TypeInv'
<1> SUFFICES ASSUME TypeInv, [Next]_vars PROVE TypeInv'
  OBVIOUS
<1> USE StatusFacts, BoundsAssumption DEF TypeInv, TypeOK, EventInv
<1>1. ASSUME NEW t \in Tasks, SendTask(t) PROVE TypeInv'
  BY <1>1 DEF SendTask
<1>2. ASSUME NEW t \in Tasks, CancelTaskAtOriginator(t) PROVE TypeInv'
  BY <1>2 DEF CancelTaskAtOriginator
<1>3. ASSUME NEW t \in Tasks, NEW s \in Statuses, Deliver(t, s) PROVE TypeInv'
  <2>1. overtaken' \in [Tasks -> BOOLEAN]
    BY <1>3 DEF Deliver
  <2>2. msgs' \in [Tasks -> [Statuses -> 0..MaxMsgs]] /\ ost' \in [Tasks -> Statuses \cup {None}]
    BY <1>3 DEF Deliver
  <2>3. QED
    BY <1>3, <2>1, <2>2 DEF Deliver
<1>4. ASSUME NEW t \in Tasks, NEW room \in BOOLEAN, HandleSendTask(t, room) PROVE TypeInv'
  BY <1>4 DEF HandleSendTask
<1>5. ASSUME NEW t \in Tasks, NEW room \in BOOLEAN, ForwardToAgent(t, room) PROVE TypeInv'
  BY <1>5 DEF ForwardToAgent
<1>6. ASSUME NEW t \in Tasks, NEW s \in Statuses, TransitionAndSend(t, s) PROVE TypeInv'
  <2>1. msgs' \in [Tasks -> [Statuses -> 0..MaxMsgs]]
    BY <1>6, SendType DEF TransitionAndSend
  <2>2. QED
    BY <1>6, <2>1 DEF TransitionAndSend
<1>7. ASSUME NEW t \in Tasks, CancelTaskAtWorker(t) PROVE TypeInv'
  <2>1. msgs' \in [Tasks -> [Statuses -> 0..MaxMsgs]]
    BY <1>7, SendType DEF CancelTaskAtWorker
  <2>2. wst' \in [Tasks -> Statuses \cup {None}] /\ reached' \in [Tasks -> SUBSET Statuses]
    BY <1>7, TryType DEF CancelTaskAtWorker
  <2>3. QED
    BY <1>7, <2>1, <2>2 DEF CancelTaskAtWorker
<1>8. ASSUME NEW t \in Tasks, StartProxyTask(t) PROVE TypeInv'
  <2>1. wst' \in [Tasks -> Statuses \cup {None}] /\ reached' \in [Tasks -> SUBSET Statuses]
    BY <1>8, TryType DEF StartProxyTask
  <2>2. /\ events' = [events EXCEPT ![t] = @ - 1] /\ running' = [running EXCEPT ![t] = @ + 1]
        /\ events[t] > 0 /\ events[t] + running[t] <= regs[t]
        /\ UNCHANGED <<ost, msgs, known, lost, regs, cancelO, cancelW, overtaken>>
    BY <1>8 DEF StartProxyTask
  <2>3. events' \in [Tasks -> 0..MaxReg] /\ running' \in [Tasks -> 0..MaxReg]
    BY <2>2
  <2>4. EventInv'
    BY <2>2
  <2>5. QED
    BY <2>1, <2>2, <2>3, <2>4
<1>9. ASSUME NEW t \in Tasks, NEW s \in {"COMPLETED", "FAILED"}, FinishProxyTask(t, s) PROVE TypeInv'
  <2>1. msgs' \in [Tasks -> [Statuses -> 0..MaxMsgs]]
    BY <1>9, SendType DEF FinishProxyTask
  <2>2. wst' \in [Tasks -> Statuses \cup {None}] /\ reached' \in [Tasks -> SUBSET Statuses]
    BY <1>9, TryType DEF FinishProxyTask
  <2>3. /\ running[t] > 0 /\ running' = [running EXCEPT ![t] = @ - 1]
        /\ UNCHANGED <<ost, events, known, lost, regs, cancelO, cancelW, overtaken>>
    BY <1>9 DEF FinishProxyTask
  <2>4. running' \in [Tasks -> 0..MaxReg] /\ EventInv'
    BY <2>3
  <2>5. QED
    BY <2>1, <2>2, <2>3, <2>4
<1>10. ASSUME NEW t \in Tasks, NEW s \in Statuses, Lose(t, s) PROVE TypeInv'
  BY <1>10 DEF Lose
<1>11. CASE UNCHANGED vars
  BY <1>11 DEF vars
<1>12. QED
  BY <1>1, <1>2, <1>3, <1>4, <1>5, <1>6, <1>7, <1>8, <1>9, <1>10, <1>11
     DEF Next, UpdateTaskStatus, CompleteTask, FailTask

\* Type correctness of the two records and of what is between them.
THEOREM TypeCorrect == Spec => []TypeOK
<1>1. Spec => []TypeInv
  BY InitInv, TypeStep, PTL DEF Spec, IndInv
<1>2. TypeInv => TypeOK
  BY DEF TypeInv
<1>3. QED
  BY <1>1, <1>2, PTL

-----------------------------------------------------------------------------

\* A step that does not concern task x.
Same(x) ==
    /\ ost'[x] = ost[x] /\ wst'[x] = wst[x] /\ msgs'[x] = msgs[x]
    /\ running'[x] = running[x] /\ known'[x] = known[x]
    /\ regs'[x] = regs[x] /\ reached'[x] = reached[x]
    /\ cancelO'[x] = cancelO[x] /\ cancelW'[x] = cancelW[x] /\ overtaken'[x] = overtaken[x]

\* It leaves what is known of x alone; a loss elsewhere only weakens it.
LEMMA SameKeeps ==
    ASSUME NEW x \in Tasks, TaskInv(x), Same(x), lost' = 0 => lost = 0
    PROVE  TaskInv(x)'
<1>1. (Fresh(x) /\ Registered(x) /\ NoSubmitted(x))'
  BY DEF TaskInv, Same, Fresh, Registered, NoSubmitted
<1>2. (ProxyReports(x) /\ AgentReports(x) /\ Follows(x))'
  BY DEF TaskInv, Same, ProxyReports, AgentReports, Follows
<1>3. (MsgsBehind(x) /\ Behind(x))'
  BY DEF TaskInv, Same, MsgsBehind, Behind
<1>4. Balanced(x)'
  BY DEF TaskInv, Same, Balanced, Undisturbed
<1>5. QED
  BY <1>1, <1>2, <1>3, <1>4 DEF TaskInv

\* The step of one task.
TaskStep(t) ==
    \/ SendTask(t) \/ CancelTaskAtOriginator(t)
    \/ \E s \in Statuses : Deliver(t, s)
    \/ \E room \in BOOLEAN : HandleSendTask(t, room) \/ ForwardToAgent(t, room)
    \/ \E s \in Statuses : TransitionAndSend(t, s)
    \/ CancelTaskAtWorker(t) \/ StartProxyTask(t)
    \/ \E s \in {"COMPLETED", "FAILED"} : FinishProxyTask(t, s)
    \/ \E s \in Statuses : Lose(t, s)

\* It concerns no other.
LEMMA OthersSame ==
    ASSUME TypeInv, NEW t \in Tasks, TaskStep(t), NEW x \in Tasks, x # t
    PROVE  Same(x) /\ (lost' = 0 => lost = 0)
<1> USE DEF TypeInv, TypeOK, Same, TryTransition, SendToOriginator
<1>1. CASE SendTask(t) \/ CancelTaskAtOriginator(t)
  BY <1>1 DEF SendTask, CancelTaskAtOriginator
<1>2. ASSUME NEW s \in Statuses, Deliver(t, s) PROVE Same(x) /\ (lost' = 0 => lost = 0)
  BY <1>2 DEF Deliver
<1>3. CASE \E room \in BOOLEAN : HandleSendTask(t, room) \/ ForwardToAgent(t, room)
  BY <1>3 DEF HandleSendTask, ForwardToAgent
<1>4. ASSUME NEW s \in Statuses, TransitionAndSend(t, s) PROVE Same(x) /\ (lost' = 0 => lost = 0)
  BY <1>4 DEF TransitionAndSend
<1>5. CASE CancelTaskAtWorker(t)
  BY <1>5 DEF CancelTaskAtWorker
<1>6. CASE StartProxyTask(t)
  BY <1>6 DEF StartProxyTask
<1>7. ASSUME NEW s \in {"COMPLETED", "FAILED"}, FinishProxyTask(t, s)
      PROVE  Same(x) /\ (lost' = 0 => lost = 0)
  BY <1>7 DEF FinishProxyTask
<1>8. ASSUME NEW s \in Statuses, Lose(t, s) PROVE Same(x) /\ (lost' = 0 => lost = 0)
  BY <1>8 DEF Lose
<1>9. QED
  BY <1>1, <1>2, <1>3, <1>4, <1>5, <1>6, <1>7, <1>8 DEF TaskStep

-----------------------------------------------------------------------------

\* What follows what follows s, follows s.
LEMMA ReachStep ==
    ASSUME NEW s \in Statuses, NEW w \in Reach(s), NEW r, Accepts(w, r)
    PROVE  r \in Reach(s)
  BY DEF Reach, Statuses, Accepts, validTransitions, Terminal

\* Every status follows itself and SUBMITTED.
LEMMA ReachSelf ==
    ASSUME NEW s \in Statuses
    PROVE  s \in Reach(s) /\ s \in Reach("SUBMITTED")
  BY DEF Reach, Statuses

\* Nothing follows a terminal status.
LEMMA ReachTerminal ==
    ASSUME NEW s \in Terminal
    PROVE  Reach(s) = {s}
  BY DEF Reach, Terminal

\* SendTask and the originator's CancelTask.
LEMMA OriginatorStep ==
    ASSUME TypeInv, NEW t \in Tasks, TaskInv(t), SendTask(t) \/ CancelTaskAtOriginator(t)
    PROVE  TaskInv(t)'
<1> USE StatusFacts DEF TaskInv, TypeInv, TypeOK
<1>1. /\ \/ ost[t] = None /\ ost'[t] = "SUBMITTED" /\ cancelO'[t] = cancelO[t]
         \/ ost[t] # None /\ ost'[t] = "CANCELED" /\ cancelO'[t]
      /\ UNCHANGED <<wst, msgs, events, running, known, lost, regs, reached, cancelW, overtaken>>
  BY DEF SendTask, CancelTaskAtOriginator
<1>2. (Fresh(t) /\ Registered(t) /\ NoSubmitted(t))'
  BY <1>1 DEF Fresh, Registered, NoSubmitted
<1>3. (ProxyReports(t) /\ AgentReports(t) /\ Follows(t))'
  BY <1>1 DEF ProxyReports, AgentReports, Follows
<1>4. (MsgsBehind(t) /\ Behind(t))'
  BY <1>1 DEF MsgsBehind, Behind, Registered
<1>5. Balanced(t)'
  BY <1>1 DEF Balanced, Undisturbed, Registered
<1>6. QED
  BY <1>2, <1>3, <1>4, <1>5

\* handleSendTask and the forwarding of its event.
LEMMA RegisterStep ==
    ASSUME TypeInv, NEW t \in Tasks, TaskInv(t), NEW room \in BOOLEAN,
           HandleSendTask(t, room) \/ ForwardToAgent(t, room)
    PROVE  TaskInv(t)'
<1> USE StatusFacts DEF TaskInv, TypeInv, TypeOK
<1>1. CASE HandleSendTask(t, room)
  <2>1. /\ ost[t] # None /\ regs'[t] = regs[t] + 1 /\ wst'[t] = "SUBMITTED"
        /\ reached'[t] = reached[t] \cup {"SUBMITTED"}
        /\ UNCHANGED <<ost, msgs, running, known, lost, cancelO, cancelW, overtaken>>
    BY <1>1 DEF HandleSendTask
  <2>2. regs'[t] = 1 => regs[t] = 0
    BY <2>1
  <2>3. (Fresh(t) /\ Registered(t) /\ NoSubmitted(t))'
    BY <2>1 DEF Fresh, Registered, NoSubmitted
  <2>4. (ProxyReports(t) /\ AgentReports(t) /\ Follows(t))'
    BY <2>1 DEF ProxyReports, AgentReports, Follows
  <2>5. (MsgsBehind(t) /\ Behind(t))'
    BY <2>1, <2>2, ReachSelf DEF MsgsBehind, Behind, Fresh
  <2>6. Balanced(t)'
    BY <2>1, <2>2 DEF Balanced, Undisturbed, Fresh, Terminal
  <2>7. QED
    BY <2>3, <2>4, <2>5, <2>6
<1>2. CASE ForwardToAgent(t, room)
  <2>1. /\ t \notin Proxied /\ regs[t] > 0
        /\ UNCHANGED <<ost, wst, msgs, running, lost, regs, reached, cancelO, cancelW, overtaken>>
    BY <1>2 DEF ForwardToAgent, EventInv
  <2>2. (Fresh(t) /\ Registered(t) /\ NoSubmitted(t))'
    BY <2>1 DEF Fresh, Registered, NoSubmitted
  <2>3. (ProxyReports(t) /\ AgentReports(t) /\ Follows(t))'
    BY <2>1 DEF ProxyReports, AgentReports, Follows
  <2>4. (MsgsBehind(t) /\ Behind(t))'
    BY <2>1 DEF MsgsBehind, Behind
  <2>5. Balanced(t)'
    BY <2>1 DEF Balanced, Undisturbed
  <2>6. QED
    BY <2>2, <2>3, <2>4, <2>5
<1>3. QED
  BY <1>1, <1>2

\* UpdateTaskStatus, CompleteTask and FailTask.
LEMMA AgentStep ==
    ASSUME TypeInv, NEW t \in Tasks, TaskInv(t), NEW s \in Statuses, TransitionAndSend(t, s)
    PROVE  TaskInv(t)'
<1> USE StatusFacts DEF TaskInv, TypeInv, TypeOK
<1>1. /\ known[t] /\ Accepts(wst[t], s) /\ wst'[t] = s /\ reached'[t] = reached[t] \cup {s}
      /\ msgs'[t] = [msgs[t] EXCEPT ![s] = @ + 1]
      /\ UNCHANGED <<ost, running, known, lost, regs, cancelO, cancelW, overtaken>>
  BY DEF TransitionAndSend, SendToOriginator
<1>2. /\ t \notin Proxied /\ regs[t] > 0 /\ wst[t] \in Statuses /\ s # "SUBMITTED"
      /\ msgs[t] \in [Statuses -> 0..MaxMsgs] /\ ost[t] \in Statuses
  BY <1>1 DEF ProxyReports, Fresh, Registered
<1>3. (Fresh(t) /\ Registered(t) /\ NoSubmitted(t))'
  BY <1>1, <1>2 DEF Fresh, Registered, NoSubmitted
<1>4. (ProxyReports(t) /\ AgentReports(t) /\ Follows(t))'
  BY <1>1, <1>2 DEF ProxyReports, AgentReports, Follows
<1>5. MsgsBehind(t)'
  BY <1>1, <1>2, ReachStep, ReachSelf DEF MsgsBehind
<1>6. Behind(t)'
  BY <1>1, <1>2, ReachStep DEF Behind
<1>7. Balanced(t)'
  <2> SUFFICES ASSUME Undisturbed(t), ost[t] \notin Terminal
               PROVE  Balanced(t)'
    BY <1>1 DEF Balanced, Undisturbed
  <2>1. /\ msgs[t]["WORKING"] \in Nat /\ msgs[t]["INPUT_REQUIRED"] \in Nat /\ msgs[t][s] \in Nat
        /\ s \in validTransitions(wst[t]) /\ wst[t] \notin Terminal
    BY <1>1, <1>2, BoundsAssumption DEF Accepts
  <2>2. CASE wst[t] = "SUBMITTED"
    BY <1>1, <1>2, <2>1, <2>2 DEF Balanced, Undisturbed, validTransitions, Busy, Terminal
  <2>3. CASE wst[t] = "WORKING"
    BY <1>1, <1>2, <2>1, <2>3 DEF Balanced, Undisturbed, validTransitions, Busy, Terminal
  <2>4. CASE wst[t] = "INPUT_REQUIRED"
    BY <1>1, <1>2, <2>1, <2>4 DEF Balanced, Undisturbed, validTransitions, Busy, Terminal
  <2>5. QED
    BY <1>2, <2>1, <2>2, <2>3, <2>4 DEF Statuses, Terminal
<1>8. QED
  BY <1>3, <1>4, <1>5, <1>6, <1>7

\* The worker's CancelTask.
LEMMA CancelStep ==
    ASSUME TypeInv, NEW t \in Tasks, TaskInv(t), CancelTaskAtWorker(t)
    PROVE  TaskInv(t)'
<1> USE StatusFacts DEF TaskInv, TypeInv, TypeOK
<1>1. /\ known[t] /\ cancelW'[t]
      /\ msgs'[t] = [msgs[t] EXCEPT !["FAILED"] = @ + 1]
      /\ reached[t] \subseteq reached'[t] /\ (wst[t] # None => wst'[t] # None)
      /\ UNCHANGED <<ost, running, known, lost, regs, cancelO, overtaken>>
  BY DEF CancelTaskAtWorker, SendToOriginator, TryTransition
<1>2. t \notin Proxied /\ regs[t] > 0 /\ msgs[t] \in [Statuses -> 0..MaxMsgs]
  BY <1>1 DEF ProxyReports, Fresh
<1>3. (Fresh(t) /\ Registered(t) /\ NoSubmitted(t))'
  BY <1>1, <1>2 DEF Fresh, Registered, NoSubmitted
<1>4. (ProxyReports(t) /\ AgentReports(t) /\ Follows(t))'
  BY <1>1, <1>2 DEF ProxyReports, AgentReports, Follows
<1>5. (MsgsBehind(t) /\ Behind(t) /\ Balanced(t))'
  BY <1>1 DEF MsgsBehind, Behind, Balanced, Undisturbed
<1>6. QED
  BY <1>3, <1>4, <1>5

\* handleMCPProxyTask, before and after the proxy call.
LEMMA ProxyStep ==
    ASSUME TypeInv, NEW t \in Tasks, TaskInv(t), NEW s \in {"COMPLETED", "FAILED"},
           StartProxyTask(t) \/ FinishProxyTask(t, s)
    PROVE  TaskInv(t)'
<1> USE StatusFacts DEF TaskInv, TypeInv, TypeOK
<1>1. /\ t \in Proxied /\ regs[t] > 0
      /\ reached[t] \subseteq reached'[t] /\ (wst[t] # None => wst'[t] # None)
      /\ wst'[t] \in Statuses \cup {None}
      /\ UNCHANGED <<ost, known, lost, regs, cancelO, cancelW, overtaken>>
      /\ msgs'[t] = msgs[t] \/ msgs'[t] = [msgs[t] EXCEPT ![s] = @ + 1]
  <2>1. CASE StartProxyTask(t)
    BY <2>1 DEF StartProxyTask, TryTransition, EventInv
  <2>2. CASE FinishProxyTask(t, s)
    BY <2>2 DEF FinishProxyTask, TryTransition, SendToOriginator, EventInv, AgentReports
  <2>3. QED
    BY <2>1, <2>2
<1>2. msgs[t] \in [Statuses -> 0..MaxMsgs]
  OBVIOUS
<1>3. (Fresh(t) /\ Registered(t) /\ NoSubmitted(t))'
  BY <1>1, <1>2 DEF Fresh, Registered, NoSubmitted
<1>4. (ProxyReports(t) /\ AgentReports(t) /\ Follows(t))'
  BY <1>1, <1>2 DEF ProxyReports, AgentReports, Follows
<1>5. (MsgsBehind(t) /\ Balanced(t))'
  BY <1>1 DEF MsgsBehind, Balanced, Undisturbed
<1>6. Behind(t)'
  BY <1>1, ReachSelf DEF Behind, ProxyReports, Registered
<1>7. QED
  BY <1>3, <1>4, <1>5, <1>6

\* An envelope is lost.
LEMMA LoseStep ==
    ASSUME TypeInv, NEW t \in Tasks, TaskInv(t), NEW s \in Statuses, Lose(t, s)
    PROVE  TaskInv(t)'
<1> USE StatusFacts DEF TaskInv, TypeInv, TypeOK
<1>1. /\ msgs[t][s] > 0 /\ msgs'[t] = [msgs[t] EXCEPT ![s] = @ - 1] /\ lost' # 0
      /\ UNCHANGED <<ost, wst, running, known, regs, reached, cancelO, cancelW, overtaken>>
  BY BoundsAssumption DEF Lose
<1>2. \A r \in Statuses : msgs'[t][r] > 0 => msgs[t][r] > 0
  BY <1>1
<1>3. (Fresh(t) /\ Registered(t) /\ NoSubmitted(t))'
  BY <1>1 DEF Fresh, Registered, NoSubmitted
<1>4. (ProxyReports(t) /\ AgentReports(t) /\ Follows(t))'
  BY <1>1, <1>2 DEF ProxyReports, AgentReports, Follows
<1>5. (MsgsBehind(t) /\ Behind(t))'
  BY <1>1, <1>2 DEF MsgsBehind, Behind
<1>6. Balanced(t)'
  BY <1>1 DEF Balanced, Undisturbed
<1>7. QED
  BY <1>3, <1>4, <1>5, <1>6

\* handleTaskStatusUpdate, handleTaskComplete and handleTaskFail.
LEMMA DeliverStep ==
    ASSUME TypeInv, NEW t \in Tasks, TaskInv(t), NEW s \in Statuses, Deliver(t, s)
    PROVE  TaskInv(t)'
<1> USE StatusFacts DEF TaskInv, TypeInv, TypeOK
<1> DEFINE accepted == ost[t] # None /\ Accepts(ost[t], s)
           others   == \E r \in Statuses : msgs'[t][r] > 0
<1>1. /\ msgs[t][s] > 0 /\ msgs'[t] = [msgs[t] EXCEPT ![s] = @ - 1]
      /\ ost'[t] = IF accepted THEN s ELSE ost[t]
      /\ UNCHANGED <<wst, running, known, lost, regs, reached, cancelO, cancelW>>
  BY DEF Deliver
<1>2. overtaken'[t] <=> overtaken[t] \/ (~accepted /\ others)
  BY DEF Deliver
<1>3. /\ msgs[t] \in [Statuses -> 0..MaxMsgs] /\ msgs'[t] \in [Statuses -> 0..MaxMsgs]
      /\ \A r \in Statuses : msgs'[t][r] > 0 => msgs[t][r] > 0
      /\ regs[t] > 0 /\ ost[t] \in Statuses /\ wst[t] \in Statuses /\ s # "SUBMITTED"
  BY <1>1, BoundsAssumption DEF Fresh, Registered, NoSubmitted
<1>4. (Fresh(t) /\ Registered(t) /\ NoSubmitted(t))'
  BY <1>1, <1>3 DEF Fresh, Registered, NoSubmitted
<1>5. (ProxyReports(t) /\ AgentReports(t) /\ Follows(t))'
  <2>1. CASE t \in Proxied
    <3>1. ~accepted
      BY <1>1, <2>1 DEF ProxyReports, Accepts, validTransitions, Terminal
    <3>2. QED
      BY <1>1, <1>3, <2>1, <3>1 DEF ProxyReports, AgentReports, Follows
  <2>2. CASE t \notin Proxied
    BY <1>1, <1>3, <2>2 DEF ProxyReports, AgentReports, Follows
  <2>3. QED
    BY <2>1, <2>2
<1>6. MsgsBehind(t)'
  BY <1>1, <1>3 DEF MsgsBehind
<1>7. Behind(t)'
  <2>1. CASE t \in Proxied
    BY <1>1, <1>3, <1>5, <2>1, ReachSelf DEF Behind, ProxyReports
  <2>2. CASE t \notin Proxied
    BY <1>1, <2>2 DEF Behind, MsgsBehind
  <2>3. QED
    BY <2>1, <2>2
<1>8. Balanced(t)'
  <2> SUFFICES ASSUME Undisturbed(t)', ost'[t] \notin Terminal
               PROVE  Balanced(t)'
    BY DEF Balanced
  <2>1. Undisturbed(t) /\ (accepted \/ ~others)
    BY <1>1, <1>2 DEF Undisturbed
  <2>2. /\ ost[t] \notin Terminal
        /\ wst[t] \in Reach(s)
    BY <1>1, <1>3, <2>1 DEF Undisturbed, MsgsBehind, Accepts
  <2>3. /\ msgs[t]["WORKING"] \in Nat /\ msgs[t]["INPUT_REQUIRED"] \in Nat /\ msgs[t][s] \in Nat
        /\ msgs[t][wst[t]] \in Nat
    BY <1>3, BoundsAssumption
  <2>4. CASE accepted
    <3>1. s \in {"WORKING", "INPUT_REQUIRED"} /\ ost'[t] = s
      BY <1>1, <1>3, <2>4 DEF Statuses, Terminal
    <3>2. s = "WORKING" => Busy(ost[t]) = 0 /\ Busy(ost'[t]) = 1
      BY <2>4, <3>1 DEF Accepts, validTransitions, Busy
    <3>3. s = "INPUT_REQUIRED" => Busy(ost[t]) = 1 /\ Busy(ost'[t]) = 0
      BY <2>4, <3>1 DEF Accepts, validTransitions, Busy
    <3>4. wst[t] \notin {"SUBMITTED", "REJECTED"}
      BY <1>1, <2>2, <3>1 DEF Reach
    <3>5. msgs'[t]["WORKING"] = msgs[t]["WORKING"] - Busy(s)
      BY <1>1, <1>3, <3>1 DEF Busy
    <3>6. msgs'[t]["INPUT_REQUIRED"] = msgs[t]["INPUT_REQUIRED"] - (1 - Busy(s))
      BY <1>1, <1>3, <3>1 DEF Busy
    <3>7. wst[t] \in Terminal => msgs'[t][wst[t]] = msgs[t][wst[t]]
      BY <1>1, <1>3, <3>1 DEF Terminal
    <3>8. QED
      BY <1>1, <2>1, <2>2, <2>3, <3>1, <3>2, <3>3, <3>4, <3>5, <3>6, <3>7 DEF Balanced, Busy
  <2>5. CASE ~accepted
    \* The refused envelope is the only one, and the balance says it fits.
    <3>1. \A r \in Statuses : msgs'[t][r] = 0
      BY <1>3, <2>1, <2>5, BoundsAssumption
    <3>2. msgs[t][s] = 1 /\ \A r \in Statuses : r # s => msgs[t][r] = 0
      BY <1>1, <1>3, <3>1
    <3>3. CASE wst[t] \in Terminal
      <4>1. s = wst[t]
        BY <1>3, <2>1, <2>2, <3>2, <3>3 DEF Balanced
      <4>2. wst[t] = "REJECTED" => ost[t] = "SUBMITTED"
        BY <2>1, <2>2 DEF Balanced
      <4>3. wst[t] \in {"COMPLETED", "FAILED"} => ost[t] = "WORKING"
        BY <1>3, <2>1, <2>2, <3>2, <4>1 DEF Balanced, Busy
      <4>4. Accepts(ost[t], s)
        BY <1>3, <2>2, <3>3, <4>1, <4>2, <4>3 DEF Accepts, validTransitions, Statuses, Terminal
      <4>5. QED
        BY <1>3, <2>5, <4>4
    <3>4. CASE wst[t] \notin Terminal
      <4>1. s \in {"WORKING", "INPUT_REQUIRED"}
        BY <1>3, <2>2, <3>4 DEF Reach, Statuses, Terminal
      <4>2. s = "WORKING" => ost[t] # "WORKING"
        BY <1>3, <2>1, <2>2, <3>2, <3>4, <4>1 DEF Balanced, Busy, Statuses, Terminal
      <4>3. s = "INPUT_REQUIRED" => ost[t] = "WORKING"
        BY <1>3, <2>1, <2>2, <3>2, <3>4, <4>1 DEF Balanced, Busy, Statuses, Terminal
      <4>4. Accepts(ost[t], s)
        BY <1>3, <2>2, <4>1, <4>2, <4>3 DEF Accepts, validTransitions, Statuses, Terminal
      <4>5. QED
        BY <1>3, <2>5, <4>4
    <3>5. QED
      BY <3>3, <3>4
  <2>6. QED
    BY <2>4, <2>5
<1>9. QED
  BY <1>4, <1>5, <1>6, <1>7, <1>8

-----------------------------------------------------------------------------

\* The inductive invariant of the two views of a task.
THEOREM IndInvCorrect == Spec => []IndInv
<1>1. IndInv /\ [Next]_vars => IndInv'
  <2> SUFFICES ASSUME IndInv, [Next]_vars PROVE IndInv'
    OBVIOUS
  <2>1. TypeInv'
    BY TypeStep DEF IndInv
  <2>2. ASSUME NEW t \in Tasks, TaskStep(t), NEW x \in Tasks PROVE TaskInv(x)'
    <3>1. CASE x # t
      BY <2>2, <3>1, OthersSame, SameKeeps DEF IndInv
    <3>2. TaskInv(t)'
      BY <2>2, OriginatorStep, DeliverStep, RegisterStep, AgentStep, CancelStep, ProxyStep, LoseStep
         DEF TaskStep, IndInv
    <3>3. QED
      BY <3>1, <3>2
  <2>3. ASSUME UNCHANGED vars, NEW x \in Tasks PROVE TaskInv(x)'
    BY <2>3, SameKeeps DEF vars, Same, IndInv
  <2>4. Next => \E t \in Tasks : TaskStep(t)
    BY StatusFacts DEF Next, TaskStep, UpdateTaskStatus, CompleteTask, FailTask
  <2>5. QED
    BY <2>1, <2>2, <2>3, <2>4 DEF IndInv
<1>2. QED
  BY InitInv, <1>1, PTL DEF Spec

\* Whatever is reordered, lost or registered again, the originator shows no outcome the
\* worker did not have (router.go:227-334, server.go:677-869).
THEOREM OriginatorFollowsCorrect == Spec => []OriginatorFollows
<1>1. IndInv => OriginatorFollows
  BY DEF IndInv, TaskInv, Follows, OriginatorFollows
<1>2. QED
  BY IndInvCorrect, <1>1, PTL

\* While nobody cancels and the task is registered once, the originator is behind the
\* worker and never on another branch.
THEOREM OriginatorBehindCorrect == Spec => []OriginatorBehind
<1>1. IndInv => OriginatorBehind
  BY DEF IndInv, TaskInv, Behind, OriginatorBehind
<1>2. QED
  BY IndInvCorrect, <1>1, PTL

\* An undisturbed task ends with the same outcome on both sides, unless an envelope was
\* refused because it overtook another, or the task was the MCP proxy's.
THEOREM ApartOnlyByOvertakingCorrect == Spec => []ApartOnlyByOvertaking
<1>1. IndInv => ApartOnlyByOvertaking
  <2> SUFFICES ASSUME IndInv, NEW t \in Tasks,
                      wst[t] \in Terminal, \A s \in Statuses : msgs[t][s] = 0,
                      lost = 0, regs[t] = 1, ~cancelO[t], ~cancelW[t],
                      ~overtaken[t], t \notin Proxied
               PROVE  ost[t] = wst[t]
    BY DEF ApartOnlyByOvertaking
  <2>1. Balanced(t) /\ Behind(t) /\ Undisturbed(t)
    BY DEF IndInv, TaskInv, Undisturbed
  <2>2. wst[t] \in Statuses
    BY DEF Statuses, Terminal
  <2>3. ost[t] \in Terminal
    BY <2>1, <2>2 DEF Balanced
  <2>4. QED
    BY <2>1, <2>3, ReachTerminal DEF Behind
<1>2. QED
  BY IndInvCorrect, <1>1, PTL
=============================================================================

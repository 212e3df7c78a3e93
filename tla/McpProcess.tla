----------------------------- MODULE McpProcess -----------------------------
(***************************************************************************)
(* The MCP proxy's subprocess (internal/mcpproxy): concurrent calls are    *)
(* written to its stdin, one reader goroutine matches the lines of its     *)
(* stdout to the calls by request id.  A call waits for its answer, for    *)
(* its context and for the reader's exit; the reader never waits for a     *)
(* call, provided that a channel of capacity one is enough.                *)
(*                                                                         *)
(* The calls are the two of the handshake (DiscoverTools), in order, and   *)
(* then the tool calls that handleMCPProxyTask makes, all at once, each    *)
(* under a context of 60 seconds.  An answer is modelled by the call whose *)
(* request the subprocess answers, with a result or with an error.  The    *)
(* subprocess is external: it reads, answers in any order, may repeat an   *)
(* answer and may exit at any time.                                        *)
(***************************************************************************)
EXTENDS Naturals, Sequences, FiniteSets

CONSTANTS
    ToolCalls,   \* tools/call requests
    NoCall,      \* the id is not pending
    PipeCap,     \* bound: lines in the stdin pipe
    OutCap,      \* bound: lines in the stdout pipe
    MaxRepeats   \* bound: answers the subprocess repeats

Calls    == {"initialize", "tools/list"} \cup ToolCalls
Ids      == 1..Cardinality(Calls)
Outcomes == {"none", "empty", "exited", "ctx", "write"}

ASSUME ConstAssumption ==
    /\ IsFiniteSet(ToolCalls)
    /\ NoCall \notin Calls
    /\ ToolCalls \cap (Outcomes \cup {"initialize", "tools/list", "closed"}) = {}
    /\ PipeCap \in Nat \ {0} /\ OutCap \in Nat \ {0} /\ MaxRepeats \in Nat

Line == [id : Ids \cup {0}, call : Calls]

VARIABLES
    pc,        \* pc[c]: where call c is in Call
    id,        \* id[c]: its request id, 0 before it has one
    chan,      \* chan[c]: its channel: "none" (empty), "closed", or an answer
    ret,       \* ret[c]: what it returns: an answer, or one of Outcomes
    nextID,    \* p.nextID
    pending,   \* pending[i]: the call waiting for the answer with id i
    notified,  \* notifications/initialized has been written
    pipe,      \* lines written to stdin
    out,       \* lines of stdout
    todo,      \* requests the subprocess has read
    repeats,   \* answers repeated so far
    alive,     \* the subprocess runs
    reader,    \* readLoop: "read", "send", "signalled", "done"
    target,    \* the channel readLoop is sending to
    line,      \* the answer it is sending
    closer     \* Close: "open", "waiting", "draining", "closed"

callVars   == <<pc, id, chan, ret>>
serverVars == <<pipe, out, todo, repeats, alive>>
readerVars == <<reader, target, line>>
vars == <<callVars, nextID, pending, notified, serverVars, readerVars, closer>>

Init ==
    /\ pc       = [c \in Calls |-> "new"]
    /\ id       = [c \in Calls |-> 0]
    /\ chan     = [c \in Calls |-> "none"]
    /\ ret      = [c \in Calls |-> "none"]
    /\ nextID   = 0
    /\ pending  = [i \in Ids |-> NoCall]
    /\ notified = FALSE
    /\ pipe = <<>> /\ out = <<>> /\ todo = {} /\ repeats = 0 /\ alive = TRUE
    /\ reader = "read" /\ target = NoCall /\ line = NoCall
    /\ closer = "open"

-----------------------------------------------------------------------------
(* Call *)

\* DiscoverTools runs its two calls in order, with the notification between them;
\* the proxy takes tasks once New has returned.
Enabled(c) ==
    CASE c = "initialize" -> TRUE
      [] c = "tools/list" -> notified
      [] OTHER            -> pc["tools/list"] = "returned" /\ ret["tools/list"] = "tools/list"

\* Mutant: the id is not advanced.
Register_SameId(c) ==
    /\ pc[c] = "new" /\ Enabled(c)
    /\ nextID' = 1
    /\ id' = [id EXCEPT ![c] = 1]
    /\ pending' = [pending EXCEPT ![1] = c]
    /\ pc' = [pc EXCEPT ![c] = "registered"]
    /\ UNCHANGED <<chan, ret, notified, serverVars, readerVars, closer>>

\* Call takes the next id and registers its channel before it writes.
Register(c) ==
    /\ pc[c] = "new" /\ Enabled(c)
    /\ nextID' = nextID + 1
    /\ id' = [id EXCEPT ![c] = nextID + 1]
    /\ pending' = [pending EXCEPT ![nextID + 1] = c]
    /\ pc' = [pc EXCEPT ![c] = "registered"]
    /\ UNCHANGED <<chan, ret, notified, serverVars, readerVars, closer>>

\* stdin accepts a line only while it is open at both ends, and only when the
\* pipe has room: until then the writer stays in Write and holds p.mu.
StdinOpen == alive /\ closer = "open"

\* writeRequest succeeds.
Write(c) ==
    /\ pc[c] = "registered"
    /\ StdinOpen /\ Len(pipe) < PipeCap
    /\ pipe' = Append(pipe, [id |-> id[c], call |-> c])
    /\ pc' = [pc EXCEPT ![c] = "waiting"]
    /\ UNCHANGED <<id, chan, ret, nextID, pending, notified, out, todo, repeats, alive, readerVars, closer>>

\* The call is over with outcome r; the deferred delete comes in a step of its own.
Leave(c, r) ==
    /\ ret' = [ret EXCEPT ![c] = r]
    /\ pc' = [pc EXCEPT ![c] = "leaving"]
    /\ UNCHANGED <<id, nextID, pending, notified, serverVars, readerVars, closer>>

\* writeRequest fails: stdin is closed or the subprocess is gone.
WriteFails(c) ==
    /\ pc[c] = "registered"
    /\ ~StdinOpen
    /\ Leave(c, "write")
    /\ UNCHANGED chan

\* Mutant: the select has no case for the context.
CtxDone_Missing(c) ==
    /\ FALSE
    /\ UNCHANGED vars

\* case <-ctx.Done(): the 60 seconds of a tool call are over; the handshake runs
\* under the daemon's context.
CtxDone(c) ==
    /\ pc[c] = "waiting" /\ c \in ToolCalls
    /\ Leave(c, "ctx")
    /\ UNCHANGED chan

\* case <-p.done
ProcessExited(c) ==
    /\ pc[c] = "waiting"
    /\ reader = "done"
    /\ Leave(c, "exited")
    /\ UNCHANGED chan

\* case resp := <-ch: a closed channel gives the zero response, which has no error
\* and no result: Call returns nil, nil.
Receive(c) ==
    /\ pc[c] = "waiting"
    /\ chan[c] # "none"
    /\ Leave(c, IF chan[c] = "closed" THEN "empty" ELSE chan[c])
    /\ chan' = [chan EXCEPT ![c] = IF @ = "closed" THEN @ ELSE "none"]

\* Mutant: the deferred delete is missing.
Unregister_Missing(c) ==
    /\ pc[c] = "leaving"
    /\ pc' = [pc EXCEPT ![c] = "returned"]
    /\ UNCHANGED <<id, chan, ret, nextID, pending, notified, serverVars, readerVars, closer>>

\* The deferred function of Call.
Unregister(c) ==
    /\ pc[c] = "leaving"
    /\ pending' = [pending EXCEPT ![id[c]] = NoCall]
    /\ pc' = [pc EXCEPT ![c] = "returned"]
    /\ UNCHANGED <<id, chan, ret, nextID, notified, serverVars, readerVars, closer>>

\* Notify, the handshake's second step: a line without an id.
Notify ==
    /\ ret["initialize"] = "initialize" /\ pc["initialize"] = "returned"
    /\ ~notified
    /\ StdinOpen /\ Len(pipe) < PipeCap
    /\ notified' = TRUE
    /\ pipe' = Append(pipe, [id |-> 0, call |-> "initialize"])
    /\ UNCHANGED <<callVars, nextID, pending, out, todo, repeats, alive, readerVars, closer>>

-----------------------------------------------------------------------------
(* readLoop *)

\* A line of stdout: look its id up under pendingMu; no call, no effect.
ReadLine ==
    /\ reader = "read" /\ out # <<>>
    /\ out' = Tail(out)
    /\ IF pending[Head(out).id] = NoCall
       THEN UNCHANGED readerVars
       ELSE /\ reader' = "send"
            /\ target' = pending[Head(out).id]
            /\ line' = Head(out).call
    /\ UNCHANGED <<callVars, nextID, pending, notified, pipe, todo, repeats, alive, closer>>

\* ch <- resp, which waits while the channel holds an answer.
Dispatch ==
    /\ reader = "send"
    /\ chan[target] = "none"
    /\ chan' = [chan EXCEPT ![target] = line]
    /\ reader' = "read" /\ target' = NoCall /\ line' = NoCall
    /\ UNCHANGED <<pc, id, ret, nextID, pending, notified, serverVars, closer>>

\* Mutant: an answer nobody waits for ends the loop.
Eof_UnknownId ==
    /\ reader = "read"
    /\ (~alive /\ out = <<>>) \/ closer = "draining" \/ (out # <<>> /\ pending[Head(out).id] = NoCall)
    /\ chan' = [c \in Calls |-> IF chan[c] = "none" /\ \E i \in Ids : pending[i] = c
                                THEN "closed" ELSE chan[c]]
    /\ pending' = [i \in Ids |-> NoCall]
    /\ reader' = "signalled"
    /\ UNCHANGED <<pc, id, ret, nextID, notified, serverVars, target, line, closer>>

\* stdout is at its end, or cmd.Wait has closed it: every pending channel is closed
\* (what a channel holds can still be received) and forgotten.
Eof ==
    /\ reader = "read"
    /\ (~alive /\ out = <<>>) \/ closer = "draining"
    /\ chan' = [c \in Calls |-> IF chan[c] = "none" /\ \E i \in Ids : pending[i] = c
                                THEN "closed" ELSE chan[c]]
    /\ pending' = [i \in Ids |-> NoCall]
    /\ reader' = "signalled"
    /\ UNCHANGED <<pc, id, ret, nextID, notified, serverVars, target, line, closer>>

\* Mutant: done is not closed when the loop ends.
SignalDone_Missing ==
    /\ FALSE
    /\ UNCHANGED vars

\* The deferred close(p.done).
SignalDone ==
    /\ reader = "signalled"
    /\ reader' = "done"
    /\ UNCHANGED <<callVars, nextID, pending, notified, serverVars, target, line, closer>>

-----------------------------------------------------------------------------
(* Close *)

\* stdin.Close
CloseStdin ==
    /\ closer = "open"
    /\ closer' = "waiting"
    /\ UNCHANGED <<callVars, nextID, pending, notified, serverVars, readerVars>>

\* cmd.Wait returns and has closed the reading end of stdout.
CmdWait ==
    /\ closer = "waiting" /\ ~alive
    /\ closer' = "draining"
    /\ UNCHANGED <<callVars, nextID, pending, notified, serverVars, readerVars>>

\* <-p.done
CloseReturn ==
    /\ closer = "draining" /\ reader = "done"
    /\ closer' = "closed"
    /\ UNCHANGED <<callVars, nextID, pending, notified, serverVars, readerVars>>

-----------------------------------------------------------------------------
(* The subprocess (external) *)

ServerRead ==
    /\ alive /\ pipe # <<>>
    /\ pipe' = Tail(pipe)
    /\ todo' = IF Head(pipe).id = 0 THEN todo ELSE todo \cup {Head(pipe)}
    /\ UNCHANGED <<callVars, nextID, pending, notified, out, repeats, alive, readerVars, closer>>

ServerAnswer(r, again) ==
    /\ alive /\ r \in todo /\ Len(out) < OutCap
    /\ out' = Append(out, r)
    /\ IF again THEN /\ repeats < MaxRepeats
                     /\ repeats' = repeats + 1
                     /\ UNCHANGED todo
                ELSE /\ todo' = todo \ {r}
                     /\ UNCHANGED repeats
    /\ UNCHANGED <<callVars, nextID, pending, notified, pipe, alive, readerVars, closer>>

ServerExit ==
    /\ alive
    /\ alive' = FALSE
    /\ UNCHANGED <<callVars, nextID, pending, notified, pipe, out, todo, repeats, readerVars, closer>>

-----------------------------------------------------------------------------
CallStep(c) ==
    \/ Register(c) \/ Write(c) \/ WriteFails(c) \/ CtxDone(c)
    \/ ProcessExited(c) \/ Receive(c) \/ Unregister(c)

ReaderStep == ReadLine \/ Dispatch \/ Eof \/ SignalDone
CloseStep  == CmdWait \/ CloseReturn

Next ==
    \/ \E c \in Calls : CallStep(c)
    \/ Notify \/ ReaderStep \/ CloseStdin \/ CloseStep
    \/ ServerRead \/ ServerExit
    \/ \E r \in todo, again \in BOOLEAN : ServerAnswer(r, again)

Spec == Init /\ [][Next]_vars

\* The goroutines of the daemon run, and a call's deadline expires; nothing is
\* assumed of the subprocess but that it exits once its stdin is closed.
DaemonFairness ==
    /\ \A c \in Calls : /\ WF_vars(Write(c)) /\ WF_vars(WriteFails(c))
                        /\ WF_vars(CtxDone(c)) /\ WF_vars(ProcessExited(c))
                        /\ WF_vars(Receive(c)) /\ WF_vars(Unregister(c))
    /\ WF_vars(ReaderStep) /\ WF_vars(CloseStep)
    /\ WF_vars(closer # "open" /\ ServerExit)

DaemonSpec == Spec /\ DaemonFairness

\* As DaemonSpec, with a subprocess that goes on reading its stdin.
FairSpec == DaemonSpec /\ WF_vars(ServerRead)

-----------------------------------------------------------------------------
(* Properties *)

\* Types; ids are handed out once (Process.nextID, process.go:110).
TypeOK ==
    /\ pc \in [Calls -> {"new", "registered", "waiting", "leaving", "returned"}]
    /\ id \in [Calls -> 0..nextID]
    /\ chan \in [Calls -> Calls \cup {"none", "closed"}]
    /\ ret \in [Calls -> Calls \cup Outcomes]
    /\ nextID = Cardinality({c \in Calls : pc[c] # "new"})
    /\ pending \in [Ids -> Calls \cup {NoCall}]
    /\ notified \in BOOLEAN /\ alive \in BOOLEAN
    /\ pipe \in Seq(Line) /\ Len(pipe) <= PipeCap
    /\ out \in Seq(Line) /\ Len(out) <= OutCap
    /\ todo \subseteq Line /\ repeats \in 0..MaxRepeats
    /\ reader \in {"read", "send", "signalled", "done"}
    /\ target \in Calls \cup {NoCall} /\ line \in Calls \cup {NoCall}
    /\ closer \in {"open", "waiting", "draining", "closed"}

\* A call returns the answer to its own request, however the answers of concurrent
\* calls, late answers and repeated ones interleave (readLoop, process.go:183-227).
OwnAnswer == \A c \in Calls : ret[c] \in Calls => ret[c] = c

\* A call that has returned, on whichever path, has left nothing in the pending
\* map (process.go:125-129), not even when the reader cleared the map before.
NothingLeftPending ==
    \A c \in Calls : pc[c] = "returned" => \A i \in Ids : pending[i] # c

\* While the subprocess answers each request at most once, the reader never has to
\* wait for a call, not even for one that has given up: the channel it is about to
\* send to has room (process.go:120).
ReaderNeverBlocks == reader = "send" /\ repeats = 0 => chan[target] = "none"

\* A call is turned away, with an error or with the empty answer of a closed channel,
\* only when the subprocess has really gone or its stdin was closed, and never on
\* account of another call's late or repeated answer (process.go:131, 138, 196-204).
TurnedAwayMeansGone ==
    \A c \in Calls :
        /\ ret[c] \in {"exited", "empty"} => ~alive
        /\ ret[c] = "write" => ~StdinOpen

\* With a subprocess that goes on reading, a tool call returns, whatever becomes of
\* its answer (Call, process.go:135-145).
ToolCallReturns ==
    \A c \in ToolCalls : (pc[c] = "registered") ~> (pc[c] = "returned")

\* Close returns once the subprocess has exited, unless an answer was repeated, which
\* the reader may be holding for good (Close, process.go:160-165).
CloseTerminates == (closer = "waiting") ~> (closer = "closed" \/ repeats > 0)

\* "Signal all pending callers that the process has exited." (process.go:196): a
\* call whose request was not answered does not succeed.
\* Not what the code does: see "Disagreements" in README.md.
ExitIsAnError == \A c \in Calls : ret[c] # "empty"
=============================================================================

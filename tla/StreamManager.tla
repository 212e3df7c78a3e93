--------------------------- MODULE StreamManager ---------------------------
(***************************************************************************)
(* The streaming sessions of one task (internal/a2a/stream.go): m.streams  *)
(* maps the task to a session, the session holds the channels of its       *)
(* subscribers.  Two locks protect them, m.mu the map and session.mu the   *)
(* channels, and every operation but HandleStreamStart takes them one      *)
(* after the other, so a session read from the map can leave the map       *)
(* before it is used.  Every operation names one task, so the tasks do not *)
(* interact and the module has one.                                        *)
(*                                                                         *)
(* A sender is a SendStreamingArtifact call and a subscriber is a          *)
(* SubscribeTaskStream call (pkg/grpcserver/server.go).  A sender's client *)
(* announces an artifact, sends its chunks, ends it, and may go on with    *)
(* another one.  ArtifactID, TotalChunks, Received and the other fields of *)
(* a session are written and never read; they are left out.                *)
(***************************************************************************)
EXTENDS Naturals, Sequences, FiniteSets

CONSTANTS
    Senders,      \* SendStreamingArtifact calls
    Subs,         \* SubscribeTaskStream calls
    NoSession,    \* m.streams has no entry for the task
    MaxSessions,  \* bound: sessions ever created
    MaxArtifacts, \* bound: artifacts of one sender
    MaxChunks,    \* bound: chunks of one artifact
    ChanCap       \* capacity of a subscriber's channel (64 in the code)

Sessions == 1..MaxSessions

ASSUME NoSessionAssumption == NoSession \notin Sessions
ASSUME BoundsAssumption ==
    /\ MaxSessions \in Nat /\ MaxArtifacts \in Nat \ {0}
    /\ MaxChunks \in Nat /\ ChanCap \in Nat \ {0}

\* An event of a stream: chunk 0 announces the artifact (StreamStart) and
\* chunk MaxChunks + 1 ends it (StreamEnd).
Chunks == 0..MaxChunks + 1
Event  == [from : Senders, artifact : 1..MaxArtifacts, chunk : Chunks]

VARIABLES
    streams,   \* m.streams[task]: a session, or NoSession
    created,   \* sessions created so far
    members,   \* members[x]: session.Subscribers of session x
    sub,       \* sub[u]: where subscriber u is in SubscribeTaskStream
    session,   \* session[u]: the session its Subscribe call got
    chan,      \* chan[u]: what its channel holds
    send,      \* send[p]: where sender p is in SendStreamingArtifact
    held,      \* held[p]: the session its handler looked up
    artifact,  \* artifact[p]: its current artifact
    chunk,     \* chunk[p]: the event of that artifact it sends next
    \* history
    panicked,  \* a message was sent on a closed channel
    early,     \* early[u]: the artifacts announced while u was registered
    got,       \* got[u]: the events put in u's channel
    slow       \* slow[u]: u's channel was full at some message

vars == <<streams, created, members, sub, session, chan, send, held, artifact, chunk,
          panicked, early, got, slow>>

subVars  == <<sub, session>>
sendVars == <<send, held, artifact, chunk>>

Init ==
    /\ streams  = NoSession
    /\ created  = 0
    /\ members  = [x \in Sessions |-> {}]
    /\ sub      = [u \in Subs |-> "idle"]
    /\ session  = [u \in Subs |-> NoSession]
    /\ chan     = [u \in Subs |-> <<>>]
    /\ send     = [p \in Senders |-> "recv"]
    /\ held     = [p \in Senders |-> NoSession]
    /\ artifact = [p \in Senders |-> 1]
    /\ chunk    = [p \in Senders |-> 0]
    /\ panicked = FALSE
    /\ early    = [u \in Subs |-> {}]
    /\ got      = [u \in Subs |-> {}]
    /\ slow     = [u \in Subs |-> FALSE]

\* The session of the task after a get-or-create under m.mu.
Entered == IF streams = NoSession THEN created + 1 ELSE streams

\* Both Subscribe and HandleStreamStart look the task up and create what is missing.
GetOrCreate ==
    /\ Entered \in Sessions
    /\ streams' = Entered
    /\ created' = IF streams = NoSession THEN created + 1 ELSE created

\* StreamSession.broadcast: under session.mu, every channel gets the event unless
\* it is full.  Sending on a closed channel would panic.
Broadcast(x, e) ==
    /\ panicked' = (panicked \/ \E u \in members[x] : sub[u] = "closed")
    /\ chan' = [u \in Subs |-> IF u \in members[x] /\ Len(chan[u]) < ChanCap
                               THEN Append(chan[u], e) ELSE chan[u]]
    /\ got'  = [u \in Subs |-> IF u \in members[x] /\ Len(chan[u]) < ChanCap
                               THEN got[u] \cup {e} ELSE got[u]]
    /\ slow' = [u \in Subs |-> slow[u] \/ (u \in members[x] /\ Len(chan[u]) = ChanCap)]

-----------------------------------------------------------------------------
(* A subscriber *)

\* Mutant: the entry is replaced when there is one.
SubscribeLookup_Replaces(u) ==
    /\ sub[u] = "idle"
    /\ created + 1 \in Sessions
    /\ streams' = created + 1
    /\ created' = created + 1
    /\ session' = [session EXCEPT ![u] = created + 1]
    /\ sub' = [sub EXCEPT ![u] = "joining"]
    /\ UNCHANGED <<members, chan, sendVars, panicked, early, got, slow>>

\* Subscribe, first half: get or create the session under m.mu.
SubscribeLookup(u) ==
    /\ sub[u] = "idle"
    /\ GetOrCreate
    /\ session' = [session EXCEPT ![u] = Entered]
    /\ sub' = [sub EXCEPT ![u] = "joining"]
    /\ UNCHANGED <<members, chan, sendVars, panicked, early, got, slow>>

\* Subscribe, second half: append the channel under session.mu.
SubscribeJoin(u) ==
    /\ sub[u] = "joining"
    /\ members' = [members EXCEPT ![session[u]] = @ \cup {u}]
    /\ sub' = [sub EXCEPT ![u] = "open"]
    /\ UNCHANGED <<streams, created, session, chan, sendVars, panicked, early, got, slow>>

\* SubscribeTaskStream passes one event on to its client.
Take(u) ==
    /\ sub[u] = "open"
    /\ chan[u] # <<>>
    /\ chan' = [chan EXCEPT ![u] = Tail(@)]
    /\ UNCHANGED <<streams, created, members, subVars, sendVars, panicked, early, got, slow>>

\* Mutant: the channel is removed from the session the map holds now.
Cleanup_CurrentSession(u) ==
    /\ sub[u] = "open"
    /\ members' = IF streams = NoSession THEN members
                  ELSE [members EXCEPT ![streams] = @ \ {u}]
    /\ sub' = [sub EXCEPT ![u] = "closed"]
    /\ UNCHANGED <<streams, created, session, chan, sendVars, panicked, early, got, slow>>

\* The client went away (or Send to it failed): the deferred cleanup removes the
\* channel from the session Subscribe got and closes it, under session.mu.
Cleanup(u) ==
    /\ sub[u] = "open"
    /\ members' = [members EXCEPT ![session[u]] = @ \ {u}]
    /\ sub' = [sub EXCEPT ![u] = "closed"]
    /\ UNCHANGED <<streams, created, session, chan, sendVars, panicked, early, got, slow>>

-----------------------------------------------------------------------------
(* A sender *)

Current(p) == [from |-> p, artifact |-> artifact[p], chunk |-> chunk[p]]

\* HandleStreamStart, under m.mu throughout.
HandleStreamStart(p) ==
    /\ send[p] = "recv" /\ chunk[p] = 0
    /\ GetOrCreate
    /\ Broadcast(Entered, Current(p))
    /\ early' = [u \in Subs |-> IF sub[u] = "open"
                                THEN early[u] \cup {<<p, artifact[p]>>} ELSE early[u]]
    /\ chunk' = [chunk EXCEPT ![p] = 1]
    /\ UNCHANGED <<members, subVars, send, held, artifact>>

\* HandleStreamChunk or HandleStreamEnd looks the session up under m.mu; without
\* one the handler fails and SendStreamingArtifact returns the error.
Lookup(p) ==
    /\ send[p] = "recv" /\ chunk[p] > 0
    /\ held' = [held EXCEPT ![p] = streams]
    /\ send' = [send EXCEPT ![p] = IF streams = NoSession THEN "failed" ELSE "found"]
    /\ UNCHANGED <<streams, created, members, subVars, chan, artifact, chunk,
                   panicked, early, got, slow>>

\* HandleStreamChunk: broadcast to the session that was found.
HandleStreamChunk(p) ==
    /\ send[p] = "found" /\ chunk[p] <= MaxChunks
    /\ Broadcast(held[p], Current(p))
    /\ chunk' = [chunk EXCEPT ![p] = @ + 1]
    /\ send' = [send EXCEPT ![p] = "recv"]
    /\ UNCHANGED <<streams, created, members, subVars, held, artifact, early>>

\* HandleStreamEnd: broadcast to the session that was found ...
HandleStreamEnd(p) ==
    /\ send[p] = "found" /\ chunk[p] = MaxChunks + 1
    /\ Broadcast(held[p], Current(p))
    /\ send' = [send EXCEPT ![p] = "ending"]
    /\ UNCHANGED <<streams, created, members, subVars, held, artifact, chunk, early>>

\* ... then delete the task's entry, whichever session it holds by now.
DeleteSession(p) ==
    /\ send[p] = "ending"
    /\ streams' = NoSession
    /\ IF artifact[p] < MaxArtifacts
       THEN /\ artifact' = [artifact EXCEPT ![p] = @ + 1]
            /\ chunk' = [chunk EXCEPT ![p] = 0]
            /\ send' = [send EXCEPT ![p] = "recv"]
       ELSE /\ send' = [send EXCEPT ![p] = "finished"]
            /\ UNCHANGED <<artifact, chunk>>
    /\ UNCHANGED <<created, members, subVars, chan, held, panicked, early, got, slow>>

\* stream.Recv fails: the call returns and leaves the session as it is.
Abort(p) ==
    /\ send[p] = "recv"
    /\ send' = [send EXCEPT ![p] = "failed"]
    /\ UNCHANGED <<streams, created, members, subVars, chan, held, artifact, chunk,
                   panicked, early, got, slow>>

Next ==
    \/ \E u \in Subs : SubscribeLookup(u) \/ SubscribeJoin(u) \/ Take(u) \/ Cleanup(u)
    \/ \E p \in Senders : \/ HandleStreamStart(p) \/ Lookup(p) \/ HandleStreamChunk(p)
                          \/ HandleStreamEnd(p) \/ DeleteSession(p) \/ Abort(p)

Spec == Init /\ [][Next]_vars

-----------------------------------------------------------------------------
(* Properties *)

\* Types; a session in the map has been created, and a channel is within its
\* capacity (the buffered channel of Subscribe, stream.go:44).
TypeOK ==
    /\ streams \in Sessions \cup {NoSession}
    /\ created \in 0..MaxSessions
    /\ streams # NoSession => streams <= created
    /\ members \in [Sessions -> SUBSET Subs]
    /\ sub \in [Subs -> {"idle", "joining", "open", "closed"}]
    /\ session \in [Subs -> Sessions \cup {NoSession}]
    /\ chan \in [Subs -> Seq(Event)]
    /\ \A u \in Subs : Len(chan[u]) <= ChanCap
    /\ send \in [Senders -> {"recv", "found", "ending", "finished", "failed"}]
    /\ held \in [Senders -> Sessions \cup {NoSession}]
    /\ artifact \in [Senders -> 1..(MaxArtifacts + 1)]
    /\ chunk \in [Senders -> Chunks]
    /\ panicked \in BOOLEAN
    /\ slow \in [Subs -> BOOLEAN]

\* Close never races a broadcast: whatever happens to the map between Subscribe
\* and its cleanup, the daemon does not send on a closed channel (it would panic).
NoSendOnClosed == ~panicked

\* How far the sender has got with an artifact: the events handled without error.
Handled(p, a) ==
    IF a < artifact[p] THEN Chunks
    ELSE IF a > artifact[p] THEN {}
    ELSE {c \in Chunks : c < chunk[p] \/ (c = chunk[p] /\ send[p] \in {"ending", "finished"})}

\* u has been given the events of artifact a of sender p that were handled.
Complete(u, p, a) ==
    \A c \in Handled(p, a) : [from |-> p, artifact |-> a, chunk |-> c] \in got[u]

\* A subscriber that was registered when an artifact was announced, is still
\* there and was never slow has been given every event of it that was handled
\* without an error.
\* Not what the code does: see "Disagreements" in README.md.
EarlySubscriberMissesNothing ==
    \A u \in Subs : sub[u] = "open" /\ ~slow[u] => \A pa \in early[u] : Complete(u, pa[1], pa[2])

\* Sender p is the only one that has sent anything.
Alone(p) == \A q \in Senders \ {p} : artifact[q] = 1 /\ chunk[q] = 0 /\ send[q] = "recv"

\* The same for the first artifact of a task that only one sender streams for: a
\* subscriber and sender share one session, whichever of them came first and created
\* it (Subscribe and HandleStreamStart, stream.go:41-57, 74-82).
FirstArtifactComplete ==
    \A u \in Subs : sub[u] = "open" /\ ~slow[u] =>
        \A pa \in early[u] : pa[2] = 1 /\ Alone(pa[1]) => Complete(u, pa[1], pa[2])

\* p has started an artifact and not ended it.
Streaming(p) == chunk[p] > 0 /\ send[p] \in {"recv", "found", "ending"}

\* "Each task can have at most one active stream at a time." (stream.go:12)
\* Not what the code does: see "Disagreements" in README.md.
AtMostOneActiveStream == Cardinality({p \in Senders : Streaming(p)}) <= 1
=============================================================================

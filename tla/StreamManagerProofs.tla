------------------------ MODULE StreamManagerProofs ------------------------
(***************************************************************************)
(* No broadcast reaches a closed channel, for any number of senders,       *)
(* subscribers and sessions.  The argument: a channel is a member of one   *)
(* session only, the one its Subscribe call got, and only while its        *)
(* subscriber is open; cleanup removes it from that very session in the    *)
(* step that closes it.  The second half is about what the subscribers     *)
(* get: until the first deletion there is one session, the same for the    *)
(* map, the senders and the subscribers.                                   *)
(***************************************************************************)
EXTENDS StreamManager, TLAPS

\* Every member of a session is an open subscriber that got this session, and a
\* subscriber past the first half of Subscribe has one.
MembersInv ==
    /\ streams \in Sessions \cup {NoSession}
    /\ members \in [Sessions -> SUBSET Subs]
    /\ sub \in [Subs -> {"idle", "joining", "open", "closed"}]
    /\ session \in [Subs -> Sessions \cup {NoSession}]
    /\ \A u \in Subs : sub[u] \in {"joining", "open"} => session[u] \in Sessions
    /\ \A x \in Sessions : \A u \in members[x] : sub[u] = "open" /\ session[u] = x

\* The sessions the senders hold are sessions.
HeldInv ==
    /\ held \in [Senders -> Sessions \cup {NoSession}]
    /\ send \in [Senders -> {"recv", "found", "ending", "finished", "failed"}]
    /\ \A p \in Senders : send[p] = "found" => held[p] \in Sessions

IndInv == MembersInv /\ HeldInv /\ NoSendOnClosed

\* Initially nobody is a member of anything.
LEMMA InitIndInv == Init => IndInv
  BY NoSessionAssumption DEF Init, IndInv, MembersInv, HeldInv, NoSendOnClosed

\* Every step of Subscribe, SubscribeTaskStream and SendStreamingArtifact keeps
\* the members of the sessions open.
LEMMA MembersStep == MembersInv /\ [Next]_vars => MembersInv'
  <1> SUFFICES ASSUME MembersInv, [Next]_vars PROVE MembersInv'
    OBVIOUS
  <1> USE DEF MembersInv
  <1>1. ASSUME NEW u \in Subs, SubscribeLookup(u) PROVE MembersInv'
    <2>1. /\ streams' \in Sessions /\ session' = [session EXCEPT ![u] = streams']
          /\ sub[u] = "idle" /\ sub' = [sub EXCEPT ![u] = "joining"]
          /\ members' = members
      BY <1>1 DEF SubscribeLookup, GetOrCreate
    <2> QED BY <2>1
  <1>2. ASSUME NEW u \in Subs, SubscribeJoin(u) PROVE MembersInv'
    BY <1>2 DEF SubscribeJoin
  <1>3. ASSUME NEW u \in Subs, Take(u) PROVE MembersInv'
    BY <1>3 DEF Take, subVars
  <1>4. ASSUME NEW u \in Subs, Cleanup(u) PROVE MembersInv'
    BY <1>4 DEF Cleanup
  <1>5. ASSUME NEW p \in Senders, HandleStreamStart(p) PROVE MembersInv'
    <2>1. streams' \in Sessions /\ UNCHANGED <<members, sub, session>>
      BY <1>5 DEF HandleStreamStart, GetOrCreate, subVars
    <2> QED BY <2>1
  <1>6. ASSUME NEW p \in Senders, \/ Lookup(p) \/ HandleStreamChunk(p) \/ HandleStreamEnd(p)
                                  \/ DeleteSession(p) \/ Abort(p)
        PROVE  MembersInv'
    <2>1. streams' \in {streams, NoSession} /\ UNCHANGED <<members, sub, session>>
      BY <1>6 DEF Lookup, HandleStreamChunk, HandleStreamEnd, DeleteSession, Abort, subVars
    <2> QED BY <2>1
  <1>7. CASE UNCHANGED vars
    BY <1>7 DEF vars
  <1> QED
    BY <1>1, <1>2, <1>3, <1>4, <1>5, <1>6, <1>7 DEF Next

\* A sender goes on only with a session it has found in the map.
LEMMA HeldStep == MembersInv /\ HeldInv /\ [Next]_vars => HeldInv'
  <1> SUFFICES ASSUME MembersInv, HeldInv, [Next]_vars PROVE HeldInv'
    OBVIOUS
  <1> USE DEF HeldInv
  <1>1. ASSUME NEW p \in Senders, Lookup(p) PROVE HeldInv'
    BY <1>1 DEF Lookup, MembersInv
  <1>2. ASSUME NEW p \in Senders, \/ HandleStreamStart(p) \/ HandleStreamChunk(p)
                                  \/ HandleStreamEnd(p) \/ DeleteSession(p) \/ Abort(p)
        PROVE  HeldInv'
    <2>1. /\ held' = held
          /\ \/ send' = send
             \/ \E x \in {"recv", "ending", "finished", "failed"} : send' = [send EXCEPT ![p] = x]
      BY <1>2 DEF HandleStreamStart, HandleStreamChunk, HandleStreamEnd, DeleteSession, Abort
    <2> QED BY <2>1
  <1>3. ASSUME NEW u \in Subs, SubscribeLookup(u) \/ SubscribeJoin(u) \/ Take(u) \/ Cleanup(u)
        PROVE  HeldInv'
    BY <1>3 DEF SubscribeLookup, SubscribeJoin, Take, Cleanup, sendVars
  <1>4. CASE UNCHANGED vars
    BY <1>4 DEF vars
  <1> QED
    BY <1>1, <1>2, <1>3, <1>4 DEF Next

\* A broadcast to a session whose members are open sends on no closed channel.
LEMMA BroadcastIsSafe ==
  ASSUME MembersInv, NoSendOnClosed, NEW x \in Sessions, NEW e, Broadcast(x, e)
  PROVE  NoSendOnClosed'
  <1>1. \A u \in members[x] : sub[u] # "closed"
    BY DEF MembersInv
  <1>2. panicked' = (panicked \/ \E u \in members[x] : sub[u] = "closed")
    BY DEF Broadcast
  <1> QED BY <1>1, <1>2, Zenon DEF NoSendOnClosed

\* Every step leaves the daemon without a send on a closed channel.
LEMMA PanicStep == IndInv /\ [Next]_vars => NoSendOnClosed'
  <1> SUFFICES ASSUME IndInv, [Next]_vars PROVE NoSendOnClosed'
    OBVIOUS
  <1> USE DEF IndInv
  <1>1. ASSUME NEW p \in Senders, HandleStreamStart(p) PROVE NoSendOnClosed'
    <2>1. Entered \in Sessions /\ Broadcast(Entered, Current(p))
      BY <1>1 DEF HandleStreamStart, GetOrCreate
    <2> QED BY <2>1, BroadcastIsSafe
  <1>2. ASSUME NEW p \in Senders, HandleStreamChunk(p) \/ HandleStreamEnd(p) PROVE NoSendOnClosed'
    <2>1. held[p] \in Sessions /\ Broadcast(held[p], Current(p))
      BY <1>2 DEF HandleStreamChunk, HandleStreamEnd, HeldInv
    <2> QED BY <2>1, BroadcastIsSafe
  <1>3. ASSUME NEW p \in Senders, Lookup(p) \/ DeleteSession(p) \/ Abort(p) PROVE NoSendOnClosed'
    BY <1>3 DEF Lookup, DeleteSession, Abort, NoSendOnClosed
  <1>4. ASSUME NEW u \in Subs, SubscribeLookup(u) \/ SubscribeJoin(u) \/ Take(u) \/ Cleanup(u)
        PROVE  NoSendOnClosed'
    BY <1>4 DEF SubscribeLookup, SubscribeJoin, Take, Cleanup, NoSendOnClosed
  <1>5. CASE UNCHANGED vars
    BY <1>5 DEF vars, NoSendOnClosed
  <1> QED
    BY <1>1, <1>2, <1>3, <1>4, <1>5 DEF Next

\* Close never races a broadcast (stream.go:60-70 and :152-164), for any number of
\* senders and subscribers.
THEOREM NoSendOnClosedCorrect == Spec => []NoSendOnClosed
  <1>1. IndInv /\ [Next]_vars => IndInv'
    BY MembersStep, HeldStep, PanicStep DEF IndInv
  <1>2. IndInv => NoSendOnClosed
    BY DEF IndInv
  <1> QED
    BY InitIndInv, <1>1, <1>2, PTL DEF Spec

-----------------------------------------------------------------------------
(* The first artifact.  Until a first artifact has ended there is only one  *)
(* session, whoever created it, and every subscriber is in it; so whoever   *)
(* was there when the artifact was announced is there for all of it.        *)

\* Nobody has deleted a session yet.
NoneEnded == \A q \in Senders : artifact[q] = 1 /\ send[q] # "finished"

\* A subscriber that is open is in its session, and one that is not open yet has seen
\* nothing announced; until the first deletion the session is the same for all.
OneSessionInv ==
    /\ \A u \in Subs : /\ sub[u] = "open" => u \in members[session[u]]
                       /\ sub[u] \in {"idle", "joining"} => early[u] = {}
    /\ NoneEnded =>
          /\ created = (IF streams = NoSession THEN 0 ELSE 1)
          /\ streams # NoSession => streams = 1
          /\ \A u \in Subs : sub[u] \in {"joining", "open"} => streams = 1 /\ session[u] = 1
          /\ \A p \in Senders : send[p] \in {"found", "ending"} => held[p] = 1

\* A sender that is about to end an artifact has sent all of it.
EndingInv ==
    \A p \in Senders : /\ send[p] \in {"ending", "finished"} => chunk[p] = MaxChunks + 1
                       /\ artifact[p] \in 1..MaxArtifacts

\* The types of the history.
EarlyType == early \in [Subs -> SUBSET (Senders \X (1..MaxArtifacts))] /\ DOMAIN got = Subs

ArtifactInv == TypeOK /\ EarlyType /\ OneSessionInv /\ EndingInv /\ FirstArtifactComplete

\* What a broadcast does to the channels: they stay within their capacity, nothing that was
\* given is taken back, and a member gets the event unless it is slow.
LEMMA BroadcastFacts ==
  ASSUME TypeOK, NEW x \in Sessions, NEW e \in Event, Broadcast(x, e), DOMAIN got = Subs
  PROVE  /\ chan' \in [Subs -> Seq(Event)] /\ \A u \in Subs : Len(chan'[u]) <= ChanCap
         /\ panicked' \in BOOLEAN /\ slow' \in [Subs -> BOOLEAN] /\ DOMAIN got' = Subs
         /\ \A u \in Subs : /\ got[u] \subseteq got'[u]
                            /\ slow[u] => slow'[u]
                            /\ u \in members[x] /\ ~slow'[u] => e \in got'[u]
  <1>0. /\ chan \in [Subs -> Seq(Event)] /\ ChanCap \in Nat
        /\ \A u \in Subs : Len(chan[u]) <= ChanCap /\ Len(chan[u]) \in Nat
    BY BoundsAssumption DEF TypeOK
  <1>1. \A u \in Subs : Append(chan[u], e) \in Seq(Event) /\ Len(Append(chan[u], e)) = Len(chan[u]) + 1
    BY <1>0
  <1>2. \A u \in Subs : chan'[u] = chan[u] \/ (chan'[u] = Append(chan[u], e) /\ Len(chan[u]) < ChanCap)
    BY DEF Broadcast
  <1>3. chan' \in [Subs -> Seq(Event)]
    <2>1. chan' = [u \in Subs |-> chan'[u]]
      BY DEF Broadcast
    <2>2. \A u \in Subs : chan'[u] \in Seq(Event)
      BY <1>0, <1>1, <1>2
    <2> QED BY <2>1, <2>2, Zenon
  <1>4. \A u \in Subs : Len(chan'[u]) <= ChanCap
    BY <1>0, <1>1, <1>2
  <1>5. panicked' \in BOOLEAN /\ slow' \in [Subs -> BOOLEAN]
    BY Zenon DEF Broadcast
  <1>6. DOMAIN got' = Subs /\ \A u \in Subs : got[u] \subseteq got'[u]
    BY DEF Broadcast
  <1>7. \A u \in Subs : slow'[u] <=> slow[u] \/ (u \in members[x] /\ Len(chan[u]) = ChanCap)
    BY Zenon DEF Broadcast
  <1>8. \A u \in Subs : u \in members[x] /\ Len(chan[u]) # ChanCap => e \in got'[u]
    BY <1>0 DEF Broadcast
  <1> QED
    BY <1>3, <1>4, <1>5, <1>6, <1>7, <1>8

\* What a sender sends is an event.
LEMMA CurrentIsEvent ==
  ASSUME TypeOK, EndingInv, NEW p \in Senders
  PROVE  Current(p) \in Event
  BY DEF TypeOK, EndingInv, Current, Event

\* Every step keeps the types, and a sender within its artifacts and chunks.
LEMMA TypeStep ==
  IndInv /\ TypeOK /\ EarlyType /\ EndingInv /\ [Next]_vars => TypeOK' /\ EarlyType' /\ EndingInv'
  <1> SUFFICES ASSUME IndInv, TypeOK, EarlyType, EndingInv, [Next]_vars PROVE TypeOK' /\ EarlyType' /\ EndingInv'
    OBVIOUS
  <1> USE BoundsAssumption
  <1>0. created \in Nat /\ Sessions = 1..MaxSessions
    BY DEF TypeOK, Sessions
  <1>1. ASSUME Entered \in Sessions, streams' = Entered,
               created' = (IF streams = NoSession THEN created + 1 ELSE created)
        PROVE  streams' \in Sessions /\ created' \in 0..MaxSessions /\ streams' <= created'
    BY <1>0, <1>1 DEF Entered, TypeOK
  <1>2. ASSUME NEW u \in Subs, SubscribeLookup(u) PROVE TypeOK' /\ EarlyType' /\ EndingInv'
    <2>1. streams' \in Sessions /\ created' \in 0..MaxSessions /\ streams' <= created'
      BY <1>1, <1>2 DEF SubscribeLookup, GetOrCreate
    <2>2. session' = [session EXCEPT ![u] = streams'] /\ sub' = [sub EXCEPT ![u] = "joining"]
          /\ UNCHANGED <<members, chan, sendVars, panicked, early, got, slow>>
      BY <1>2 DEF SubscribeLookup, GetOrCreate
    <2> QED BY <2>1, <2>2 DEF TypeOK, EarlyType, EndingInv, sendVars
  <1>3. ASSUME NEW u \in Subs, SubscribeJoin(u) \/ Cleanup(u) PROVE TypeOK' /\ EarlyType' /\ EndingInv'
    <2>1. session[u] \in Sessions
      BY <1>3 DEF SubscribeJoin, Cleanup, IndInv, MembersInv
    <2>2. members' \in [Sessions -> SUBSET Subs]
      BY <1>3, <2>1 DEF SubscribeJoin, Cleanup, TypeOK
    <2>3. sub' \in [Subs -> {"idle", "joining", "open", "closed"}]
      BY <1>3 DEF SubscribeJoin, Cleanup, TypeOK
    <2>4. UNCHANGED <<streams, created, session, chan, sendVars, panicked, early, got, slow>>
      BY <1>3 DEF SubscribeJoin, Cleanup
    <2> QED BY <2>2, <2>3, <2>4 DEF TypeOK, EarlyType, EndingInv, sendVars
  <1>4. ASSUME NEW u \in Subs, Take(u) PROVE TypeOK' /\ EarlyType' /\ EndingInv'
    <2>1. chan[u] \in Seq(Event) /\ chan[u] # <<>> /\ Len(chan[u]) <= ChanCap
      BY <1>4 DEF Take, TypeOK
    <2>2. Tail(chan[u]) \in Seq(Event) /\ Len(Tail(chan[u])) <= ChanCap
      BY <2>1
    <2> QED BY <1>4, <2>2 DEF Take, TypeOK, EarlyType, EndingInv, subVars, sendVars
  <1>5. ASSUME NEW p \in Senders, HandleStreamStart(p) PROVE TypeOK' /\ EarlyType' /\ EndingInv'
    <2>1. streams' \in Sessions /\ created' \in 0..MaxSessions /\ streams' <= created'
      BY <1>1, <1>5 DEF HandleStreamStart, GetOrCreate
    <2>2. Entered \in Sessions /\ Broadcast(Entered, Current(p))
      BY <1>5 DEF HandleStreamStart, GetOrCreate
    <2>3. /\ chan' \in [Subs -> Seq(Event)] /\ \A u \in Subs : Len(chan'[u]) <= ChanCap
          /\ panicked' \in BOOLEAN /\ slow' \in [Subs -> BOOLEAN] /\ DOMAIN got' = Subs
      BY <2>2, BroadcastFacts, CurrentIsEvent DEF EarlyType
    <2>4. early' \in [Subs -> SUBSET (Senders \X (1..MaxArtifacts))]
      <3>1. <<p, artifact[p]>> \in Senders \X (1..MaxArtifacts)
        BY DEF EndingInv
      <3> QED BY <1>5, <3>1 DEF HandleStreamStart, EarlyType
    <2>5. chunk' \in [Senders -> Chunks]
      BY <1>5 DEF HandleStreamStart, TypeOK, Chunks
    <2>6. EndingInv'
      BY <1>5 DEF HandleStreamStart, EndingInv, TypeOK
    <2> QED BY <1>5, <2>1, <2>3, <2>4, <2>5, <2>6 DEF HandleStreamStart, TypeOK, EarlyType, subVars
  <1>6. ASSUME NEW p \in Senders, Lookup(p) \/ Abort(p) PROVE TypeOK' /\ EarlyType' /\ EndingInv'
    BY <1>6 DEF Lookup, Abort, TypeOK, EarlyType, EndingInv, subVars
  <1>7. ASSUME NEW p \in Senders, HandleStreamChunk(p) \/ HandleStreamEnd(p) PROVE TypeOK' /\ EarlyType' /\ EndingInv'
    <2>1. held[p] \in Sessions /\ Broadcast(held[p], Current(p))
      BY <1>7 DEF HandleStreamChunk, HandleStreamEnd, IndInv, HeldInv
    <2>2. /\ chan' \in [Subs -> Seq(Event)] /\ \A u \in Subs : Len(chan'[u]) <= ChanCap
          /\ panicked' \in BOOLEAN /\ slow' \in [Subs -> BOOLEAN] /\ DOMAIN got' = Subs
      BY <2>1, BroadcastFacts, CurrentIsEvent DEF EarlyType
    <2>3. chunk' \in [Senders -> Chunks]
      <3>1. chunk' = chunk \/ (chunk[p] <= MaxChunks /\ chunk' = [chunk EXCEPT ![p] = @ + 1])
        BY <1>7 DEF HandleStreamChunk, HandleStreamEnd
      <3>2. chunk \in [Senders -> Chunks] /\ (chunk[p] <= MaxChunks => chunk[p] + 1 \in Chunks)
        BY DEF TypeOK, Chunks
      <3> QED BY <3>1, <3>2
    <2>4. EndingInv'
      BY <1>7 DEF HandleStreamChunk, HandleStreamEnd, EndingInv, TypeOK
    <2> QED BY <1>7, <2>2, <2>3, <2>4 DEF HandleStreamChunk, HandleStreamEnd, TypeOK, EarlyType, subVars
  <1>8. ASSUME NEW p \in Senders, DeleteSession(p) PROVE TypeOK' /\ EarlyType' /\ EndingInv'
    <2>1. /\ streams' = NoSession
          /\ \/ /\ artifact[p] < MaxArtifacts /\ artifact' = [artifact EXCEPT ![p] = @ + 1]
                /\ chunk' = [chunk EXCEPT ![p] = 0] /\ send' = [send EXCEPT ![p] = "recv"]
             \/ send' = [send EXCEPT ![p] = "finished"] /\ artifact' = artifact /\ chunk' = chunk
          /\ UNCHANGED <<created, members, subVars, chan, held, panicked, early, got, slow>>
          /\ send[p] = "ending"
      BY <1>8 DEF DeleteSession
    <2>2. artifact' \in [Senders -> 1..MaxArtifacts] /\ \A q \in Senders : artifact'[q] \in 1..MaxArtifacts
      <3>1. artifact \in [Senders -> 1..MaxArtifacts]
        BY DEF TypeOK, EndingInv
      <3>2. artifact[p] < MaxArtifacts => artifact[p] + 1 \in 1..MaxArtifacts
        BY <3>1
      <3> QED BY <2>1, <3>1, <3>2
    <2>3. chunk' \in [Senders -> Chunks]
      BY <2>1 DEF TypeOK, Chunks
    <2>4. EndingInv'
      BY <2>1, <2>2 DEF EndingInv, TypeOK
    <2>5. artifact' \in [Senders -> 1..(MaxArtifacts + 1)]
      BY <2>2
    <2> QED BY <2>1, <2>3, <2>4, <2>5 DEF TypeOK, EarlyType, subVars
  <1>9. CASE UNCHANGED vars
    BY <1>9 DEF vars, TypeOK, EarlyType, EndingInv
  <1> QED
    BY <1>2, <1>3, <1>4, <1>5, <1>6, <1>7, <1>8, <1>9 DEF Next

\* A sender that has started never looks again as if it had not, and a session that was
\* deleted stays deleted.
LEMMA StartedForGood ==
  ASSUME TypeOK, EndingInv, [Next]_vars
  PROVE  /\ NoneEnded' => NoneEnded
         /\ \A q \in Senders :
               artifact'[q] = 1 /\ chunk'[q] = 0 /\ send'[q] = "recv" =>
                   artifact[q] = 1 /\ chunk[q] = 0 /\ send[q] = "recv"
  <1> DEFINE Goal == /\ \A q \in Senders : artifact'[q] = 1 /\ send'[q] # "finished" =>
                                           artifact[q] = 1 /\ send[q] # "finished"
                     /\ \A q \in Senders :
                           artifact'[q] = 1 /\ chunk'[q] = 0 /\ send'[q] = "recv" =>
                               artifact[q] = 1 /\ chunk[q] = 0 /\ send[q] = "recv"
  <1>0. /\ \A q \in Senders : chunk[q] \in Nat /\ chunk[q] + 1 # 0 /\ artifact[q] \in Nat /\ artifact[q] >= 1
        /\ DOMAIN chunk = Senders /\ DOMAIN artifact = Senders /\ DOMAIN send = Senders
    BY BoundsAssumption DEF TypeOK, Chunks, EndingInv
  <1>1. ASSUME NEW u \in Subs, SubscribeLookup(u) \/ SubscribeJoin(u) \/ Take(u) \/ Cleanup(u) PROVE Goal
    BY <1>1 DEF SubscribeLookup, SubscribeJoin, Take, Cleanup, sendVars
  <1>2. ASSUME NEW p \in Senders, HandleStreamStart(p) PROVE Goal
    BY <1>0, <1>2 DEF HandleStreamStart
  <1>3. ASSUME NEW p \in Senders, Lookup(p) \/ Abort(p) PROVE Goal
    BY <1>0, <1>3 DEF Lookup, Abort
  <1>4. ASSUME NEW p \in Senders, HandleStreamChunk(p) PROVE Goal
    BY <1>0, <1>4 DEF HandleStreamChunk
  <1>5. ASSUME NEW p \in Senders, HandleStreamEnd(p) PROVE Goal
    BY <1>0, <1>5 DEF HandleStreamEnd
  <1>6. ASSUME NEW p \in Senders, DeleteSession(p) PROVE Goal
    <2>1. \A q \in Senders : q # p => artifact'[q] = artifact[q] /\ chunk'[q] = chunk[q] /\ send'[q] = send[q]
      BY <1>0, <1>6 DEF DeleteSession
    <2>2. artifact'[p] # 1 \/ send'[p] = "finished"
      BY <1>0, <1>6 DEF DeleteSession
    <2> QED BY <2>1, <2>2
  <1>7. ASSUME UNCHANGED vars PROVE Goal
    BY <1>7 DEF vars
  <1>8. Goal
    BY <1>1, <1>2, <1>3, <1>4, <1>5, <1>6, <1>7 DEF Next
  <1> QED
    BY <1>8 DEF NoneEnded

\* Every step keeps the subscribers in their session, and all in the same one until the
\* first deletion.
LEMMA OneSessionStep ==
  IndInv /\ TypeOK /\ EndingInv /\ EarlyType /\ OneSessionInv /\ [Next]_vars => OneSessionInv'
  <1> SUFFICES ASSUME IndInv, TypeOK, EndingInv, EarlyType, OneSessionInv, [Next]_vars PROVE OneSessionInv'
    OBVIOUS
  <1>0. NoneEnded' => NoneEnded
    BY StartedForGood
  <1>a. created \in Nat /\ \A x \in Sessions : x # NoSession
    BY NoSessionAssumption, BoundsAssumption DEF TypeOK
  <1>1. ASSUME GetOrCreate, NoneEnded PROVE streams' = 1 /\ created' = 1 /\ Entered = 1 /\ streams' # NoSession
    BY <1>1, <1>a DEF GetOrCreate, Entered, OneSessionInv
  <1>2. ASSUME NEW u \in Subs, SubscribeLookup(u) PROVE OneSessionInv'
    <2>1. /\ GetOrCreate /\ session' = [session EXCEPT ![u] = Entered] /\ sub[u] = "idle"
          /\ sub' = [sub EXCEPT ![u] = "joining"]
          /\ UNCHANGED <<members, send, held, artifact, early>>
      BY <1>2 DEF SubscribeLookup, sendVars
    <2>2. \A v \in Subs : /\ sub'[v] = "open" => v \in members'[session'[v]]
                          /\ sub'[v] \in {"idle", "joining"} => early'[v] = {}
      BY <2>1 DEF OneSessionInv, TypeOK
    <2>3. ASSUME NoneEnded'
          PROVE  /\ created' = 1 /\ streams' = 1 /\ streams' # NoSession
                 /\ \A v \in Subs : sub'[v] \in {"joining", "open"} => session'[v] = 1
                 /\ \A p \in Senders : send'[p] \in {"found", "ending"} => held'[p] = 1
      BY <1>0, <1>1, <2>1, <2>3 DEF OneSessionInv, TypeOK
    <2> QED BY <2>2, <2>3 DEF OneSessionInv
  <1>3. ASSUME NEW u \in Subs, SubscribeJoin(u) PROVE OneSessionInv'
    <2>1. /\ sub[u] = "joining" /\ sub' = [sub EXCEPT ![u] = "open"]
          /\ members' = [members EXCEPT ![session[u]] = @ \cup {u}] /\ session[u] \in Sessions
          /\ UNCHANGED <<streams, created, session, send, held, artifact, early>>
      BY <1>3 DEF SubscribeJoin, sendVars, IndInv, MembersInv
    <2>2. \A x \in Sessions : members[x] \subseteq members'[x]
      BY <2>1 DEF TypeOK
    <2>3. u \in members'[session[u]]
      BY <2>1 DEF TypeOK
    <2>4. \A v \in Subs : sub[v] = "open" => session[v] \in Sessions
      BY DEF IndInv, MembersInv
    <2>5. \A v \in Subs : /\ sub'[v] = "open" => v \in members'[session'[v]]
                          /\ sub'[v] \in {"idle", "joining"} => early'[v] = {}
      BY <2>1, <2>2, <2>3, <2>4 DEF OneSessionInv, TypeOK
    <2>6. \A v \in Subs : sub'[v] \in {"joining", "open"} => sub[v] \in {"joining", "open"}
      BY <2>1 DEF TypeOK
    <2> QED BY <1>0, <2>1, <2>5, <2>6 DEF OneSessionInv
  <1>4. ASSUME NEW u \in Subs, Cleanup(u) PROVE OneSessionInv'
    <2>1. /\ sub[u] = "open" /\ sub' = [sub EXCEPT ![u] = "closed"]
          /\ members' = [members EXCEPT ![session[u]] = @ \ {u}] /\ session[u] \in Sessions
          /\ UNCHANGED <<streams, created, session, send, held, artifact, early>>
      BY <1>4 DEF Cleanup, sendVars, IndInv, MembersInv
    <2>2. \A v \in Subs : v # u => \A x \in Sessions : v \in members[x] => v \in members'[x]
      BY <2>1 DEF TypeOK
    <2>3. \A v \in Subs : sub[v] = "open" => session[v] \in Sessions
      BY DEF IndInv, MembersInv
    <2>4. \A v \in Subs : /\ sub'[v] = "open" => v \in members'[session'[v]]
                          /\ sub'[v] \in {"idle", "joining"} => early'[v] = {}
      BY <2>1, <2>2, <2>3 DEF OneSessionInv, TypeOK
    <2>5. \A v \in Subs : sub'[v] \in {"joining", "open"} => sub[v] \in {"joining", "open"}
      BY <2>1 DEF TypeOK
    <2> QED BY <1>0, <2>1, <2>4, <2>5 DEF OneSessionInv
  <1>5. ASSUME NEW p \in Senders, HandleStreamStart(p) PROVE OneSessionInv'
    <2>1. /\ GetOrCreate
          /\ UNCHANGED <<members, sub, session, send, held, artifact>>
          /\ \A u \in Subs : sub[u] # "open" => early'[u] = early[u]
      BY <1>5 DEF HandleStreamStart, subVars
    <2>2. \A v \in Subs : /\ sub'[v] = "open" => v \in members'[session'[v]]
                          /\ sub'[v] \in {"idle", "joining"} => early'[v] = {}
      BY <2>1 DEF OneSessionInv
    <2>3. ASSUME NoneEnded'
          PROVE  /\ created' = 1 /\ streams' = 1 /\ streams' # NoSession
                 /\ \A v \in Subs : sub'[v] \in {"joining", "open"} => session'[v] = 1
                 /\ \A q \in Senders : send'[q] \in {"found", "ending"} => held'[q] = 1
      BY <1>0, <1>1, <2>1, <2>3 DEF OneSessionInv
    <2> QED BY <2>2, <2>3 DEF OneSessionInv
  <1>6. ASSUME NEW p \in Senders, Lookup(p) PROVE OneSessionInv'
    <2>1. /\ held' = [held EXCEPT ![p] = streams]
          /\ send' = [send EXCEPT ![p] = IF streams = NoSession THEN "failed" ELSE "found"]
          /\ UNCHANGED <<streams, created, members, sub, session, artifact, early>>
      BY <1>6 DEF Lookup, subVars
    <2>2. NoneEnded' => \A q \in Senders : send'[q] \in {"found", "ending"} => held'[q] = 1
      BY <1>0, <2>1 DEF OneSessionInv, TypeOK
    <2> QED BY <1>0, <2>1, <2>2 DEF OneSessionInv
  <1>7. ASSUME NEW p \in Senders, HandleStreamChunk(p) \/ HandleStreamEnd(p) \/ Abort(p) PROVE OneSessionInv'
    <2>1. /\ held' = held /\ \A q \in Senders : send'[q] \in {"found", "ending"} => send[q] \in {"found", "ending"}
          /\ UNCHANGED <<streams, created, members, sub, session, artifact, early>>
      BY <1>7 DEF HandleStreamChunk, HandleStreamEnd, Abort, subVars, TypeOK
    <2> QED BY <1>0, <2>1 DEF OneSessionInv
  <1>8. ASSUME NEW p \in Senders, DeleteSession(p) PROVE OneSessionInv'
    <2>1. UNCHANGED <<members, sub, session, early>>
      BY <1>8 DEF DeleteSession, subVars
    <2>2. ~NoneEnded'
      <3>1. artifact'[p] # 1 \/ send'[p] = "finished"
        BY <1>8 DEF DeleteSession, TypeOK, EndingInv
      <3> QED BY <3>1 DEF NoneEnded
    <2> QED BY <2>1, <2>2 DEF OneSessionInv
  <1>9. CASE UNCHANGED vars \/ \E u \in Subs : Take(u)
    <2>1. UNCHANGED <<streams, created, members, sub, session, send, held, artifact, early>>
      BY <1>9 DEF vars, Take, subVars, sendVars
    <2> QED BY <1>0, <2>1 DEF OneSessionInv
  <1> QED
    BY <1>2, <1>3, <1>4, <1>5, <1>6, <1>7, <1>8, <1>9 DEF Next

\* What u was given of an artifact stays complete when nothing more of it is handled.
LEMMA StillComplete ==
  ASSUME NEW u \in Subs, NEW p \in Senders, NEW a, Complete(u, p, a),
         got[u] \subseteq got'[u], Handled(p, a)' \subseteq Handled(p, a)
  PROVE  Complete(u, p, a)'
  BY DEF Complete

\* Every step gives the events of a first artifact to those who were there for its
\* announcement.
LEMMA FirstStep == IndInv /\ ArtifactInv /\ [Next]_vars => FirstArtifactComplete'
  <1> SUFFICES ASSUME IndInv, ArtifactInv, [Next]_vars,
                      NEW u \in Subs, sub'[u] = "open", ~slow'[u],
                      NEW pa \in early'[u], pa[2] = 1, Alone(pa[1])'
               PROVE  Complete(u, pa[1], 1)'
    BY DEF FirstArtifactComplete
  <1> USE BoundsAssumption
  <1>0. TypeOK /\ EarlyType /\ OneSessionInv /\ EndingInv /\ EarlyType' /\ TypeOK'
    BY TypeStep DEF ArtifactInv
  <1> DEFINE p == pa[1]
  <1>a. p \in Senders
    BY <1>0 DEF EarlyType
  <1>b. Alone(p)
    BY <1>0, <1>a, StartedForGood DEF Alone
  <1>c. /\ \A q \in Senders : chunk[q] \in Nat /\ artifact[q] \in Nat /\ artifact[q] >= 1
        /\ DOMAIN chunk = Senders /\ DOMAIN artifact = Senders /\ DOMAIN send = Senders
        /\ chunk[p] \in Chunks
    BY <1>0, <1>a DEF TypeOK, Chunks, EndingInv
  \* What held of u before the step.
  <1>d. ASSUME sub[u] = "open", ~slow[u], pa \in early[u] PROVE Complete(u, p, 1)
    BY <1>b, <1>d DEF ArtifactInv, FirstArtifactComplete
  <1> HIDE DEF p
  <1>1. ASSUME NEW v \in Subs, SubscribeLookup(v) \/ SubscribeJoin(v) \/ Take(v) \/ Cleanup(v)
        PROVE  Complete(u, p, 1)'
    <2>1. UNCHANGED <<send, artifact, chunk, early, got, slow>>
      BY <1>1 DEF SubscribeLookup, SubscribeJoin, Take, Cleanup, sendVars
    <2>2. sub[u] = "open"
      <3>1. early[u] # {}
        BY <2>1
      <3>2. sub[u] \notin {"idle", "joining"}
        BY <1>0, <3>1 DEF OneSessionInv
      <3>3. sub[u] # "closed"
        BY <1>0, <1>1 DEF SubscribeLookup, SubscribeJoin, Take, Cleanup, subVars, TypeOK
      <3> QED BY <1>0, <3>2, <3>3 DEF TypeOK
    <2>3. Handled(p, 1)' = Handled(p, 1)
      BY <2>1 DEF Handled
    <2> QED BY <1>a, <1>d, <2>1, <2>2, <2>3, StillComplete
  <1>2. ASSUME NEW q \in Senders, Lookup(q) \/ Abort(q) PROVE Complete(u, p, 1)'
    <2>1. /\ UNCHANGED <<sub, artifact, chunk, early, got, slow>>
          /\ send[q] = "recv" /\ \E x \in {"found", "failed"} : send' = [send EXCEPT ![q] = x]
      BY <1>2 DEF Lookup, Abort, subVars
    <2>2. send'[p] \in {"ending", "finished"} <=> send[p] \in {"ending", "finished"}
      BY <1>a, <1>c, <2>1
    <2>3. Handled(p, 1)' = Handled(p, 1)
      BY <2>1, <2>2 DEF Handled
    <2> QED BY <1>a, <1>d, <2>1, <2>3, StillComplete
  \* A broadcast: of nobody but p, since p is still alone after it.
  <1>3. ASSUME NEW q \in Senders, NEW x \in Sessions, Broadcast(x, Current(q)),
               sub' = sub, artifact' = artifact,
               NoneEnded => x = 1, sub[u] = "open" => (NoneEnded => session[u] = 1),
               chunk'[q] # 0 \/ send'[q] # "recv",
               send[q] \notin {"ending", "finished"},
               chunk'[q] = chunk[q] + 1 \/ (chunk'[q] = chunk[q] /\ send'[q] = "ending"),
               send'[q] = "ending" => chunk'[q] = chunk[q],
               send'[q] # "finished",
               pa \in early[u] \/ (pa = <<q, artifact[q]>> /\ chunk[q] = 0)
        PROVE  Complete(u, p, 1)'
    <2>1. p = q
      BY <1>a, <1>3 DEF Alone, p
    <2>2. /\ got[u] \subseteq got'[u] /\ ~slow[u] /\ sub[u] = "open"
          /\ u \in members[x] => Current(q) \in got'[u]
      BY <1>0, <1>3, BroadcastFacts, CurrentIsEvent DEF EarlyType
    <2>3. CASE artifact[p] = 1
      <3>1. NoneEnded
        BY <1>b, <1>3, <2>1, <2>3 DEF NoneEnded, Alone
      <3>2. u \in members[x]
        BY <1>0, <1>3, <2>2, <3>1 DEF OneSessionInv
      <3>3. [from |-> p, artifact |-> 1, chunk |-> chunk[p]] \in got'[u]
        BY <2>1, <2>2, <2>3, <3>2 DEF Current
      <3>4. \A c \in Handled(p, 1)' : c \in Handled(p, 1) \/ c = chunk[p]
        BY <1>3, <1>c, <2>1, <2>3 DEF Handled, Chunks
      <3>5. CASE pa \in early[u]
        <4>1. Complete(u, p, 1)
          BY <1>d, <2>2, <3>5
        <4> QED BY <2>2, <3>3, <3>4, <4>1 DEF Complete
      <3>6. CASE pa \notin early[u]
        <4>1. Handled(p, 1) = {}
          BY <1>3, <2>1, <2>3, <3>6 DEF Handled, Chunks
        <4> QED BY <3>3, <3>4, <4>1 DEF Complete
      <3> QED BY <3>5, <3>6
    <2>4. CASE artifact[p] # 1
      <3>1. pa \in early[u]
        BY <1>3, <2>1, <2>4
      <3>2. 1 < artifact[p] /\ Handled(p, 1) = Chunks /\ Handled(p, 1)' = Chunks
        BY <1>a, <1>c, <1>3, <2>4 DEF Handled
      <3> QED BY <1>a, <1>d, <2>2, <3>1, <3>2, StillComplete
    <2> QED BY <2>3, <2>4
  <1>4. ASSUME NEW q \in Senders, HandleStreamStart(q) PROVE Complete(u, p, 1)'
    <2>1. /\ Entered \in Sessions /\ Broadcast(Entered, Current(q)) /\ sub' = sub /\ artifact' = artifact
          /\ send' = send /\ send[q] = "recv" /\ chunk[q] = 0 /\ chunk'[q] = 1
      BY <1>c, <1>4 DEF HandleStreamStart, GetOrCreate, subVars
    <2>2. sub[u] = "open" /\ (NoneEnded => Entered = 1)
      BY <1>0, <2>1 DEF Entered, OneSessionInv
    <2>3. NoneEnded => session[u] = 1
      BY <1>0, <2>2 DEF OneSessionInv
    <2>4. pa \in early[u] \/ pa = <<q, artifact[q]>>
      BY <1>4 DEF HandleStreamStart
    <2> QED BY <1>3, <2>1, <2>2, <2>3, <2>4
  <1>5. ASSUME NEW q \in Senders, HandleStreamChunk(q) \/ HandleStreamEnd(q) PROVE Complete(u, p, 1)'
    <2>1. /\ Broadcast(held[q], Current(q)) /\ sub' = sub /\ artifact' = artifact /\ early' = early
          /\ send[q] = "found"
          /\ \/ chunk'[q] = chunk[q] + 1 /\ send'[q] = "recv"
             \/ chunk'[q] = chunk[q] /\ send'[q] = "ending"
      BY <1>c, <1>5 DEF HandleStreamChunk, HandleStreamEnd, subVars
    <2>2. held[q] \in Sessions /\ (NoneEnded => held[q] = 1)
      BY <1>0, <2>1 DEF OneSessionInv, IndInv, HeldInv
    <2>3. sub[u] = "open" /\ (NoneEnded => session[u] = 1)
      BY <1>0, <2>1 DEF OneSessionInv
    <2>4. chunk[q] + 1 # 0
      BY <1>c
    <2>5. pa \in early[u]
      BY <2>1
    <2> QED BY <1>3, <2>1, <2>2, <2>3, <2>4, <2>5
  <1>6. ASSUME NEW q \in Senders, DeleteSession(q) PROVE Complete(u, p, 1)'
    <2>1. /\ UNCHANGED <<sub, early, got, slow>> /\ send[q] = "ending" /\ chunk[q] = MaxChunks + 1
          /\ artifact'[q] = artifact[q] + 1 \/ (artifact'[q] = artifact[q] /\ chunk'[q] = chunk[q] /\ send'[q] = "finished")
      BY <1>0, <1>c, <1>6 DEF DeleteSession, subVars, EndingInv
    <2>2. p = q
      <3>1. ~(artifact'[q] = 1 /\ send'[q] = "recv")
        BY <1>c, <2>1
      <3> QED BY <1>a, <3>1 DEF Alone, p
    <2>3. Handled(p, 1) = Chunks
      <3>1. CASE artifact[p] = 1
        <4>1. \A c \in Chunks : c < chunk[p] \/ (c = chunk[p] /\ send[p] \in {"ending", "finished"})
          BY <2>1, <2>2 DEF Chunks
        <4> QED BY <3>1, <4>1 DEF Handled
      <3>2. CASE artifact[p] # 1
        BY <1>a, <1>c, <3>2 DEF Handled
      <3> QED BY <3>1, <3>2
    <2>4. Handled(p, 1)' \subseteq Chunks
      BY DEF Handled
    <2>5. Complete(u, p, 1)
      BY <1>d, <2>1
    <2> QED BY <1>a, <2>1, <2>3, <2>4, <2>5, StillComplete
  <1>7. ASSUME UNCHANGED vars PROVE Complete(u, p, 1)'
    <2>1. UNCHANGED <<sub, send, artifact, chunk, early, got, slow>>
      BY <1>7 DEF vars
    <2>2. Handled(p, 1)' = Handled(p, 1)
      BY <2>1 DEF Handled
    <2> QED BY <1>a, <1>d, <2>1, <2>2, StillComplete
  <1>8. Complete(u, p, 1)'
    BY <1>1, <1>2, <1>4, <1>5, <1>6, <1>7 DEF Next
  <1> QED
    BY <1>8 DEF p

\* The invariant behind FirstArtifactComplete, with the types: a channel never holds more
\* than it has room for (stream.go:44).
THEOREM ArtifactInvCorrect == Spec => [](IndInv /\ ArtifactInv)
  <1>1. Init => ArtifactInv
    <2> SUFFICES ASSUME Init PROVE ArtifactInv
      OBVIOUS
    <2> USE BoundsAssumption, NoSessionAssumption DEF Init
    <2>1. TypeOK
      <3>1. chan \in [Subs -> Seq(Event)] /\ \A u \in Subs : Len(chan[u]) <= ChanCap
        OBVIOUS
      <3>2. artifact \in [Senders -> 1..(MaxArtifacts + 1)] /\ chunk \in [Senders -> Chunks] /\ created \in 0..MaxSessions
        BY DEF Chunks
      <3>3. slow \in [Subs -> BOOLEAN] /\ panicked \in BOOLEAN
        BY Zenon
      <3> QED BY <3>1, <3>2, <3>3 DEF TypeOK
    <2>2. EarlyType /\ EndingInv
      BY DEF EarlyType, EndingInv
    <2>3. OneSessionInv
      BY DEF OneSessionInv
    <2>4. FirstArtifactComplete
      BY DEF FirstArtifactComplete
    <2> QED BY <2>1, <2>2, <2>3, <2>4 DEF ArtifactInv
  <1>2. IndInv /\ [Next]_vars => IndInv'
    BY MembersStep, HeldStep, PanicStep DEF IndInv
  <1>3. IndInv /\ ArtifactInv /\ [Next]_vars => ArtifactInv'
    BY TypeStep, OneSessionStep, FirstStep DEF ArtifactInv
  <1> QED
    BY InitIndInv, <1>1, <1>2, <1>3, PTL DEF Spec

\* A subscriber that was there when the first artifact of a lone sender was announced, and
\* was never slow, is given every event of it that was handled, for any number of
\* subscribers, chunks and senders (stream.go:41-57, 74-82).
THEOREM FirstArtifactCompleteCorrect == Spec => []FirstArtifactComplete
  <1>1. ArtifactInv => FirstArtifactComplete
    BY DEF ArtifactInv
  <1> QED
    BY ArtifactInvCorrect, <1>1, PTL
=============================================================================

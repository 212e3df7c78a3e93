----------------------------- MODULE AgentCards -----------------------------
(***************************************************************************)
(* Agent cards: how a daemon gets its own card (recovered from the store,  *)
(* extended by the MCP proxy, replaced by the SDK), persists it, and       *)
(* exchanges it with its peers (internal/node/host.go, protocols.go,       *)
(* pkg/grpcserver/server.go, cmd/agentanycastd/main.go).                   *)
(*                                                                         *)
(* Every node runs the same code.  A card is the revision the SDK set last *)
(* (0: the card the proxy generated) and the proxied skills it lists.  An  *)
(* exchange has two sides that go on independently once the card is        *)
(* written: the initiator (ExchangeCard) and the stream handler of the     *)
(* peer.  SetPeerCard writes memory under h.mu and the store after the     *)
(* unlock: two steps.  A stream that is opened to a peer without a         *)
(* connection fails; the dial it would make is Connect.                    *)
(***************************************************************************)
EXTENDS Integers, Sequences, FiniteSets

CONSTANTS
    Nodes,
    FaultyStores,  \* nodes whose store may fail
    Tools,      \* Tools[n]: the tools of n's MCP subprocess, a sequence
    Calls,      \* SetAgentCard calls that can be under way at once
    Slots,      \* bound: exchanges under way at once
    NoCard,
    MaxRev,     \* bound: MaxRev[n] SetAgentCard calls of node n
    MaxBoots,   \* bound: MaxBoots[n] starts of daemon n
    MaxLoad     \* bound: exchanges under way, with a node's starts and calls so far

AllTools == UNION {{Tools[n][i] : i \in DOMAIN Tools[n]} : n \in Nodes}
Cards    == [rev : Nat, skills : Seq(AllTools)]

ASSUME BoundsAssumption ==
    MaxRev \in [Nodes -> Nat] /\ MaxBoots \in [Nodes -> Nat] /\ MaxLoad \in Nat
ASSUME CardAssumption   == NoCard \notin Cards /\ \A n \in Nodes : Tools[n] \in Seq(AllTools)

Pairs == {p \in Nodes \X Nodes : p[1] # p[2]}
Links == {{p[1], p[2]} : p \in Pairs}

VARIABLES
    boot,      \* boot[n]: "down", "early" (host up), "wired" (handlers set), "serving"
    boots,     \* boots[n]: starts so far
    unlisted,  \* unlisted[n]: tools whose skill is still to be registered
    card,      \* card[n]: s.card and s.cardRaw
    rev,       \* rev[n]: SetAgentCard calls so far
    selfDisk,  \* selfDisk[n]: "card:self" in n's store
    peerCard,  \* peerCard[n][m]: h.peerCards[m]
    peerDisk,  \* peerDisk[n][m]: "card:<m>" in n's store
    call,      \* call[c]: a SetAgentCard call
    links,     \* the connections
    greet,     \* <<n, m>>: n's OnPeerConnected(m) or ConnectPeer(m) has not read the card yet
    slot,      \* slot[x]: an exchange
    \* history
    early,     \* connections made before both sides had set OnPeerConnected
    lost,      \* <<n, m>>: on this connection an exchange of n with m failed before m had the card
    putFailed, \* nodes whose store failed to write or to read a card
    crossed,   \* <<n, m>>: n wrote m's card to memory while an earlier write of it was
               \* still on its way to the store, and none has been stored alone since
    overlap    \* overlap[n]: the card that n got last, and those of the SetAgentCard calls
               \* before it that were not all on disk when the next one came

vars == <<boot, boots, unlisted, card, rev, selfDisk, peerCard, peerDisk, call,
          links, greet, slot, early, lost, putFailed, crossed, overlap>>

IdleCall == [phase |-> "idle"]
Empty    == [ini |-> "idle", res |-> "idle"]

Init ==
    /\ boot      = [n \in Nodes |-> "down"]
    /\ boots     = [n \in Nodes |-> 0]
    /\ unlisted  = [n \in Nodes |-> <<>>]
    /\ card      = [n \in Nodes |-> NoCard]
    /\ rev       = [n \in Nodes |-> 0]
    /\ selfDisk  = [n \in Nodes |-> NoCard]
    /\ peerCard  = [n \in Nodes |-> [m \in Nodes |-> NoCard]]
    /\ peerDisk  = [n \in Nodes |-> [m \in Nodes |-> NoCard]]
    /\ call      = [c \in Calls |-> IdleCall]
    /\ links     = {}
    /\ greet     = {}
    /\ slot      = [x \in Slots |-> Empty]
    /\ early     = {}
    /\ lost      = {}
    /\ putFailed = {}
    /\ crossed   = {}
    /\ overlap   = [n \in Nodes |-> {}]

Wired(n) == boot[n] \in {"wired", "serving"}

\* The bound on what comes together: the later it is, the fewer exchanges at once.
WithinLoad ==
    \A n \in Nodes : boots[n] + rev[n] + Cardinality({x \in Slots : slot[x] # Empty}) <= MaxLoad

---------------------------------------------------------------------------
(* The daemon's start and stop.                                            *)

\* RecoverCards: the stored cards of the peers, none when they cannot be listed.
RecoverCards(n, listed) == IF listed THEN peerDisk[n] ELSE [m \in Nodes |-> NoCard]

GetSelfCard(n) == selfDisk[n]

\* NewHost, SetStore, RecoverCards and grpcserver.New, which takes the stored self
\* card as the local card.
Start(n, listed) ==
    /\ boot[n] = "down" /\ boots[n] < MaxBoots[n]
    /\ listed \/ n \in FaultyStores
    /\ boot'      = [boot EXCEPT ![n] = "early"]
    /\ boots'     = [boots EXCEPT ![n] = @ + 1]
    /\ peerCard'  = [peerCard EXCEPT ![n] = RecoverCards(n, listed)]
    /\ putFailed' = IF listed THEN putFailed ELSE putFailed \cup {n}
    /\ card'      = [card EXCEPT ![n] = GetSelfCard(n)]
    /\ crossed'   = {p \in crossed : p[1] # n}
    /\ overlap'   = [overlap EXCEPT ![n] = {GetSelfCard(n)}]
    /\ UNCHANGED <<unlisted, rev, selfDisk, peerDisk, call, links, greet, slot, early, lost>>
    /\ WithinLoad'

\* RegisterCardProtocol and the assignment of h.OnPeerConnected; the MCP subprocess
\* starts after it and tells its tools.
Wire(n) ==
    /\ boot[n] = "early"
    /\ boot'     = [boot EXCEPT ![n] = "wired"]
    /\ unlisted' = [unlisted EXCEPT ![n] = Tools[n]]
    /\ UNCHANGED <<boots, card, rev, selfDisk, peerCard, peerDisk, call, links, greet, slot,
                   early, lost, putFailed, crossed, overlap>>

\* Mutant: the card is marshalled for the store before the tool joins it.
RegisterProxySkill_MarshalsFirst(n, put) ==
    /\ boot[n] = "wired" /\ unlisted[n] # <<>>
    /\ put \/ n \in FaultyStores
    /\ LET base == IF card[n] = NoCard THEN [rev |-> 0, skills |-> <<>>] ELSE card[n]
           new  == [base EXCEPT !.skills = Append(@, Head(unlisted[n]))]
       IN  /\ card'     = [card EXCEPT ![n] = new]
           /\ overlap'  = [overlap EXCEPT ![n] = {new}]
           /\ selfDisk' = IF put THEN [selfDisk EXCEPT ![n] = base] ELSE selfDisk
    /\ putFailed' = IF put THEN putFailed ELSE putFailed \cup {n}
    /\ unlisted' = [unlisted EXCEPT ![n] = Tail(@)]
    /\ UNCHANGED <<boot, boots, rev, peerCard, peerDisk, call, links, greet, slot, early, lost, crossed>>

\* The next tool of the proxy joins the card, whatever the card already lists, and the
\* card is stored, all under s.mu.  Nothing is sent to the peers.
RegisterProxySkill(n, put) ==
    /\ boot[n] = "wired" /\ unlisted[n] # <<>>
    /\ put \/ n \in FaultyStores
    /\ LET base == IF card[n] = NoCard THEN [rev |-> 0, skills |-> <<>>] ELSE card[n]
           new  == [base EXCEPT !.skills = Append(@, Head(unlisted[n]))]
       IN  /\ card'     = [card EXCEPT ![n] = new]
           /\ overlap'  = [overlap EXCEPT ![n] = {new}]
           /\ selfDisk' = IF put THEN [selfDisk EXCEPT ![n] = new] ELSE selfDisk
    /\ putFailed' = IF put THEN putFailed ELSE putFailed \cup {n}
    /\ unlisted' = [unlisted EXCEPT ![n] = Tail(@)]
    /\ UNCHANGED <<boot, boots, rev, peerCard, peerDisk, call, links, greet, slot, early, lost, crossed>>

\* ListenAndServe: from here on SDKs can call.
Serve(n) ==
    /\ boot[n] = "wired" /\ unlisted[n] = <<>>
    /\ boot' = [boot EXCEPT ![n] = "serving"]
    /\ UNCHANGED <<boots, unlisted, card, rev, selfDisk, peerCard, peerDisk, call, links, greet,
                   slot, early, lost, putFailed, crossed, overlap>>

\* An exchange whose two sides have ended leaves its slot.
Remaining(s) == IF s.ini = "idle" /\ s.res = "idle" THEN Empty ELSE s

\* The side of an exchange that is left when node n has gone.
Without(x, n) ==
    IF slot[x] = Empty THEN Empty
    ELSE LET ini == IF slot[x].from = n THEN "idle" ELSE slot[x].ini
             res == IF slot[x].to = n THEN "idle" ELSE slot[x].res
         IN  Remaining([slot[x] EXCEPT !.ini = ini, !.res = res])

\* The daemon stops or crashes: what it held in memory is gone, its calls and its
\* sides of the exchanges with it.  (A daemon that may not start again is not stopped:
\* to its peers that is Disconnect.)
Stop(n) ==
    /\ boot[n] # "down" /\ boots[n] < MaxBoots[n]
    /\ boot'     = [boot EXCEPT ![n] = "down"]
    /\ unlisted' = [unlisted EXCEPT ![n] = <<>>]
    /\ card'     = [card EXCEPT ![n] = NoCard]
    /\ peerCard' = [peerCard EXCEPT ![n] = [m \in Nodes |-> NoCard]]
    /\ call'     = [c \in Calls |->
                        IF call[c] # IdleCall /\ call[c].node = n THEN IdleCall ELSE call[c]]
    /\ links'    = {l \in links : n \notin l}
    /\ greet'    = {g \in greet : g[1] # n}
    /\ slot'     = [x \in Slots |-> Without(x, n)]
    /\ early'    = {l \in early : n \notin l}
    /\ lost'     = {p \in lost : n \notin {p[1], p[2]}}
    /\ UNCHANGED <<boots, rev, selfDisk, peerDisk, putFailed, crossed, overlap>>

---------------------------------------------------------------------------
(* Connections.  ConnectedF runs on both sides and starts OnPeerConnected, *)
(* if it has been set, in a goroutine of its own.                          *)

Connect(n, m) ==
    /\ boot[n] # "down" /\ boot[m] # "down"
    /\ {n, m} \notin links
    /\ links' = links \cup {{n, m}}
    /\ greet' = greet \cup {p \in {<<n, m>>, <<m, n>>} : Wired(p[1])}
    /\ early' = IF Wired(n) /\ Wired(m) THEN early ELSE early \cup {{n, m}}
    /\ UNCHANGED <<boot, boots, unlisted, card, rev, selfDisk, peerCard, peerDisk, call, slot,
                   lost, putFailed, crossed, overlap>>

Disconnect(n, m) ==
    /\ {n, m} \in links
    /\ links' = links \ {{n, m}}
    /\ early' = early \ {{n, m}}
    /\ lost'  = lost \ {<<n, m>>, <<m, n>>}
    /\ UNCHANGED <<boot, boots, unlisted, card, rev, selfDisk, peerCard, peerDisk, call, greet,
                   slot, putFailed, crossed, overlap>>

\* ConnectPeer to a peer that is connected already: only the exchange of cards.
ConnectPeer(n, m) ==
    /\ boot[n] = "serving" /\ {n, m} \in links
    /\ greet' = greet \cup {<<n, m>>}
    /\ UNCHANGED <<boot, boots, unlisted, card, rev, selfDisk, peerCard, peerDisk, call, links,
                   slot, early, lost, putFailed, crossed, overlap>>

---------------------------------------------------------------------------
(* SetAgentCard.                                                           *)

\* The calls of n whose card is not in its store yet.
Persisting(n) == {c \in Calls : call[c] # IdleCall /\ call[c].phase = "set" /\ call[c].node = n}

\* The critical section.
SetAgentCard(c, n) ==
    /\ call[c] = IdleCall /\ boot[n] = "serving" /\ rev[n] < MaxRev[n]
    /\ LET new == [rev |-> rev[n] + 1, skills |-> <<>>]
       IN  /\ card' = [card EXCEPT ![n] = new]
           /\ call' = [call EXCEPT ![c] = [phase |-> "set", node |-> n, card |-> new]]
           /\ overlap' = [overlap EXCEPT ![n] = IF Persisting(n) = {} THEN {new} ELSE @ \cup {new}]
    /\ rev' = [rev EXCEPT ![n] = @ + 1]
    /\ UNCHANGED <<boot, boots, unlisted, selfDisk, peerCard, peerDisk, links, greet, slot,
                   early, lost, putFailed, crossed>>
    /\ WithinLoad'

\* h.SetSelfCard(raw), after the unlock.
SetSelfCard(c, put) ==
    /\ call[c].phase = "set"
    /\ put \/ call[c].node \in FaultyStores
    /\ selfDisk'  = IF put THEN [selfDisk EXCEPT ![call[c].node] = call[c].card] ELSE selfDisk
    /\ putFailed' = IF put THEN putFailed ELSE putFailed \cup {call[c].node}
    /\ call'      = [call EXCEPT ![c].phase = "stored"]
    /\ UNCHANGED <<boot, boots, unlisted, card, rev, peerCard, peerDisk, links, greet, slot,
                   early, lost, crossed, overlap>>

Exchange(n, m, data) ==
    [from |-> n, to |-> m, card |-> data, reply |-> NoCard, ini |-> "ready", res |-> "idle"]

Free == {x \in Slots : slot[x] = Empty}

Neighbours(n) == {m \in Nodes : {n, m} \in links}

\* One goroutine for each peer connected now, each with the card of this call.
Push(c) ==
    /\ call[c].phase = "stored"
    /\ LET n == call[c].node
       IN  \E f \in [Neighbours(n) -> Free] :
             /\ \A m1, m2 \in Neighbours(n) : f[m1] = f[m2] => m1 = m2
             /\ slot' = [x \in Slots |->
                    IF \E m \in Neighbours(n) : f[m] = x
                    THEN Exchange(n, CHOOSE m \in Neighbours(n) : f[m] = x, call[c].card)
                    ELSE slot[x]]
    /\ call' = [call EXCEPT ![c] = IdleCall]
    /\ UNCHANGED <<boot, boots, unlisted, card, rev, selfDisk, peerCard, peerDisk, links, greet,
                   early, lost, putFailed, crossed, overlap>>
    /\ WithinLoad'

---------------------------------------------------------------------------
(* The exchange.                                                           *)

\* Mutant: the card in the store is sent, not the one in memory.
Greet_Stored(n, m) ==
    /\ <<n, m>> \in greet
    /\ greet' = greet \ {<<n, m>>}
    /\ IF selfDisk[n] = NoCard THEN slot' = slot
       ELSE \E x \in Free : slot' = [slot EXCEPT ![x] = Exchange(n, m, selfDisk[n])]
    /\ UNCHANGED <<boot, boots, unlisted, card, rev, selfDisk, peerCard, peerDisk, call, links,
                   early, lost, putFailed, crossed, overlap>>
    /\ WithinLoad'

\* The callback, or ConnectPeer after host.Connect, reads the local card; without one
\* there is no exchange.
Greet(n, m) ==
    /\ <<n, m>> \in greet
    /\ greet' = greet \ {<<n, m>>}
    /\ IF card[n] = NoCard THEN slot' = slot
       ELSE \E x \in Free : slot' = [slot EXCEPT ![x] = Exchange(n, m, card[n])]
    /\ UNCHANGED <<boot, boots, unlisted, card, rev, selfDisk, peerCard, peerDisk, call, links,
                   early, lost, putFailed, crossed, overlap>>
    /\ WithinLoad'

\* slot[x] when one side has ended.
EndedIni(x) == Remaining([slot[x] EXCEPT !.ini = "idle"])
EndedRes(x) == Remaining([slot[x] EXCEPT !.res = "idle"])

\* What a failure of x adds to lost.
Failed(x) ==
    IF {slot[x].from, slot[x].to} \in links THEN {<<slot[x].from, slot[x].to>>} ELSE {}

\* ExchangeCard opens the stream and writes the card; the peer's handler starts.
WriteCard(x) ==
    /\ slot[x].ini = "ready"
    /\ {slot[x].from, slot[x].to} \in links /\ Wired(slot[x].to)
    /\ slot' = [slot EXCEPT ![x].ini = "waiting", ![x].res = "reading"]
    /\ UNCHANGED <<boot, boots, unlisted, card, rev, selfDisk, peerCard, peerDisk, call, links,
                   greet, early, lost, putFailed, crossed, overlap>>

\* The stream cannot be opened or written, or the 5 seconds are over.
WriteFails(x) ==
    /\ slot[x].ini = "ready"
    /\ slot' = [slot EXCEPT ![x] = EndedIni(x)]
    /\ lost' = lost \cup Failed(x)
    /\ UNCHANGED <<boot, boots, unlisted, card, rev, selfDisk, peerCard, peerDisk, call, links,
                   greet, early, putFailed, crossed, overlap>>

\* The exchanges that have put m's card into n's memory and not yet into its store.
Storing(n, m) ==
    {x \in Slots : slot[x] # Empty /\
        \/ slot[x].res = "storing" /\ slot[x].to = n /\ slot[x].from = m
        \/ slot[x].ini = "storing" /\ slot[x].from = n /\ slot[x].to = m}

\* The critical section of SetPeerCard: node n notes the card of m.
SetPeerCard(n, m, data) ==
    /\ peerCard' = [peerCard EXCEPT ![n][m] = data]
    /\ crossed'  = IF Storing(n, m) = {} THEN crossed \ {<<n, m>>} ELSE crossed \cup {<<n, m>>}

\* Mutant: the handler stores the card under the wrong end of the connection.
ReadCard_LocalPeer(x) ==
    /\ slot[x].res = "reading"
    /\ SetPeerCard(slot[x].to, slot[x].to, slot[x].card)
    /\ slot'     = [slot EXCEPT ![x].res = "storing"]
    /\ UNCHANGED <<boot, boots, unlisted, card, rev, selfDisk, peerDisk, call, links, greet,
                   early, lost, putFailed, overlap>>

\* The handler has read the card: SetPeerCard, its critical section.
ReadCard(x) ==
    /\ slot[x].res = "reading"
    /\ SetPeerCard(slot[x].to, slot[x].from, slot[x].card)
    /\ slot'     = [slot EXCEPT ![x].res = "storing"]
    /\ UNCHANGED <<boot, boots, unlisted, card, rev, selfDisk, peerDisk, call, links, greet,
                   early, lost, putFailed, overlap>>

\* The stream breaks before the handler has the whole frame.
ReadFails(x) ==
    /\ slot[x].res = "reading"
    /\ slot' = [slot EXCEPT ![x] = EndedRes(x)]
    /\ lost' = lost \cup Failed(x)
    /\ UNCHANGED <<boot, boots, unlisted, card, rev, selfDisk, peerCard, peerDisk, call, links,
                   greet, early, putFailed, crossed, overlap>>

\* The second half of SetPeerCard: node n stores m's card.
Store(n, m, data, put) ==
    /\ put \/ n \in FaultyStores
    /\ peerDisk'  = IF put THEN [peerDisk EXCEPT ![n][m] = data] ELSE peerDisk
    /\ putFailed' = IF put THEN putFailed ELSE putFailed \cup {n}

StorePeerCard(x, put) ==
    /\ slot[x].res = "storing"
    /\ Store(slot[x].to, slot[x].from, slot[x].card, put)
    /\ slot' = [slot EXCEPT ![x].res = "replying"]
    /\ UNCHANGED <<boot, boots, unlisted, card, rev, selfDisk, peerCard, call, links, greet,
                   early, lost, crossed, overlap>>

\* The handler sends its own card back, if it has one, and closes the stream.
Reply(x, sent) ==
    /\ slot[x].res = "replying"
    /\ slot' = [slot EXCEPT ![x] =
           IF sent /\ slot[x].ini = "waiting"
           THEN [slot[x] EXCEPT !.res = "idle", !.reply = card[slot[x].to]]
           ELSE EndedRes(x)]
    /\ UNCHANGED <<boot, boots, unlisted, card, rev, selfDisk, peerCard, peerDisk, call, links,
                   greet, early, lost, putFailed, crossed, overlap>>

\* ExchangeCard reads the reply: SetPeerCard, its critical section.
ReadReply(x) ==
    /\ slot[x].ini = "waiting" /\ slot[x].reply # NoCard
    /\ SetPeerCard(slot[x].from, slot[x].to, slot[x].reply)
    /\ slot'     = [slot EXCEPT ![x].ini = "storing"]
    /\ UNCHANGED <<boot, boots, unlisted, card, rev, selfDisk, peerDisk, call, links, greet,
                   early, lost, putFailed, overlap>>

\* The stream is closed without a reply, or breaks, or the wait is over.
NoReply(x) ==
    /\ slot[x].ini = "waiting"
    /\ slot' = [slot EXCEPT ![x] = EndedIni(x)]
    /\ UNCHANGED <<boot, boots, unlisted, card, rev, selfDisk, peerCard, peerDisk, call, links,
                   greet, early, lost, putFailed, crossed, overlap>>

StoreReply(x, put) ==
    /\ slot[x].ini = "storing"
    /\ Store(slot[x].from, slot[x].to, slot[x].reply, put)
    /\ slot' = [slot EXCEPT ![x] = EndedIni(x)]
    /\ UNCHANGED <<boot, boots, unlisted, card, rev, selfDisk, peerCard, call, links, greet,
                   early, lost, crossed, overlap>>

Next ==
    \/ \E n \in Nodes :
          \/ \E listed \in BOOLEAN : Start(n, listed)
          \/ Wire(n)
          \/ \E put \in BOOLEAN : RegisterProxySkill(n, put)
          \/ Serve(n)
          \/ Stop(n)
          \/ \E c \in Calls : SetAgentCard(c, n)
    \/ \E p \in Pairs :
          \/ Connect(p[1], p[2])
          \/ Disconnect(p[1], p[2])
          \/ ConnectPeer(p[1], p[2])
          \/ Greet(p[1], p[2])
    \/ \E c \in Calls :
          \/ \E put \in BOOLEAN : call[c] # IdleCall /\ SetSelfCard(c, put)
          \/ call[c] # IdleCall /\ Push(c)
    \/ \E x \in Slots :
          \/ WriteCard(x)
          \/ WriteFails(x)
          \/ ReadCard(x)
          \/ ReadFails(x)
          \/ \E put \in BOOLEAN : StorePeerCard(x, put) \/ StoreReply(x, put)
          \/ \E sent \in BOOLEAN : Reply(x, sent)
          \/ ReadReply(x)
          \/ NoReply(x)

Spec == Init /\ [][Next]_vars

---------------------------------------------------------------------------
(* Properties.                                                             *)

Exchanges ==
    [from : Nodes, to : Nodes, card : Cards, reply : Cards \cup {NoCard},
     ini : {"idle", "ready", "waiting", "storing"},
     res : {"idle", "reading", "storing", "replying"}]

\* The types of the variables.  A node never files a card under its own name, and an
\* exchange is between two nodes and has a card to write.
TypeOK ==
    /\ boot \in [Nodes -> {"down", "early", "wired", "serving"}]
    /\ boots \in [Nodes -> Nat] /\ rev \in [Nodes -> Nat]
    /\ \A n \in Nodes : boots[n] <= MaxBoots[n] /\ rev[n] <= MaxRev[n]
    /\ unlisted \in [Nodes -> Seq(AllTools)]
    /\ card \in [Nodes -> Cards \cup {NoCard}] /\ selfDisk \in [Nodes -> Cards \cup {NoCard}]
    /\ peerCard \in [Nodes -> [Nodes -> Cards \cup {NoCard}]]
    /\ peerDisk \in [Nodes -> [Nodes -> Cards \cup {NoCard}]]
    /\ \A n \in Nodes : peerCard[n][n] = NoCard /\ peerDisk[n][n] = NoCard
    /\ call \in [Calls -> {IdleCall} \cup [phase : {"set", "stored"}, node : Nodes, card : Cards]]
    /\ slot \in [Slots -> {Empty} \cup Exchanges]
    /\ \A x \in Slots : slot[x] # Empty => slot[x].from # slot[x].to
    /\ links \subseteq Links /\ early \subseteq links /\ greet \subseteq Pairs /\ lost \subseteq Pairs

\* Nothing about cards is under way.
Quiet ==
    /\ greet = {}
    /\ \A x \in Slots : slot[x] = Empty
    /\ \A c \in Calls : call[c] = IdleCall

\* n and m are connected and no exchange of n with m has failed on this connection.
Sound(n, m) == {n, m} \in links /\ <<n, m>> \notin lost

\* A card the SDK has set is known to every connected peer once nothing is under way,
\* whichever of SetAgentCard (card first, then the list of the peers) and the connection
\* (connected first, then the card) came first: no peer falls between the push and the
\* callback.  Connections from before the callback was set are left out.
CardReachesPeer ==
    Quiet => \A n, m \in Nodes :
        Sound(n, m) /\ {n, m} \notin early /\ card[n] # NoCard /\ card[n].rev > 0
            => peerCard[m][n] # NoCard

\* host.go: "OnPeerConnected is called when a new peer connects", so a node that has a
\* card when a peer connects gives it to the peer.
\* Not what the code does: see "Disagreements" in README.md.
ConnectedPeerGetsCard ==
    Quiet => \A n, m \in Nodes :
        Sound(n, m) /\ card[n] # NoCard /\ card[n].rev > 0 => peerCard[m][n] # NoCard

\* server.go: SetAgentCard pushes the card to all connected peers, so that a connected
\* peer has the current card once nothing is under way and nothing has failed.
\* Not what the code does: see "Disagreements" in README.md.
PeerHasCurrentCard ==
    Quiet => \A n, m \in Nodes :
        Sound(n, m) /\ {n, m} \notin early /\ card[n] # NoCard /\ card[n].rev > 0
            => peerCard[m][n] = card[n]

\* SetPeerCard writes memory under h.mu and the store after the unlock (host.go:230-242).
\* That two exchanges with the same peer overlapped, or a write failed, is the only
\* reason for which the two may differ when nothing is under way; a later exchange of
\* its own, or a restart, sets it right.
PeerCardPersistedUnlessCrossed ==
    Quiet => \A n, m \in Nodes :
        boot[n] # "down" /\ n \notin putFailed /\ <<n, m>> \notin crossed
            => peerDisk[n][m] = peerCard[n][m]

\* host.go: SetPeerCard stores a card in memory and persists it, so that the two agree
\* once nothing is under way and no write has failed.
\* Not what the code does: see "Disagreements" in README.md.
PeerCardPersisted ==
    Quiet => \A n, m \in Nodes :
        boot[n] # "down" /\ n \notin putFailed => peerDisk[n][m] = peerCard[n][m]

\* SetAgentCard replaces the card under s.mu and stores it after the unlock
\* (server.go:363-369).  What a restart brings back, when no write has failed, is the card
\* that the node has or, only when calls overlapped, the card of a call that overlapped
\* with it, directly or through others: an older card never comes back, and a call on its
\* own, a tool of the proxy or a restart sets it right.
SelfCardPersistedUnlessOverlapped ==
    \A n \in Nodes :
        boot[n] # "down" /\ n \notin putFailed /\ Persisting(n) = {}
            => {selfDisk[n], card[n]} \subseteq overlap[n]

\* server.go: "Persist our own card to the store for recovery on restart", so that the
\* two agree while no SetAgentCard is between its critical section and its write.
\* Not what the code does: see "Disagreements" in README.md.
SelfCardPersisted ==
    \A n \in Nodes :
        boot[n] # "down" /\ n \notin putFailed /\ Persisting(n) = {} => selfDisk[n] = card[n]

\* The card lists each tool of the MCP proxy once.
\* Not what the code does: see "Disagreements" in README.md.
SkillsListedOnce ==
    \A n \in Nodes : card[n] # NoCard =>
        \A i, j \in DOMAIN card[n].skills : card[n].skills[i] = card[n].skills[j] => i = j
=============================================================================

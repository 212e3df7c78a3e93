# Verification of agentanycast-node

`agentanycastd` is a daemon that gives an AI agent a place in a peer-to-peer
network. It keeps the agent's tasks, exchanges task envelopes and agent cards
with other daemons over libp2p, finds agents by skill, and bridges tasks to MCP
subprocesses, to ANP and HTTP clients and to NATS. Its components run in
goroutines of their own and share state through mutexes, channels and a bbolt
store; most of what can go wrong lies between them, not in them.

This directory holds TLA+ modules translated from the source, the TLC runs that
check them on small instances, and proofs, checked by TLAPS, of the results that
matter most. `PROJECT.json` lists components, runs, findings, hazards and
theorems, and maps every definition to the lines it models.

    tlc -workers 2 -config Delivery.cfg MCDelivery      # a run
    tlapm DeliveryProofs.tla                            # a proof module

## 1. Inventory

Each component has its state, its operations, whom it interacts with, what is
hard about it, and what makes it correct.

**Task engine** (`internal/a2a/engine.go`). State: the table of tasks, each with
a status (SUBMITTED, WORKING, INPUT_REQUIRED, and the final COMPLETED, FAILED,
CANCELED, REJECTED), and a copy in the store. Operations: create, register,
transition, recover. Called by every handler of the router and every RPC. Hard:
a transition persists under the lock, creation and registration after it; puts
fail; the process crashes between any two steps. Correct: statuses move along
the edges of the machine only; the store holds a status the task has had, and
the last one unless a write failed.

**Message delivery** (`router.go`, `ack_tracker.go`, `offline_queue.go`). State:
messages that wait for an ACK with their retry counts, the offline queue in the
store, the receiver's dedup cache. Operations: send and track, retry, escalate,
flush when the peer connects, deduplicate, handle, acknowledge. Hard: the ACK
races the tracking of its message, retries work on a snapshot, the cache is
bounded, either side restarts. Correct: nothing is lost silently, an ACK stands
for a handled message, a handler runs once for an envelope.

**Task protocol** (`router.go`, `pkg/grpcserver/server.go`). State: the records
of originator and worker, envelopes on the way. Operations: send, register,
forward to the agent or the MCP proxy, update, complete, fail, cancel. Hard:
every envelope has a stream of its own, so that they overtake each other; a
repeated SEND_TASK registers a task again. Correct: the originator never shows
what the worker did not do, and sees the result.

**Task-update fan-out** (`router.go`). State: a Go slice of channels for each
task. Operations: subscribe, unsubscribe, passes over the slice. Hard: a pass
copies the slice header under the lock and walks the array without it.

**Stream manager** (`stream.go`). State: a session for each task with its
subscribers. Operations: subscribe, cleanup, start, chunk, end. Hard: the map
and the sessions have separate locks, and sessions come and go between a lookup
and its use. Correct: nothing is sent on a closed channel; an early subscriber
misses nothing.

**MCP subprocess** (`internal/mcpproxy`). State: pipes, the table of pending
calls, the reader goroutine. Operations: call, notify, read, close. Hard: late and
repeated answers, an exit with calls under way, full pipes. Correct: a call
returns its own answer or an error, leaves nothing behind, and returns.

**Connection core policy** (`internal/core`). State: ACL rules, a token bucket for
each source, the audit log. Operations: check an inbound message, check a task that
is routed out, clean up, close the log. Hard: goroutines of the router, of the HTTP
bridge and of the daemon's own calls share one limiter and one log; buckets are
evicted while one of them uses them; messages arrive before the policy is set and
after the log is closed. Correct: eviction does not change what a source may send;
no verdict is passed in silence: it has its record, or the error that there is none.

**Outbound core and transports** (`internal/core`, `internal/adapter`). State: the
same policy for tasks sent to URLs, the NATS subscription and its inbound channel.
Correct: within the rate, logged once, tracked only when published, closed safely.

**Anycast routing** (`internal/anycast`). State: the cache of candidates. Operations:
resolve, discover, invalidate. Hard: a slow lookup fills the cache after an
invalidation, and a failed send of the MCP tool invalidates nothing. Correct: a peer that is chosen was listed recently.

**Skill registration** (`internal/anycast`, `main.go`). State: what the registries
and the DHT list. Operations: auto-register once, reprovide, unregister at
shutdown. Hard: registration and shutdown overlap, and a pass of the reprovide loop
holds the lock the shutdown needs while it waits for the DHT. Correct: a live node
is listed, one that has left is not, and the shutdown gets through.

**Agent cards** (`internal/node`, `server.go`, `main.go`). State: the own card and
the peers' cards, in memory and in the store. Operations: set, push, exchange on
connection, recover, append proxied skills. Hard: pushes overtake each other and
cross connections; memory and store are written apart. Correct: a connected peer
has the card; the store has what memory has.

**ANP bridge** (`internal/anp`, `main.go`). State: a bounded channel of calls with
a result channel for each. Operations: serve, consume, respond, shut down. Hard:
calls time out while their goroutine goes on; the shutdown closes the channel.
Correct: a call that is accepted is answered, no goroutine is left behind, nothing
is sent on the closed channel.

**HTTP bridge and the MCP tools** (`internal/bridge`, `internal/mcp`). State: the
policy of the inbound handler, requests under way; the tasks they start are the
engine's. Operations: `send_task` with a URL, the outbound client with its time-out,
the inbound handler, the conversions between A2A JSON and protobuf, the shutdown.
Hard: main sets the policy while requests are served; a send may fail after the task
was made; a message that is out is tracked, sent again and escalated after its request is
over; both bridges share `HandleInboundTask` and are shut down one after the other.
Correct: what the tool returns is true of the task it started; the message of a task that
was made is acknowledged, tracked or given to the offline queue; the shutdown ends.

Section 6 lists what is not modelled. The bbolt store is a step of its callers,
atomic and able to fail. libp2p, NATS, gRPC, the registries, the DHT and foreign A2A
agents are external and modelled from how the code uses them.

## 2. Modules

| module | models | instance | proofs |
|---|---|---|---|
| `TaskStatus` | the status machine | | |
| `TaskLifecycle` | what the engine promises (abstract) | | |
| `TaskEngine` | engine.go with the store | `MCTaskEngine` | `TaskEngineProofs` |
| `AtLeastOnce` | what delivery promises (abstract) | | |
| `Delivery` | sending, ACKs, offline queue, dedup | `MCDelivery` | `DeliveryProofs` |
| `TaskSync` | a task at originator and worker | `MCTaskSync` | `TaskSyncProofs` |
| `TaskUpdates` | subscribers of a task's updates | `MCTaskUpdates` | `TaskEngineProofs` |
| `StreamManager` | artifact streaming | `MCStreamManager` | `StreamManagerProofs` |
| `McpProcess` | the MCP subprocess | `MCMcpProcess` | `McpProcessProofs` |
| `CorePolicy` | ACL, limiter and audit of the connection core | `MCCorePolicy` | `CorePolicyProofs` |
| `Outbound` | tasks sent to URLs, NATS and HTTP | `MCOutbound` | `CorePolicyProofs` |
| `Anycast` | sending by skill | `MCAnycast` | `DeliveryProofs` |
| `SkillRegistration` | registries and DHT | `MCSkillRegistration` | `AgentCardsProofs` |
| `AgentCards` | agent cards of two daemons | `MCAgentCards` | `AgentCardsProofs` |
| `AnpBridge` | POST /agent/rpc and its consumer | | `BridgesProofs` |
| `HttpTranslator` | A2A JSON to protobuf and back | | |
| `Bridges` | both ends of the HTTP bridge beside `AnpBridge` | `MCBridges` | `BridgesProofs` |

`TaskEngine` and `TaskSync` use `TaskStatus`; `TaskEngine` implements
`TaskLifecycle` by an `INSTANCE` that maps the table entry to the abstract status.
`Delivery` implements `AtLeastOnce`: an envelope is abstractly new, held (by the send
call, AckTracker, or a copy sent from the offline queue), parked in that queue, given
up, or delivered; a retry, a snapshot, a duplicate or an ACK on its way is invisible.
`Bridges` extends `AnpBridge` and `HttpTranslator`: the two bridges run in one daemon,
hand their tasks to the same `HandleInboundTask`, and are stopped in order. It has the
AckTracker too, as far as the messages of the bridges go: what it has of a message
(`track`), and which ones were given to the offline queue by the send, by a retry or by
the callback of main (`given`). A retry does not count here, so that retries may be used
up at any time; the counting, the queue and its flush are in `Delivery`.
`TaskSync` and `Delivery` look at the same envelopes from two sides: `Delivery`
asks whether an envelope arrives and how often, `TaskSync` takes a network that
reorders, repeats (as `Delivery` shows it can) and loses, and asks what the two
records make of it.
A proof module may be about two components; it extends both, and so the second one
has names of its own: `UpdatesSpec` and `UpdatesTypeOK` in `TaskUpdates`,
`AnycastSpec` in `Anycast`, `RegistrationSpec` in `SkillRegistration`, `OutboundSpec` in
`Outbound`.

How code becomes actions: one action for each critical section, channel operation,
store write or send of a goroutine, since these are the points at which others can
come between; a handler that never gives way is one action. Variables under
`\* history` record what happened and guard nothing. Definitions named
`X_Something` stand before `X` and are plausible mistakes in it: `PROJECT.json`
lists which property each of them breaks.

What an action abstracts is said where it is defined. The main choices: envelopes,
calls, tasks and cards are model values (a card is a revision and the list of
proxied tools); time is a nondeterministic expiry, or a tick where a bound on time
is what a property is about (`Anycast`, `CorePolicy`); a glob pattern is the set
of the values it matches; a Go slice in `TaskUpdates` is a header and a backing
array with Go's rules for `append`, since the aliasing is the point.

## 3. Runs

| run | bounds | shows |
|---|---|---|
| `task_engine` | a created and a registered task, 1 registration, failing store, crashes | the store holds past statuses and is behind only when suspect; implements `TaskLifecycle` |
| `delivery` | 2 messages, cache of 1, 1 retry, 2 copies on the wire, 1 fault (2 when only one message is under way) | no silent loss, ACK means handled, once while remembered; retries end; implements `AtLeastOnce`, and what is held gets handled, parked or given up |
| `task_sync` | an agent's task and a proxied one, delivered twice, 1 loss | the originator follows the worker; in the end they are apart only if an envelope overtook another or the task was the proxy's |
| `stream` | 2 senders with an artifact each, 2 subscribers, 3 sessions | no send on a closed channel; early subscribers get the first artifact |
| `mcp` | handshake and 2 tool calls, pipes of 1 and 2 lines, 1 repeated answer | own answers, nothing left pending, turned away only by a subprocess that is gone; the reader does not block, calls return, Close ends |
| `task_updates` | 3 subscribers, 2 passes, 4 arrays | the slice lists the open channels; quiet passes reach all; passes end |
| `core_policy` | 2 goroutines, a peer, the daemon itself and an anonymous source, 4 rules, burst 2 | eviction is invisible; no verdict in silence, also when records cannot be written |
| `anycast` | the node and a peer, registry and DHT, 2 requests | a route is recent |
| `skill_registration` | 2 registries and the DHT, 2 losses | a settled exit is clean; cards in time get listed; the DHT lists again; the shutdown gets the lock |
| `agent_cards` | 2 daemons, 2 exchanges, 2 `SetAgentCard` calls that may overlap, 1 tool, a restart, failing writes | no peer falls between push and callback; the stored card is the current one or that of an overlapping call; a peer's stored card differs only after crossing exchanges or a failed write |
| `bridges` | 2 ANP calls with a channel of 1, a call by URL, 1 message that the AckTracker does more with than wait | channel closed safely, goroutines never block; the tool reports its task, the message of every bridged task is accounted for; calls are answered; the shutdown ends |
| `outbound_nats_close` | 1 NATS message | violated: Close of the NATS transport may panic (see below) |

The bounds keep every limit of the code within reach: a cache of one is full with
the second message, a channel of one with the second call, two actors are enough
for every race of a pair of critical sections, and a third where a slice has to
shift under a pass. What is proved (section 4) holds for any value of the bounds,
so one registration (`task_engine`) or two faults (`delivery`) are enough to see that
the theorems are about states that occur. Senders, subscribers, handlers, requests
and exchanges are alike where a cfg says SYMMETRY (`stream`, `core_policy`,
`anycast`, `agent_cards`); no run with a liveness property uses it. One call of the
HTTP bridge is enough: such calls share nothing but the policy and the shutdown, and
the ANP calls beside it keep those busy; and one message followed by the AckTracker
(`MaxFollowed`), since it treats each by itself. In `agent_cards` the starts and calls of a
node so far and the exchanges under way are bounded together (`MaxLoad`): two exchanges
cross while at most one card was set, two calls overlap with one exchange beside them, or
with none once the daemon has restarted. Deadlock
checking is off in a cfg where the model really stops: messages, calls and faults
are bounded, and daemons go down. Every module has a type invariant; the one of
`TaskEngine` is in its run, the others are left out of the runs: they hold on the same
instances, and they are proved (section 4).

`Outbound.cfg` is a further instance that passes: tasks sent to URLs at once, with
ACL, limiter and audit log, are published within the rate, logged once each, and
tracked only when published. The other cfgs that no run uses belong to the next
section.

### Disagreements

The modules also state what comments and the README of the repository say of the
program where the code does otherwise. Such a definition is marked in its module.
To see TLC's trace of one, add it to the named cfg (as an INVARIANT, or as a
PROPERTY where it is temporal) or run the cfg if it already checks it. Paths are
relative to the repository.

| definition | cfg | what is said, and what the code does |
|---|---|---|
| `PersistedOnEveryChange` | add to `TaskEngine.cfg` | `internal/a2a/engine.go:102`: "When set, tasks are persisted on every state change". `RegisterTask` and `CreateTask` persist after the unlock (195); a transition in between persists first and the late put overwrites it with the old status. |
| `EffectivelyOnce` | add to `Delivery.cfg` | `internal/a2a/router.go:194`: "at-least-once → effectively-once". The cache is bounded and in memory: an envelope repeated after its id was evicted, or after a restart, is handled again. |
| `EscalatedWithoutAck` | add to `Delivery.cfg` | `internal/a2a/ack_tracker.go:32`: called "when a message exceeds max retries without an ACK". `SendTask` sends first and tracks afterwards (router.go:452): an ACK in between finds nothing to delete; the message is retried (duplicates are dropped without an ACK) and escalated. |
| `ResultReachesOriginator` | `TaskSyncProxy.cfg` | `pkg/grpcserver/server.go:254`: "sends the result back to the originator". `handleMCPProxyTask` moves only its own record to WORKING (261) and sends the completion, which an originator at SUBMITTED refuses. |
| `ResultReachesOriginator` | `TaskSyncOrder.cfg` | `server.go:826`: "Send completion to originator peer". Status update and completion have streams of their own; a completion that is handled first is refused, acknowledged, and never sent again. |
| `CancelReachesWorker` | `TaskSyncCancel.cfg` | `server.go:687`: "Send cancel to remote peer". The guard (688) is true only at the worker: when the originator cancels, the worker is never told. |
| `CancelAgrees` | add to `TaskSync.cfg` | The same line: the worker announces its cancellation as a failure (694), and the originator records FAILED. |
| `AtMostOneActiveStream` | add to `Stream.cfg` | `internal/a2a/stream.go:12`: "Each task can have at most one active stream at a time." `HandleStreamStart` reuses a session that exists (78) and refuses nobody. |
| `EarlySubscriberMissesNothing` | add to `Stream.cfg` | `stream.go:39`: a subscriber's channel "receives stream events". The end of an artifact deletes the session with its subscribers (147); who stays gets nothing of the next artifact (on this instance, of the other sender). |
| `ExitIsAnError` | add to `Mcp.cfg` | `internal/mcpproxy/process.go:196`: "Signal all pending callers that the process has exited." A call that receives from the closed channel (140) returns an empty success. |
| `ToolCallReturns` | `Mcp.cfg` with SPECIFICATION `DaemonSpec` | `process.go:108`: "The context can be used to cancel the wait." If the subprocess stops reading, the write (131) blocks and the context is not looked at. |
| `RemovedIsNotSentTo` | add to `TaskUpdates.cfg` | `router.go:135`: "removes a subscriber channel". A pass that read the slice before still sends on the channel, which is closed (149): a panic. |
| `SubscriberReceivesUpdates` | add to `TaskUpdates.cfg` | `router.go:126`: "a channel that receives updates". A removal shifts the cells of the array (142) under a pass, which skips a subscriber that stayed. |
| `EveryMessageAudited` | add to `CorePolicy.cfg` | `router.go:172`: "applied to all non-ACK envelopes". Handlers are registered at `cmd/agentanycastd/main.go:315`, the policy is set at 511; what arrives in between is unchecked. |
| `DidRulesApply` | add to `CorePolicy.cfg` | `internal/config/config.go:229`: a rule matches "source DID and skill patterns". The router passes the PeerID of the sender as the source (router.go:176), so that a rule on the peer's DID says nothing about its messages. |
| `DifferentPeerNextTime` | add to `Anycast.cfg` | `server.go:611`: "so we try a different peer next time". The invalidation keeps no memory of the peer, which is still listed and may be chosen again. |
| `UnregisteredOnShutdown` | add to `SkillRegistration.cfg` | `main.go:644`: "Unregister skills on shutdown." A register request under way is applied after it. |
| `SkillsAutoRegistered` | add to `SkillRegistration.cfg` | `main.go:608`: "Auto-register Skills with Relay Registry". The card is read once, three seconds after the start (613). |
| `ConnectedPeerGetsCard` | add to `AgentCards.cfg` | `internal/node/host.go:50`: "called when a new peer connects". The host accepts connections before the callback is set (main.go:320). |
| `PeerHasCurrentCard` | `AgentCardsOrder.cfg` | `server.go:373`: "Push card to all connected peers." Nothing orders the pushes of two revisions. |
| `PeerCardPersisted` | `AgentCardsPeerStore.cfg` | `host.go:230`: "in memory and persists it". The store is written after the unlock (237): two exchanges leave memory and store different. |
| `SelfCardPersisted` | `AgentCardsSelfStore.cfg` | `server.go:368`: "Persist our own card to the store for recovery". The store is written after the unlock (369): of two calls at once it may keep the one that was replaced, and a restart brings that one back. |
| `SkillsListedOnce` | `AgentCardsProxy.cfg` | `README.md:273`: "auto-generates an Agent Card from the MCP server's tool list". After a restart the tools are appended to a recovered card that has them (server.go:210). |
| `AnswerHasRequestId` | add to `Bridges.cfg` | `README.md:289`: "JSON-RPC 2.0 endpoint". The consumer answers with `ID: t.Method` (main.go:410). |
| `ReturnedIdIsKnown` | add to `Bridges.cfg` | `internal/mcp/tools.go:117`: "The task ID returned by send_task or send_task_by_skill". For a URL, `sendByURL` (380) puts nothing into the engine, and `get_task_status` knows no such id. |
| `NoTaskUnchecked` | add to `Bridges.cfg` (PROPERTY) | `internal/bridge/handler_inbound.go:105`: "Inbound policy check (ACL, rate limiting, audit)." The bridge is started before main sets its policy; a request in between is not checked. |
| `HttpTaskIsBridged` | add to `Outbound.cfg` | `main.go:463`: "HTTP bridge uses existing outbound client". `httpadapter.New(nil)` has no sender, and every http URL takes this way. |
| `NoSendOnClosed` | `OutboundNatsClose.cfg` (run `outbound_nats_close`) | `internal/adapter/nats/transport.go:150`: "Close shuts down the NATS subscription and connection." A callback that is running sends on the channel Close has closed (157): a panic. |

### Fairness

Assumed: a goroutine that can take a step takes it, a timer or deadline that is
running expires, and a request on the wire arrives or fails (weak fairness of the
daemon's own actions, listed with each `FairSpec`, `UpdatesFairSpec` and
`RegistrationFairSpec`). Go's scheduler and the timeouts
in the code justify it. In `Bridges` the send of an HTTP request ends: it runs under
the daemon's context, which main cancels before it stops the servers, and its write has
a deadline. In `SkillRegistration` an announcement to the DHT ends within its 30
seconds, and a waiting writer of the `RWMutex` goes before the next reader, as Go's
does. A request on the wire to a registry arrives or fails (`Apply` or `Fail` in
`RegistrationFairSpec`). For the registration this is an assumption about the registry
and its connection: the call runs under the daemon's context, which has no deadline
(main.go:622), while the unregistration has five seconds. Not assumed: that
clients, agents or peers do anything, that a registry accepts a request, that
ACKs come or connections are made, that sends without a deadline return (the one for
an ANP call among them), and that a subprocess answers. `McpProcess` has two levels:
`DaemonSpec` expects of the subprocess only that it exits once its stdin is closed,
`FairSpec` also that it goes on reading; a subprocess that stops reading holds up its callers (the
disagreement on `ToolCallReturns`).

## 4. Proofs

All results hold for every value of the constants, under the named assumptions of
the modules: sets of names are disjoint, capacities are positive numbers, bounds and
times are natural numbers, the requests of `McpProcess` are finitely many, a sender of
`StreamManager` has at least one artifact, the tools of a node in `AgentCards` are a
list of names, and the messages of `Bridges` have a role and parts that are text or a URL.
Each proof begins with an inductive invariant, checked by TLC on the run's instance
before it was proved; what is listed follows from it.

- `TaskEngineProofs`: `TypeCorrect`, `DiskIsPastCorrect`,
  `PersistedUnlessSuspectCorrect`, `LifecycleImplemented`. The store is written
  from data that a call marshalled earlier, so the inductive invariant also speaks
  of calls under way: what a call holds is a status the task has had, and, unless
  the task is suspect, nothing is marshalled that the table has moved on from. The
  refinement follows from it, with a recovery mapped to the step of the abstract
  table that brings back past statuses.
  Of `TaskUpdates`: `UpdatesTypeCorrect`, `SliceListsOpenChannelsCorrect`,
  `QuietPassReachesAllCorrect`. For the slice: its cells are the open channels, no two
  are the same, its length counts them. For a pass: nobody holds a header of an array
  still to be allocated, and while nobody unsubscribes the slice in the map is at least
  as long as the one the pass copied, so that `append` writes behind it; whoever the pass
  has not reached is in a cell ahead of it.
- `DeliveryProofs`: `TypeCorrect`, `NoSilentLossCorrect`, `AckMeansHandledCorrect`,
  `HandledOnceCorrect`. `NoSilentLoss` needs to know where a message is between two
  steps of the retry loop (snapshot and escalation) and of a flush; `HandledOnce`
  that an id in the cache is there once and that a handled message is in the cache or
  was forgotten.
  `AtLeastOnceImplemented`, the refinement of `AtLeastOnce`, rests on the same
  invariants and on one more: before its send call an
  envelope is nowhere. Every action but `HandleNew`, `Acknowledge` and the two crashes is
  shown to move one envelope along (or none) and to leave the receiver alone;
  `NoSilentLoss` is what excludes that it ends up lost, `AckMeansHandled` that a
  confirmation precedes the delivery.
  Of `Anycast`: `RouteIsRecentCorrect`, an action property. Its invariant bounds how long
  ago every peer a request could choose was listed: one that a query has found, no
  longer than the query has waited; one of a cache entry, so long that with the time
  left to the entry it makes at most the TTL and the longest query.
- `TaskSyncProofs`: `TypeCorrect`, `OriginatorFollowsCorrect`, `OriginatorBehindCorrect`,
  `ApartOnlyByOvertakingCorrect`. The originator shows what an envelope said, possibly
  long ago, so the invariant is about the envelopes: each one on its way carries a
  status the worker has had (or the FAILED of a cancellation), and, for a task registered
  once, one from which the worker's status can be reached. `ApartOnlyByOvertaking` needs
  a balance besides: in an undisturbed task WORKING and INPUT_REQUIRED alternate, so that
  the difference of their envelopes on the way tells how far the originator is behind,
  and an outcome it has not seen is on its way.
- `StreamManagerProofs`: `NoSendOnClosedCorrect`, `FirstArtifactCompleteCorrect`. A
  subscriber is a member of the session it joined and of no other, and its cleanup
  removes it from that session, not from the one in the map. Until an artifact has ended
  there is one session, which the map, every sender and every subscriber have; that is
  what makes the first artifact, and only the first, complete.
- `McpProcessProofs`: `TypeCorrect`, `OwnAnswerCorrect`, `NothingLeftPendingCorrect`,
  `ReaderNeverBlocksCorrect`, `TurnedAwayMeansGoneCorrect`. An id is handed out once, so
  that whatever carries it, in a pipe, in the subprocess or in a channel, belongs to one
  request. Without repeated answers a request is in one place at a time, which is why a
  channel of capacity one never holds up the reader.
- `CorePolicyProofs`: `TypeCorrect`, `EvictionIsInvisibleCorrect`,
  `VerdictAuditedCorrect` (an action property: for a message that is decided `Log` was
  called with the verdict, also when goroutines share limiter and log and when the log is
  closed; the record is there, or it could not be written and the error is logged).
  Assumption: a bucket is full again within the idle time less the longest stall of a
  handler, ten minutes against one second in the code. The invariant relates the bucket
  in the map to one that is never evicted, and says that a limiter only a handler holds
  is full. Of `Outbound`, whose properties `Outbound.cfg` checks by hand:
  `OutboundTypeCorrect`, `WithinRateCorrect`, `LoggedOnceCorrect`,
  `TrackedIsPublishedCorrect`, for burst, bound and capacity that are natural numbers.
  The point of `Route` a call has come to decides what the log has of it, whether its
  message is out and whether the engine tracks it; the calls past the limiter, whatever
  became of them, are no more than the tokens it has given.
- `BridgesProofs`: `NoSendOnClosedCorrect`, `WorkerNeverBlocksCorrect`. A call is
  in the channel at most once and only before a goroutine has it, so that a goroutine
  that has not responded finds its result channel empty. The argument is about
  `AnpBridge` by itself; `AnpBridgeUndisturbed` carries it over to the daemon with both
  bridges. `BridgedTaskAccountedCorrect` and `ResultIsTheTaskCorrect` rest on an account
  of every ANP call and every HTTP request (which step it is at, what it has made, where
  its message is: nowhere before the send, and always somewhere from then on, since the
  AckTracker gives up a message only to the queue; `BridgesTypeCorrect` is about their
  variables) and on lemmas about the conversions of `HttpTranslator`: a message of the
  assumed kind survives the way to JSON and back.
- `AgentCardsProofs`, of `SkillRegistration`: `RegistrationTypeCorrect`,
  `SettledExitIsCleanCorrect`. A shutdown that finds the goroutine through and no
  request on the wire stays without a register request, so that what a registry
  confirms to have removed is not listed again.
  Of `AgentCards`: `TypeCorrect`, `RunInvCorrect`, `CardReachesPeerCorrect`,
  `PeerCardPersistedUnlessCrossedCorrect`, `SelfCardPersistedUnlessOverlappedCorrect`. All rest on
  `RunInv`: a node that is down has no card, no connection, no callback and no side of
  an exchange, and only a node that serves has calls. For `CardReachesPeer` the card
  of a node is at its connected peer or on its way: in a call, a callback that is due, or
  an exchange that still has it to write or to read. For the peers' cards, as long as
  no two exchanges with a peer crossed, at most one is between memory and store, and it
  holds what memory has. For the own card, `overlap` collects the cards of the
  `SetAgentCard` calls since one last found no other before its write; the card in memory,
  those about to be written and, when none is, the one in the store are among them. Of calls
  one after the other that is a single card; of calls that overlap it may be any of them,
  which is why `SelfCardPersisted` is false (see "Disagreements").

Only model-checked: what needs fairness, which is beyond this prover (`RetriesEnd` and
`Settled` of `delivery`, `ToolCallReturns` and `CloseTerminates` of `mcp`, `PassEnds` of
`task_updates`, `CardInTimeIsListed`, `DhtListsAgain` and `UnregisterEnds` of
`skill_registration`, `CallAnswered` and `ShutdownEnds` of `bridges`). Every other
property of the passing runs is stated by a theorem.

## 5. Plan

Done: the core (engine, delivery, task protocol), the other concurrent parts in the
order of the table above, the bridges and what the MCP tools do with them, an abstract
specification of delivery with the proof that `Delivery` implements it, and the proofs
of every safety property of the runs. What is left:

1. `TaskSync` over `AtLeastOnce` instead of its own network.
2. Abstract specifications for the MCP call table (each call returns once, with its
   own answer or an error) and for the card exchange.

## 6. Not modelled

- Cryptography, DIDs and credentials (`internal/crypto`): functions of their input and
  lookups over the network, without state; what they compute is out of TLC's reach.
- The ANP client and translator, the protocol adapters (`internal/adapter`, apart from
  the NATS and HTTP transports): conversions between formats that no other component
  reads back. The libp2p adapter is not used by `SendTask`, which sends to PeerIDs itself.
- Configuration, metrics and telemetry: parsing, and counters nothing depends on.
- `handleTaskCancel` of the router: no daemon sends a TASK_CANCEL (`CancelTask` sends a
  failure, server.go:694).
- `RegistryDiscovery` (`internal/anycast/discovery.go`), which main uses instead of
  `MultiRegistryDiscovery` when there is one registry: it makes the calls of one of the
  latter's clients, with one answer to wait for.
- `sendByURL` gives the agent only the id and the status of the task that
  `OutboundClient.SendTask` returns; `Bridges` keeps the message of it as well (`got`), to
  check the conversions.
- Read-only endpoints (agent descriptions, card documents, CORS) and the tools that
  only list; tag filters of `FindAgents`; priority among several transports; payload
  encryption.
- Whether libp2p lets a node dial itself. The send of `HandleInboundTask` goes to the
  node's own id; the models allow it to succeed and to fail.

------------------------------ MODULE Anycast ------------------------------
(***************************************************************************)
(* Sending a task by skill (sendTaskBySkill in pkg/grpcserver/server.go,   *)
(* sendBySkill in internal/mcp/tools.go):                                  *)
(* the anycast router takes the candidates from its cache, or asks all     *)
(* discovery providers at once and caches what they list, picks one at     *)
(* random, and forgets the cache entry when the send fails.  Requests run  *)
(* concurrently and share the cache entry of the skill; cache entries of   *)
(* different skills are independent and the module has one skill.          *)
(*                                                                         *)
(* The providers are external: a relay's registry, or the DHT, whose       *)
(* answers leave the own node out.  The Discover RPC asks the providers    *)
(* the same way, caches their answer too, and sends nothing.               *)
(***************************************************************************)
EXTENDS Integers, FiniteSets

CONSTANTS
    Peers,       \* peers that may offer the skill
    Self,        \* the own node, one of them
    Providers,   \* discovery providers
    Dht,         \* those of them that are DHTs
    Requests,    \* concurrent SendTask and Discover calls
    NoPeer,      \* no candidate
    TTL,         \* ticks a cache entry is good for
    MaxQuery     \* bound: ticks a query to the providers takes

ASSUME ConstAssumption ==
    /\ Self \in Peers /\ NoPeer \notin Peers /\ Dht \subseteq Providers
    /\ TTL \in Nat /\ MaxQuery \in Nat

Oldest == TTL + MaxQuery + 1

VARIABLES
    listed,     \* listed[r]: the peers provider r lists for the skill
    endpoints,  \* the candidates of the cache entry; {} when there is none
    left,       \* ticks until the entry expires; below 0 when it has
    pc,         \* pc[q]: where request q is
    asked,      \* asked[q]: the providers that have not answered q yet
    merged,     \* merged[q]: what the others have listed
    selected,   \* selected[q]: the peer Resolve returned; kept while a failed send
                \* is to be repeated
    wait,       \* wait[q]: ticks since q began to ask
    \* history
    unlisted    \* unlisted[p]: ticks since some provider listed p, up to Oldest

anycastVars == <<listed, endpoints, left, pc, asked, merged, selected, wait, unlisted>>

AnycastInit ==
    /\ listed    = [r \in Providers |-> {}]
    /\ endpoints = {}
    /\ left      = -1
    /\ pc        = [q \in Requests |-> "idle"]
    /\ asked     = [q \in Requests |-> {}]
    /\ merged    = [q \in Requests |-> {}]
    /\ selected  = [q \in Requests |-> NoPeer]
    /\ wait      = [q \in Requests |-> 0]
    /\ unlisted  = [p \in Peers |-> Oldest]

-----------------------------------------------------------------------------
\* RandomStrategy.Select on a set of candidates.
Select(q, candidates) ==
    \E p \in candidates : selected' = [selected EXCEPT ![q] = p]

\* Mutant: an expired entry is still used.
Cached_Expired == endpoints

\* RouteCache.Get: nothing when there is no entry or it has expired.
Cached == IF left < 0 THEN {} ELSE endpoints

\* RouteCache.Put: the entry, if any, is replaced and its time starts again.
Put(candidates) == endpoints' = candidates /\ left' = TTL

\* Resolve finds the candidates in the cache.
ResolveCached(q) ==
    /\ pc[q] = "idle"
    /\ Cached # {}
    /\ Select(q, Cached)
    /\ pc' = [pc EXCEPT ![q] = "resolved"]
    /\ UNCHANGED <<listed, endpoints, left, asked, merged, wait, unlisted>>

\* Resolve misses the cache ("resolving"), or Discover, which does not look there
\* ("discovering"): every provider is asked in a goroutine of its own.
Ask(q, asking) ==
    /\ pc[q] = "idle"
    /\ asking = "resolving" => Cached = {}
    /\ asked' = [asked EXCEPT ![q] = Providers]
    /\ pc' = [pc EXCEPT ![q] = asking]
    /\ UNCHANGED <<listed, endpoints, left, merged, selected, wait, unlisted>>

Asking(q) == pc[q] \in {"resolving", "discovering"}

\* What provider r finds: a DHT leaves the own node out (DHTDiscovery.DiscoverBySkill),
\* and its peers count whether or not their metadata can be read.
Found(r) == IF r \in Dht THEN listed[r] \ {Self} ELSE listed[r]

\* DiscoverBySkill of one provider: it answers, or fails and contributes nothing.
Answer(q, r, ok) ==
    /\ Asking(q) /\ r \in asked[q]
    /\ asked' = [asked EXCEPT ![q] = @ \ {r}]
    /\ merged' = [merged EXCEPT ![q] =
                     IF ok THEN @ \cup Found(r) ELSE @]
    /\ UNCHANGED <<listed, endpoints, left, pc, selected, wait, unlisted>>

\* All providers have answered or failed: the union of their answers is cached, and
\* Resolve picks from it; when it is empty nothing is cached and nobody is found.
Merge(q) ==
    /\ Asking(q) /\ asked[q] = {}
    /\ IF merged[q] = {} THEN UNCHANGED <<endpoints, left>> ELSE Put(merged[q])
    /\ IF pc[q] = "resolving" /\ merged[q] # {}
       THEN Select(q, merged[q]) /\ pc' = [pc EXCEPT ![q] = "resolved"]
       ELSE UNCHANGED selected /\ pc' = [pc EXCEPT ![q] = "done"]
    /\ merged' = [merged EXCEPT ![q] = {}]
    /\ wait' = [wait EXCEPT ![q] = 0]
    /\ UNCHANGED <<listed, asked, unlisted>>

\* router.SendTask succeeds.
SendTask(q) ==
    /\ pc[q] = "resolved"
    /\ pc' = [pc EXCEPT ![q] = "done"]
    /\ selected' = [selected EXCEPT ![q] = NoPeer]
    /\ UNCHANGED <<listed, endpoints, left, asked, merged, wait, unlisted>>

\* router.SendTask fails: InvalidateCache(skill), and the RPC returns the error.
SendTaskFails(q) ==
    /\ pc[q] = "resolved"
    /\ pc' = [pc EXCEPT ![q] = "done"]
    /\ endpoints' = {} /\ left' = -1
    /\ UNCHANGED <<listed, asked, merged, selected, wait, unlisted>>

\* The MCP tool send_task_by_skill resolves and sends the same way, but when the send
\* fails it leaves the cache as it is.
ToolSendFails(q) ==
    /\ pc[q] = "resolved"
    /\ pc' = [pc EXCEPT ![q] = "done"]
    /\ UNCHANGED <<listed, endpoints, left, asked, merged, selected, wait, unlisted>>

\* The client makes its next request, the same again after an error.
Return(q) ==
    /\ pc[q] = "done"
    /\ pc' = [pc EXCEPT ![q] = "idle"]
    /\ UNCHANGED <<listed, endpoints, left, asked, merged, selected, wait, unlisted>>

-----------------------------------------------------------------------------
(* External: agents register and unregister, time passes *)

Relist(r, p) ==
    /\ listed' = [listed EXCEPT ![r] = IF p \in @ THEN @ \ {p} ELSE @ \cup {p}]
    /\ unlisted' = [unlisted EXCEPT ![p] = 0]
    /\ UNCHANGED <<endpoints, left, pc, asked, merged, selected, wait>>

Listed(p) == \E r \in Providers : p \in listed[r]

Tick ==
    /\ \A q \in Requests : Asking(q) => wait[q] < MaxQuery
    /\ wait' = [q \in Requests |-> IF Asking(q) THEN wait[q] + 1 ELSE 0]
    /\ left' = IF left < 0 THEN left ELSE left - 1
    /\ unlisted' = [p \in Peers |-> IF Listed(p) THEN 0
                                    ELSE IF unlisted[p] < Oldest THEN unlisted[p] + 1 ELSE Oldest]
    /\ UNCHANGED <<listed, endpoints, pc, asked, merged, selected>>

AnycastNext ==
    \/ \E q \in Requests :
        \/ ResolveCached(q) \/ Merge(q) \/ SendTask(q) \/ SendTaskFails(q)
        \/ ToolSendFails(q) \/ Return(q)
        \/ \E asking \in {"resolving", "discovering"} : Ask(q, asking)
        \/ \E r \in Providers, ok \in BOOLEAN : Answer(q, r, ok)
    \/ \E r \in Providers, p \in Peers : Relist(r, p)
    \/ Tick

AnycastSpec == AnycastInit /\ [][AnycastNext]_anycastVars

-----------------------------------------------------------------------------
(* Properties *)

\* Types; an entry's remaining time is within the TTL, an entry that has not expired
\* has candidates (RouteCache, cache.go:9-63), and a resolved request has a peer.
AnycastTypeOK ==
    /\ listed \in [Providers -> SUBSET Peers]
    /\ endpoints \subseteq Peers
    /\ left \in -1..TTL
    /\ left >= 0 => endpoints # {}
    /\ pc \in [Requests -> {"idle", "resolving", "discovering", "resolved", "done"}]
    /\ asked \in [Requests -> SUBSET Providers]
    /\ merged \in [Requests -> SUBSET Peers]
    /\ selected \in [Requests -> Peers \cup {NoPeer}]
    /\ \A q \in Requests : pc[q] = "resolved" => selected[q] # NoPeer
    /\ wait \in [Requests -> 0..MaxQuery]
    /\ unlisted \in [Peers -> 0..Oldest]

\* Request q has just been given the peer to send to.
Resolves(q) == pc[q] # "resolved" /\ pc'[q] = "resolved"

\* A peer that Resolve returns was listed by some provider at most TTL and one query
\* ago, whatever other requests put into the cache or remove from it meanwhile
\* (router.go:51-108, cache.go:31-51).
RouteIsRecent ==
    [][\A q \in Requests : Resolves(q) => unlisted[selected'[q]] <= TTL + MaxQuery]_anycastVars

\* "Invalidate cache on send failure so we try a different peer next time."
\* (server.go:611): the retry does not take the same peer when there is another.
\* Not what the code does: see "Disagreements" in README.md.
DifferentPeerNextTime ==
    [][\A q \in Requests : Resolves(q) /\ (Cached \cup merged[q]) \ {selected[q]} # {}
            => selected'[q] # selected[q]]_anycastVars
=============================================================================

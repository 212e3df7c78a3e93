--------------------------- MODULE CorePolicy ---------------------------
(***************************************************************************)
(* The policy of the connection core (internal/core/core.go): the ACL,     *)
(* then the rate limiter, then one audit record, for messages that arrive  *)
(* (Core.CheckInbound, asked by Router.HandleMessage and by the HTTP       *)
(* bridge) and for tasks sent to a URL (Core.Route).  All of them share    *)
(* one limiter and one audit log, each in a goroutine of its own.          *)
(* RateLimiter.Allow looks the source's limiter up under rl.mu and takes a *)
(* token from it after the unlock; the cleanup goroutine evicts limiters   *)
(* that have been idle.  The shutdown closes the log while messages may    *)
(* still arrive.                                                           *)
(*                                                                         *)
(* A source is a name: the peer id of whoever sent a message, the DID of   *)
(* the daemon itself for what it routes, and Anonymous for the requests of *)
(* the HTTP bridge.  A glob pattern is modelled by the set of names it     *)
(* matches.  The token bucket itself is external (golang.org/x/time/rate): *)
(* Burst tokens at most, Refill more each tick.                            *)
(***************************************************************************)
EXTENDS Integers, Sequences, FiniteSets, FiniteSetsExt

CONSTANTS
    Handlers,    \* goroutines in HandleMessage, handleSendTask or Route
    Peers,       \* sources with a name: peer ids, and Own
    Own,         \* the DID of the daemon itself
    DidOf,       \* DidOf[p]: the DID that belongs to the peer id p
    Anonymous,   \* the source without an identity
    Skills,      \* skills; NoSkill for an envelope that is not SEND_TASK
    NoSkill,
    Rules,       \* the ACL rules, in order
    Burst,       \* tokens of a full bucket (the rate per second in the code)
    Refill,      \* tokens per tick
    Idle,        \* ticks without a message after which a limiter is evicted
    Stall,       \* bound: ticks a goroutine may lose between lookup and token
    PolicySet    \* whether main has called SetInboundPolicy before the start

Sources == Peers \cup {Anonymous}
Names == Sources \cup {DidOf[p] : p \in Peers}
Rule == [source : SUBSET Names, skill : SUBSET (Skills \cup {NoSkill}), allow : BOOLEAN]

\* Evicting after Idle ticks is safe because the bucket is full by then: ten minutes
\* against one second in the code.
ASSUME RateAssumption ==
    /\ Burst \in Nat \ {0} /\ Refill \in Nat /\ Idle \in Nat /\ Stall \in Nat
    /\ Stall < Idle /\ (Idle - Stall) * Refill >= Burst
ASSUME RulesAssumption == Rules \in Seq(Rule)
ASSUME NameAssumption  == Own \in Peers /\ Anonymous \notin Peers /\ NoSkill \notin Skills /\ PolicySet \in BOOLEAN

\* A source has at most two limiters at a time: the one in the map and one that was
\* evicted while a handler held it.
Limiters == {1, 2}
NoLimiter == 0

\* What Log has made of a message: its record, or "failed", when it could not be written
\* and only the daemon's own logger says so.
Entries == {"none", "allow", "deny", "rate_limit", "failed"}

VARIABLES
    inboundPolicy,  \* the router's policy is set
    auditOpen,      \* the file of the audit log is open
    limiter,        \* limiter[p]: rl.limiters[p], or NoLimiter
    tokens,         \* tokens[p][l]: what limiter l of p holds
    age,            \* age[p]: ticks since lastSeen, up to Idle + 1
    pc,             \* pc[h]: where handler h is
    source, skill,  \* of the message it handles
    hold,           \* hold[h]: the limiter it looked up
    wait,           \* wait[h]: ticks since then
    audit,          \* audit[h]: what the log has of its message; see Entries
    \* history
    ideal           \* ideal[p]: the bucket of a limiter that is never evicted

vars == <<inboundPolicy, auditOpen, limiter, tokens, age, pc, source, skill, hold, wait, audit, ideal>>

Init ==
    /\ inboundPolicy = PolicySet
    /\ auditOpen = TRUE
    /\ limiter = [p \in Peers |-> NoLimiter]
    /\ tokens  = [p \in Peers |-> [l \in Limiters |-> Burst]]
    /\ age     = [p \in Peers |-> 0]
    /\ pc      = [h \in Handlers |-> "idle"]
    /\ source  = [h \in Handlers |-> Anonymous]
    /\ skill   = [h \in Handlers |-> NoSkill]
    /\ hold    = [h \in Handlers |-> NoLimiter]
    /\ wait    = [h \in Handlers |-> 0]
    /\ audit   = [h \in Handlers |-> "none"]
    /\ ideal   = [p \in Peers |-> Burst]

-----------------------------------------------------------------------------
\* main calls SetInboundPolicy, long after it has registered the stream handlers.
SetInboundPolicy ==
    /\ ~inboundPolicy
    /\ inboundPolicy' = TRUE
    /\ UNCHANGED <<auditOpen, limiter, tokens, age, pc, source, skill, hold, wait, audit, ideal>>

\* main's deferred al.Close: the servers are stopped after it, so messages and calls may
\* still be judged, and their records cannot be written.
CloseAudit ==
    /\ inboundPolicy /\ auditOpen
    /\ auditOpen' = FALSE
    /\ UNCHANGED <<inboundPolicy, limiter, tokens, age, pc, source, skill, hold, wait, audit, ideal>>

\* ACLManager.CheckAccess: the first matching rule decides; without one, access is
\* allowed only when there are no rules.
Matching(s, k) == {i \in DOMAIN Rules : s \in Rules[i].source /\ k \in Rules[i].skill}
CheckAccess(s, k) ==
    IF Matching(s, k) = {} THEN Rules = <<>> ELSE Rules[Min(Matching(s, k))].allow

\* Where the message goes that has been judged, and AuditLogger.Log: the record cannot be
\* written when the file is closed, and may not be when it is open (a full disk).
Judged(h, record) ==
    /\ \E entry \in {record, "failed"} :
          /\ entry = record => auditOpen
          /\ audit' = [audit EXCEPT ![h] = entry]
    /\ pc' = [pc EXCEPT ![h] = IF record = "allow" THEN "accepted" ELSE "rejected"]

\* HandleMessage: a message of source s arrives.  Without a policy it is accepted
\* as it is; the ACL may deny it; the anonymous source is not limited.
HandleMessage(h, s, k) ==
    /\ pc[h] = "idle"
    /\ source' = [source EXCEPT ![h] = s]
    /\ skill' = [skill EXCEPT ![h] = k]
    /\ IF ~inboundPolicy THEN pc' = [pc EXCEPT ![h] = "accepted"] /\ UNCHANGED audit
       ELSE IF ~CheckAccess(s, k) THEN Judged(h, "deny")
       ELSE IF s = Anonymous THEN Judged(h, "allow")
       ELSE pc' = [pc EXCEPT ![h] = "limit"] /\ UNCHANGED audit
    /\ UNCHANGED <<inboundPolicy, auditOpen, limiter, tokens, age, hold, wait, ideal>>

\* Route: a task for a URL, in the name of the daemon; the core is always there.
Route(h, k) ==
    /\ pc[h] = "idle"
    /\ source' = [source EXCEPT ![h] = Own]
    /\ skill' = [skill EXCEPT ![h] = k]
    /\ IF CheckAccess(Own, k) THEN pc' = [pc EXCEPT ![h] = "limit"] /\ UNCHANGED audit
                              ELSE Judged(h, "deny")
    /\ UNCHANGED <<inboundPolicy, auditOpen, limiter, tokens, age, hold, wait, ideal>>

\* The limiter a new entry of p gets: not one a handler still holds.
Fresh(p) == IF \E h \in Handlers : source[h] = p /\ hold[h] = 1 THEN 2 ELSE 1

\* Allow, under rl.mu: find or create the source's limiter, note the time.
LookupLimiter(h) ==
    LET p == source[h]
        l == IF limiter[p] = NoLimiter THEN Fresh(p) ELSE limiter[p]
    IN  /\ pc[h] = "limit"
        /\ limiter' = [limiter EXCEPT ![p] = l]
        /\ tokens' = IF limiter[p] = NoLimiter THEN [tokens EXCEPT ![p][l] = Burst] ELSE tokens
        /\ age' = [age EXCEPT ![p] = 0]
        /\ hold' = [hold EXCEPT ![h] = l]
        /\ wait' = [wait EXCEPT ![h] = 0]
        /\ pc' = [pc EXCEPT ![h] = "token"]
        /\ UNCHANGED <<inboundPolicy, auditOpen, source, skill, audit, ideal>>

\* Mutant: a message over the limit is rejected without an audit record.
TakeToken_Unaudited(h) ==
    LET p == source[h]
    IN  /\ pc[h] = "token"
        /\ IF tokens[p][hold[h]] > 0
           THEN /\ tokens' = [tokens EXCEPT ![p][hold[h]] = @ - 1]
                /\ ideal' = [ideal EXCEPT ![p] = @ - 1]
                /\ Judged(h, "allow")
           ELSE /\ pc' = [pc EXCEPT ![h] = "rejected"]
                /\ UNCHANGED <<tokens, ideal, audit>>
        /\ hold' = [hold EXCEPT ![h] = NoLimiter]
        /\ wait' = [wait EXCEPT ![h] = 0]
        /\ UNCHANGED <<inboundPolicy, auditOpen, limiter, age, source, skill>>

\* entry.limiter.Allow(), after the unlock, and the audit record.
TakeToken(h) ==
    LET p == source[h]
    IN  /\ pc[h] = "token"
        /\ IF tokens[p][hold[h]] > 0
           THEN /\ tokens' = [tokens EXCEPT ![p][hold[h]] = @ - 1]
                /\ ideal' = [ideal EXCEPT ![p] = @ - 1]
                /\ Judged(h, "allow")
           ELSE /\ Judged(h, "rate_limit")
                /\ UNCHANGED <<tokens, ideal>>
        /\ hold' = [hold EXCEPT ![h] = NoLimiter]
        /\ wait' = [wait EXCEPT ![h] = 0]
        /\ UNCHANGED <<inboundPolicy, auditOpen, limiter, age, source, skill>>

\* The message has been routed or dropped; the goroutine's place is free again.
Finish(h) ==
    /\ pc[h] \in {"accepted", "rejected"}
    /\ pc' = [pc EXCEPT ![h] = "idle"]
    /\ source' = [source EXCEPT ![h] = Anonymous]
    /\ skill' = [skill EXCEPT ![h] = NoSkill]
    /\ audit' = [audit EXCEPT ![h] = "none"]
    /\ UNCHANGED <<inboundPolicy, auditOpen, limiter, tokens, age, hold, wait, ideal>>

\* Mutant: the limiter of a source in use is evicted.
Cleanup_Early ==
    /\ \E p \in Peers : limiter[p] # NoLimiter
    /\ limiter' = [p \in Peers |-> NoLimiter]
    /\ UNCHANGED <<inboundPolicy, auditOpen, tokens, age, pc, source, skill, hold, wait, audit, ideal>>

\* cleanup's ticker: every limiter not seen for longer than Idle goes.
Cleanup ==
    /\ \E p \in Peers : limiter[p] # NoLimiter
    /\ limiter' = [p \in Peers |-> IF age[p] > Idle THEN NoLimiter ELSE limiter[p]]
    /\ UNCHANGED <<inboundPolicy, auditOpen, tokens, age, pc, source, skill, hold, wait, audit, ideal>>

Capped(n, cap) == IF n > cap THEN cap ELSE n

\* Time passes; no handler stays longer than Stall between its two steps.
Tick ==
    /\ \A h \in Handlers : pc[h] = "token" => wait[h] < Stall
    /\ wait' = [h \in Handlers |-> IF pc[h] = "token" THEN wait[h] + 1 ELSE wait[h]]
    /\ age' = [p \in Peers |-> Capped(age[p] + 1, Idle + 1)]
    /\ tokens' = [p \in Peers |-> [l \in Limiters |-> Capped(tokens[p][l] + Refill, Burst)]]
    /\ ideal' = [p \in Peers |-> Capped(ideal[p] + Refill, Burst)]
    /\ UNCHANGED <<inboundPolicy, auditOpen, limiter, pc, source, skill, hold, audit>>

Next ==
    \/ SetInboundPolicy \/ CloseAudit
    \/ \E h \in Handlers :
        \/ \E s \in Sources \ {Own}, k \in Skills \cup {NoSkill} : HandleMessage(h, s, k)
        \/ \E k \in Skills \cup {NoSkill} : Route(h, k)
        \/ LookupLimiter(h) \/ TakeToken(h) \/ Finish(h)
    \/ Cleanup \/ Tick

Spec == Init /\ [][Next]_vars

-----------------------------------------------------------------------------
(* Properties *)

\* Types; buckets stay between empty and full (RateLimiter, ratelimit.go:18-25).
TypeOK ==
    /\ inboundPolicy \in BOOLEAN /\ auditOpen \in BOOLEAN
    /\ limiter \in [Peers -> Limiters \cup {NoLimiter}]
    /\ tokens \in [Peers -> [Limiters -> 0..Burst]]
    /\ age \in [Peers -> 0..Idle + 1]
    /\ pc \in [Handlers -> {"idle", "limit", "token", "accepted", "rejected"}]
    /\ source \in [Handlers -> Sources]
    /\ skill \in [Handlers -> Skills \cup {NoSkill}]
    /\ hold \in [Handlers -> Limiters \cup {NoLimiter}]
    /\ wait \in [Handlers -> 0..Stall]
    /\ audit \in [Handlers -> Entries]
    /\ ideal \in [Peers -> Int]

\* Evicting and re-creating limiters never gives a source more, or less, than one
\* limiter kept for ever would, whatever messages are between their lookup and
\* their token meanwhile (Allow and cleanup, ratelimit.go:71-98, 120-147).
EvictionIsInvisible ==
    \A p \in Peers : ideal[p] = IF limiter[p] = NoLimiter THEN Burst ELSE tokens[p][limiter[p]]

\* Once main has set the policy, no message and no call of Route gets a verdict in silence:
\* it passes with an allow record and is dropped with one that says why, or the record
\* could not be written and the daemon's logger has the error.  This is so also when its
\* goroutine was between the lookup of its limiter and the token, and when the shutdown
\* has closed the log meanwhile (core.go:156-218, 245-295; audit.go:54-69).
VerdictAudited ==
    [][\A h \in Handlers :
          inboundPolicy /\ pc[h] \notin {"accepted", "rejected"} =>
              /\ pc'[h] = "accepted" => audit'[h] \in {"allow", "failed"}
              /\ pc'[h] = "rejected" => audit'[h] \in {"deny", "rate_limit", "failed"}]_vars

\* "Inbound policy check (ACL, rate limiting, audit) - applied to all non-ACK
\* envelopes" (router.go:172): a message is routed only with an allow record, and is
\* dropped only with a record that says why.
\* Not what the code does: see "Disagreements" in README.md.
EveryMessageAudited ==
    \A h \in Handlers : /\ pc[h] = "accepted" => audit[h] = "allow"
                        /\ pc[h] = "rejected" => audit[h] \in {"deny", "rate_limit"}

\* "ACLRule defines an access control rule matching source DID and skill patterns"
\* (config.go:229): what the rules say of a peer's DID holds for its messages.
\* Not what the code does: see "Disagreements" in README.md.
DidRulesApply ==
    \A h \in Handlers :
        inboundPolicy /\ pc[h] = "accepted" /\ source[h] \in Peers /\ Matching(DidOf[source[h]], skill[h]) # {}
            => CheckAccess(DidOf[source[h]], skill[h])
=============================================================================

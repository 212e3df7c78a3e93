------------------------ MODULE CorePolicyProofs ------------------------
(***************************************************************************)
(* Evicting idle rate limiters is invisible, for any number of handlers    *)
(* and peers, any rates and any rules.  Two facts carry the argument.  A   *)
(* handler between its lookup and its token holds the limiter that is in   *)
(* the map, since its source was seen at most Stall ticks ago and nothing  *)
(* that young is evicted (HoldInv).  And a source not seen for more than   *)
(* Stall ticks can take no token, so its bucket has filled up by the time  *)
(* it is evicted (FillInv).  The second part is about the audit log: no    *)
(* verdict in silence; the third about Outbound, tasks for a URL.          *)
(***************************************************************************)
EXTENDS CorePolicy, Outbound, FiniteSetTheorems, TLAPS

\* The part of TypeOK that the argument needs.
BucketType ==
    /\ limiter \in [Peers -> Limiters \cup {NoLimiter}]
    /\ tokens \in [Peers -> [Limiters -> 0..Burst]]
    /\ age \in [Peers -> 0..Idle + 1]
    /\ pc \in [Handlers -> {"idle", "limit", "token", "accepted", "rejected"}]
    /\ source \in [Handlers -> Sources]
    /\ hold \in [Handlers -> Limiters \cup {NoLimiter}]
    /\ wait \in [Handlers -> 0..Stall]
    /\ ideal \in [Peers -> 0..Burst]

\* A handler past CheckAccess has a source that is limited; one that waits for its
\* token holds the limiter in the map, and its source was seen when it looked it up.
HoldInv ==
    \A h \in Handlers :
        /\ pc[h] \in {"limit", "token"} => source[h] \in Peers
        /\ pc[h] = "token" => /\ hold[h] \in Limiters
                              /\ hold[h] = limiter[source[h]]
                              /\ age[source[h]] <= wait[h]

\* What the bucket of p has got back since p's handlers were through.
Refilled(p) == Refill * (age[p] - Stall)

\* The bucket of a source not seen for more than Stall ticks fills up.
FillInv == \A p \in Peers : age[p] > Stall => ideal[p] >= Burst \/ ideal[p] >= Refilled(p)

IndInv == BucketType /\ HoldInv /\ FillInv /\ EvictionIsInvisible

\* Nobody has been seen and no bucket used.
LEMMA InitIndInv == Init => IndInv
  <1> SUFFICES ASSUME Init PROVE IndInv
    OBVIOUS
  <1> USE RateAssumption DEF Init
  <1>1. BucketType
    BY DEF BucketType, Limiters, NoLimiter, Sources
  <1>2. HoldInv
    BY DEF HoldInv
  <1>3. FillInv
    BY DEF FillInv
  <1>4. EvictionIsInvisible
    BY DEF EvictionIsInvisible
  <1> QED BY <1>1, <1>2, <1>3, <1>4 DEF IndInv

\* The steps that touch no bucket and no holder: arrivals, ends, the policy and the log.
LEMMA QuietStep ==
  ASSUME IndInv, NEW h \in Handlers,
         \/ SetInboundPolicy \/ CloseAudit \/ Finish(h)
         \/ \E s \in Sources, k \in Skills \cup {NoSkill} : HandleMessage(h, s, k)
         \/ \E k \in Skills \cup {NoSkill} : Route(h, k)
  PROVE  IndInv'
  <1> USE DEF IndInv
  <1>1. CASE SetInboundPolicy \/ CloseAudit
    BY <1>1 DEF SetInboundPolicy, CloseAudit, BucketType, HoldInv, FillInv, Refilled, EvictionIsInvisible
  <1>2. CASE Finish(h)
    <2>1. /\ pc' = [pc EXCEPT ![h] = "idle"] /\ source' = [source EXCEPT ![h] = Anonymous]
          /\ pc[h] \in {"accepted", "rejected"}
          /\ UNCHANGED <<limiter, tokens, age, hold, wait, ideal>>
      BY <1>2 DEF Finish
    <2>2. BucketType'
      BY <2>1 DEF BucketType, Sources
    <2>3. HoldInv'
      BY <2>1 DEF HoldInv, BucketType
    <2> QED BY <2>1, <2>2, <2>3 DEF FillInv, Refilled, EvictionIsInvisible
  <1>3. ASSUME NEW s \in Sources, NEW k \in Skills \cup {NoSkill}, HandleMessage(h, s, k)
        PROVE  IndInv'
    <2>1. /\ source' = [source EXCEPT ![h] = s]
          /\ pc[h] = "idle"
          /\ UNCHANGED <<limiter, tokens, age, hold, wait, ideal>>
      BY <1>3 DEF HandleMessage
    <2>2. \E x \in {"limit", "accepted", "rejected"} :
              pc' = [pc EXCEPT ![h] = x] /\ (x = "limit" => s # Anonymous)
      BY <1>3 DEF HandleMessage, Judged
    <2>3. BucketType'
      BY <2>1, <2>2 DEF BucketType
    <2>4. HoldInv'
      BY <2>1, <2>2 DEF HoldInv, BucketType, Sources
    <2> QED BY <2>1, <2>3, <2>4 DEF FillInv, Refilled, EvictionIsInvisible
  <1>4. ASSUME NEW k \in Skills \cup {NoSkill}, Route(h, k)
        PROVE  IndInv'
    <2>1. /\ source' = [source EXCEPT ![h] = Own] /\ Own \in Peers
          /\ pc[h] = "idle"
          /\ UNCHANGED <<limiter, tokens, age, hold, wait, ideal>>
      BY <1>4, NameAssumption DEF Route
    <2>2. \E x \in {"limit", "accepted", "rejected"} : pc' = [pc EXCEPT ![h] = x]
      BY <1>4 DEF Route, Judged
    <2>3. BucketType'
      BY <2>1, <2>2 DEF BucketType, Sources
    <2>4. HoldInv'
      BY <2>1, <2>2 DEF HoldInv, BucketType
    <2> QED BY <2>1, <2>3, <2>4 DEF FillInv, Refilled, EvictionIsInvisible
  <1> QED BY <1>1, <1>2, <1>3, <1>4

\* Looking a limiter up: the source is seen, a new limiter is full.
LEMMA LookupStep ==
  ASSUME IndInv, NEW h \in Handlers, LookupLimiter(h)
  PROVE  IndInv'
  <1> DEFINE p == source[h]
             l == IF limiter[p] = NoLimiter THEN Fresh(p) ELSE limiter[p]
  <1> USE RateAssumption DEF IndInv
  <1>1. /\ pc[h] = "limit" /\ p \in Peers
        /\ limiter' = [limiter EXCEPT ![p] = l]
        /\ tokens' = IF limiter[p] = NoLimiter THEN [tokens EXCEPT ![p][l] = Burst] ELSE tokens
        /\ age' = [age EXCEPT ![p] = 0]
        /\ hold' = [hold EXCEPT ![h] = l] /\ wait' = [wait EXCEPT ![h] = 0]
        /\ pc' = [pc EXCEPT ![h] = "token"]
        /\ UNCHANGED <<source, ideal>>
    BY DEF LookupLimiter, HoldInv
  <1>2. l \in Limiters
    BY <1>1 DEF BucketType, Limiters, NoLimiter, Fresh
  <1>3. \A g \in Handlers : pc[g] = "token" /\ source[g] = p => limiter[p] # NoLimiter
    BY DEF HoldInv, Limiters, NoLimiter
  <1> HIDE DEF p, l
  <1>4. BucketType'
    BY <1>1, <1>2 DEF BucketType
  <1>5. HoldInv'
    <2>1. limiter[p] # NoLimiter => limiter' = limiter
      BY <1>1 DEF l, BucketType
    <2> QED
      BY <1>1, <1>2, <1>3, <2>1 DEF HoldInv, BucketType, p
  <1>6. FillInv'
    BY <1>1 DEF FillInv, Refilled, BucketType
  <1>7. EvictionIsInvisible'
    <2> SUFFICES ASSUME NEW q \in Peers
                 PROVE  ideal[q] = IF limiter'[q] = NoLimiter THEN Burst ELSE tokens'[q][limiter'[q]]
      BY <1>1 DEF EvictionIsInvisible
    <2>1. CASE q # p
      BY <2>1, <1>1 DEF EvictionIsInvisible, BucketType
    <2>2. CASE q = p /\ limiter[p] = NoLimiter
      BY <2>2, <1>1, <1>2 DEF EvictionIsInvisible, BucketType, Limiters, NoLimiter
    <2>3. CASE q = p /\ limiter[p] # NoLimiter
      BY <2>3, <1>1 DEF EvictionIsInvisible, BucketType, l
    <2> QED BY <2>1, <2>2, <2>3
  <1> QED BY <1>4, <1>5, <1>6, <1>7

\* Taking a token: from the limiter in the map, by a source seen lately.
LEMMA TokenStep ==
  ASSUME IndInv, NEW h \in Handlers, TakeToken(h)
  PROVE  IndInv'
  <1> DEFINE p == source[h]
             l == hold[h]
  <1> USE RateAssumption DEF IndInv
  <1>1. /\ p \in Peers /\ l \in Limiters /\ l = limiter[p] /\ age[p] <= Stall
        /\ ideal[p] = tokens[p][l]
    BY DEF TakeToken, HoldInv, BucketType, EvictionIsInvisible, Limiters, NoLimiter
  <1>2. /\ hold' = [hold EXCEPT ![h] = NoLimiter] /\ wait' = [wait EXCEPT ![h] = 0]
        /\ \E x \in {"accepted", "rejected"} : pc' = [pc EXCEPT ![h] = x]
        /\ UNCHANGED <<limiter, age, source>>
    BY DEF TakeToken, Judged
  <1>3. \/ /\ tokens[p][l] > 0
           /\ tokens' = [tokens EXCEPT ![p][l] = @ - 1]
           /\ ideal' = [ideal EXCEPT ![p] = @ - 1]
        \/ UNCHANGED <<tokens, ideal>>
    BY DEF TakeToken
  <1> HIDE DEF p, l
  <1>4. BucketType'
    <2>1. limiter' \in [Peers -> Limiters \cup {NoLimiter}] /\ age' \in [Peers -> 0..Idle + 1]
          /\ source' \in [Handlers -> Sources] /\ hold' \in [Handlers -> Limiters \cup {NoLimiter}]
          /\ wait' \in [Handlers -> 0..Stall]
          /\ pc' \in [Handlers -> {"idle", "limit", "token", "accepted", "rejected"}]
      BY <1>2 DEF BucketType
    <2>2. Burst \in Nat /\ tokens \in [Peers -> [Limiters -> 0..Burst]] /\ ideal \in [Peers -> 0..Burst]
      BY DEF BucketType
    <2>3. tokens[p] \in [Limiters -> 0..Burst] /\ tokens[p][l] \in 0..Burst
      BY <1>1, <2>2
    <2>6. tokens' \in [Peers -> [Limiters -> 0..Burst]] /\ ideal' \in [Peers -> 0..Burst]
      <3>1. CASE UNCHANGED <<tokens, ideal>>
        BY <2>2, <3>1
      <3>2. CASE /\ tokens[p][l] > 0
                 /\ tokens' = [tokens EXCEPT ![p][l] = @ - 1]
                 /\ ideal' = [ideal EXCEPT ![p] = @ - 1]
        <4>1. tokens[p][l] - 1 \in 0..Burst
          BY ONLY <2>2, <2>3, <3>2
        <4>2. [tokens[p] EXCEPT ![l] = tokens[p][l] - 1] \in [Limiters -> 0..Burst]
          BY ONLY <2>3, <4>1
        <4>3. tokens' = [tokens EXCEPT ![p] = [tokens[p] EXCEPT ![l] = tokens[p][l] - 1]]
          BY ONLY <3>2
        <4>4. tokens' \in [Peers -> [Limiters -> 0..Burst]]
          BY ONLY <2>2, <4>2, <4>3
        <4>5. ideal' \in [Peers -> 0..Burst]
          BY ONLY <2>2, <3>2, <1>1, <4>1
        <4> QED BY <4>4, <4>5
      <3> QED BY <1>3, <3>1, <3>2
    <2> QED BY <2>1, <2>6 DEF BucketType
  <1>5. HoldInv'
    BY <1>2 DEF HoldInv, BucketType
  <1>6. FillInv'
    BY <1>1, <1>2, <1>3 DEF FillInv, Refilled, BucketType
  <1>7. EvictionIsInvisible'
    BY <1>1, <1>2, <1>3 DEF EvictionIsInvisible, BucketType, Limiters, NoLimiter
  <1> QED BY <1>4, <1>5, <1>6, <1>7

\* Evicting: no handler waits for a token of the source, and its bucket is full.
LEMMA CleanupStep ==
  ASSUME IndInv, Cleanup
  PROVE  IndInv'
  <1> USE DEF IndInv
  <1>0. Idle \in Nat /\ Stall \in Nat /\ Refill \in Nat /\ Burst \in Nat /\ Stall < Idle
    BY RateAssumption
  <1>1. /\ limiter' = [p \in Peers |-> IF age[p] > Idle THEN NoLimiter ELSE limiter[p]]
        /\ UNCHANGED <<tokens, age, pc, source, hold, wait, ideal>>
    BY DEF Cleanup
  <1>2. ASSUME NEW p \in Peers, age[p] > Idle PROVE ideal[p] = Burst
    <2>0. age[p] \in 0..Idle + 1 /\ ideal[p] \in 0..Burst
      BY DEF BucketType
    <2>1. age[p] = Idle + 1 /\ ideal[p] \in 0..Burst
      BY ONLY <1>0, <1>2, <2>0
    <2>2. Refilled(p) >= Burst
      <3>1. Refilled(p) = Refill * (Idle - Stall) + Refill
        BY <1>0, <2>1 DEF Refilled
      <3>2. Refill * (Idle - Stall) = (Idle - Stall) * Refill
        BY <1>0
      <3>3. Refill * (Idle - Stall) \in Int
        BY <1>0
      <3> QED BY <1>0, <3>1, <3>2, <3>3, RateAssumption
    <2>3. ideal[p] >= Burst \/ ideal[p] >= Refilled(p)
      BY <1>0, <2>1 DEF FillInv
    <2>4. Refilled(p) \in Int
      BY <1>0, <2>1 DEF Refilled
    <2> QED BY <1>0, <2>1, <2>2, <2>3, <2>4
  <1>3. BucketType'
    BY <1>1 DEF BucketType
  <1>4. HoldInv'
    BY <1>0, <1>1 DEF HoldInv, BucketType
  <1>5. FillInv'
    BY <1>1 DEF FillInv, Refilled
  <1>6. EvictionIsInvisible'
    BY <1>1, <1>2 DEF EvictionIsInvisible, Limiters, NoLimiter
  <1> QED BY <1>3, <1>4, <1>5, <1>6

\* Time: every bucket fills alike.
LEMMA TickStep ==
  ASSUME IndInv, Tick
  PROVE  IndInv'
  <1> USE RateAssumption DEF IndInv
  <1>1. /\ \A h \in Handlers : pc[h] = "token" => wait[h] < Stall
        /\ wait' = [h \in Handlers |-> IF pc[h] = "token" THEN wait[h] + 1 ELSE wait[h]]
        /\ age' = [p \in Peers |-> Capped(age[p] + 1, Idle + 1)]
        /\ tokens' = [p \in Peers |-> [l \in Limiters |-> Capped(tokens[p][l] + Refill, Burst)]]
        /\ ideal' = [p \in Peers |-> Capped(ideal[p] + Refill, Burst)]
        /\ UNCHANGED <<limiter, pc, source, hold>>
    BY DEF Tick
  <1>2. BucketType'
    BY <1>1 DEF BucketType, Capped
  <1>3. HoldInv'
    BY <1>1 DEF HoldInv, BucketType, Capped
  <1>4. FillInv'
    <2> SUFFICES ASSUME NEW p \in Peers, age'[p] > Stall
                 PROVE  ideal'[p] >= Burst \/ ideal'[p] >= Refill * (age'[p] - Stall)
      BY DEF FillInv, Refilled
    <2>1. /\ age[p] \in 0..Idle + 1 /\ ideal[p] \in 0..Burst
          /\ age'[p] = Capped(age[p] + 1, Idle + 1) /\ ideal'[p] = Capped(ideal[p] + Refill, Burst)
      BY <1>1 DEF BucketType
    <2>2. CASE age[p] > Idle
      <3>1. age'[p] = age[p] /\ age[p] > Stall
        BY <2>1, <2>2 DEF Capped
      <3>2. ideal[p] >= Burst \/ ideal[p] >= Refill * (age[p] - Stall)
        BY <3>1 DEF FillInv, Refilled
      <3>3. Refill * (age[p] - Stall) \in Int /\ Refill * (age'[p] - Stall) = Refill * (age[p] - Stall)
        BY <2>1, <3>1
      <3> QED BY <2>1, <3>2, <3>3 DEF Capped
    <2>3. CASE age[p] <= Idle /\ age[p] > Stall
      <3>1. age'[p] = age[p] + 1
        BY <2>1, <2>3 DEF Capped
      <3>2. ideal[p] >= Burst \/ ideal[p] >= Refill * (age[p] - Stall)
        BY <2>3 DEF FillInv, Refilled
      <3>3. /\ Refill * (age[p] - Stall) \in Int
            /\ Refill * (age'[p] - Stall) = Refill * (age[p] - Stall) + Refill
        BY <2>1, <3>1
      <3> QED BY <2>1, <3>2, <3>3 DEF Capped
    <2>4. CASE age[p] <= Stall
      <3>1. age'[p] - Stall = 1
        BY <2>1, <2>4 DEF Capped
      <3> QED BY <2>1, <3>1 DEF Capped
    <2> QED BY <2>1, <2>2, <2>3, <2>4
  <1>5. EvictionIsInvisible'
    <2> SUFFICES ASSUME NEW p \in Peers
                 PROVE  ideal'[p] = IF limiter[p] = NoLimiter THEN Burst ELSE tokens'[p][limiter[p]]
      BY <1>1 DEF EvictionIsInvisible
    <2>1. CASE limiter[p] = NoLimiter
      BY <2>1, <1>1 DEF EvictionIsInvisible, Capped
    <2>2. CASE limiter[p] # NoLimiter
      BY <2>2, <1>1 DEF EvictionIsInvisible, Capped, BucketType
    <2> QED BY <2>1, <2>2
  <1> QED BY <1>2, <1>3, <1>4, <1>5

\* The invariant of the buckets holds in every behaviour.
THEOREM IndInvCorrect == Spec => []IndInv
  <1>1. IndInv /\ [Next]_vars => IndInv'
    <2> SUFFICES ASSUME IndInv, [Next]_vars PROVE IndInv'
      OBVIOUS
    <2>1. CASE SetInboundPolicy \/ CloseAudit
      BY <2>1 DEF IndInv, SetInboundPolicy, CloseAudit, BucketType, HoldInv, FillInv, Refilled, EvictionIsInvisible
    <2>2. ASSUME NEW h \in Handlers,
                 \/ \E s \in Sources \ {Own}, k \in Skills \cup {NoSkill} : HandleMessage(h, s, k)
                 \/ \E k \in Skills \cup {NoSkill} : Route(h, k)
                 \/ LookupLimiter(h) \/ TakeToken(h) \/ Finish(h)
          PROVE  IndInv'
      BY <2>2, QuietStep, LookupStep, TokenStep
    <2>3. CASE Cleanup
      BY <2>3, CleanupStep
    <2>4. CASE Tick
      BY <2>4, TickStep
    <2>5. CASE UNCHANGED vars
      BY <2>5 DEF vars, IndInv, BucketType, HoldInv, FillInv, Refilled, EvictionIsInvisible
    <2> QED BY <2>1, <2>2, <2>3, <2>4, <2>5 DEF Next
  <1> QED
    BY InitIndInv, <1>1, PTL DEF Spec

\* Evicting and re-creating limiters (ratelimit.go:71-98, 120-147) never gives a
\* source more, or less, than one limiter kept for ever would.
THEOREM EvictionIsInvisibleCorrect == Spec => []EvictionIsInvisible
  <1>1. IndInv => EvictionIsInvisible
    BY DEF IndInv
  <1> QED
    BY IndInvCorrect, <1>1, PTL

-----------------------------------------------------------------------------
(* Verdicts and their records *)

\* The part of TypeOK that has nothing to do with buckets.
RecordType ==
    /\ inboundPolicy \in BOOLEAN /\ auditOpen \in BOOLEAN
    /\ skill \in [Handlers -> Skills \cup {NoSkill}]
    /\ audit \in [Handlers -> Entries]

\* Every step keeps the records records.
LEMMA RecordStep == RecordType /\ [Next]_vars => RecordType'
  <1> SUFFICES ASSUME RecordType, [Next]_vars PROVE RecordType'
    OBVIOUS
  <1> USE DEF RecordType, Judged, Entries
  <1>1. CASE SetInboundPolicy \/ CloseAudit \/ Cleanup \/ Tick \/ UNCHANGED vars
    BY <1>1 DEF SetInboundPolicy, CloseAudit, Cleanup, Tick, vars
  <1>2. ASSUME NEW h \in Handlers, NEW s \in Sources \ {Own}, NEW k \in Skills \cup {NoSkill},
               HandleMessage(h, s, k)
        PROVE  RecordType'
    BY <1>2 DEF HandleMessage
  <1>3. ASSUME NEW h \in Handlers, NEW k \in Skills \cup {NoSkill}, Route(h, k) PROVE RecordType'
    BY <1>3 DEF Route
  <1>4. ASSUME NEW h \in Handlers, LookupLimiter(h) PROVE RecordType'
    BY <1>4 DEF LookupLimiter
  <1>5. ASSUME NEW h \in Handlers, TakeToken(h) PROVE RecordType'
    BY <1>5 DEF TakeToken
  <1>6. ASSUME NEW h \in Handlers, Finish(h) PROVE RecordType'
    BY <1>6 DEF Finish
  <1> QED
    BY <1>1, <1>2, <1>3, <1>4, <1>5, <1>6 DEF Next

\* Types; in particular no bucket is ever below empty or above full.
THEOREM TypeCorrect == Spec => []TypeOK
  <1>1. Init => RecordType
    BY NameAssumption DEF Init, RecordType, Entries
  <1>2. IndInv /\ RecordType => TypeOK
    <2> SUFFICES ASSUME IndInv, RecordType PROVE TypeOK
      OBVIOUS
    <2>1. ideal \in [Peers -> Int]
      BY RateAssumption DEF IndInv, BucketType
    <2> QED BY <2>1 DEF IndInv, BucketType, RecordType, TypeOK
  <1> QED
    BY <1>1, <1>2, RecordStep, IndInvCorrect, PTL DEF Spec

\* The verdict of h in a step, if it has one, is on record, or its record failed.
OnRecord(h) ==
    inboundPolicy /\ pc[h] \notin {"accepted", "rejected"} =>
        /\ pc'[h] = "accepted" => audit'[h] \in {"allow", "failed"}
        /\ pc'[h] = "rejected" => audit'[h] \in {"deny", "rate_limit", "failed"}

\* Once the policy is set, no goroutine passes or drops a message without a call of Log
\* for it, whose record is the verdict or could not be written, however the goroutines
\* that share limiter and log interleave with each other and with the shutdown
\* (core.go:156-218, 245-295; audit.go:54-69).
THEOREM VerdictAuditedCorrect == Spec => VerdictAudited
  <1>1. ASSUME TypeOK, Next PROVE \A h \in Handlers : OnRecord(h)
    <2> SUFFICES ASSUME NEW h \in Handlers, inboundPolicy, pc[h] \notin {"accepted", "rejected"}
                 PROVE  /\ pc'[h] = "accepted" => audit'[h] \in {"allow", "failed"}
                        /\ pc'[h] = "rejected" => audit'[h] \in {"deny", "rate_limit", "failed"}
      BY DEF OnRecord
    <2> DEFINE Ok == /\ pc'[h] = "accepted" => audit'[h] \in {"allow", "failed"}
                     /\ pc'[h] = "rejected" => audit'[h] \in {"deny", "rate_limit", "failed"}
    <2>0. pc \in [Handlers -> {"idle", "limit", "token", "accepted", "rejected"}] /\ DOMAIN audit = Handlers
      BY <1>1 DEF TypeOK
    <2>1. ASSUME NEW g \in Handlers, NEW r \in {"allow", "deny", "rate_limit"}, Judged(g, r) PROVE Ok
      <3>1. /\ \E entry \in {r, "failed"} : audit' = [audit EXCEPT ![g] = entry]
            /\ pc' = [pc EXCEPT ![g] = IF r = "allow" THEN "accepted" ELSE "rejected"]
        BY <2>1 DEF Judged
      <3> QED BY <2>0, <3>1
    <2>2. ASSUME NEW g \in Handlers, NEW x \in {"limit", "token", "idle"}, pc' = [pc EXCEPT ![g] = x] PROVE Ok
      BY <2>0, <2>2
    <2>3. ASSUME pc' = pc PROVE Ok
      BY <2>3
    <2> HIDE DEF Ok
    <2>4. ASSUME NEW g \in Handlers, NEW s \in Sources \ {Own}, NEW k \in Skills \cup {NoSkill},
                 HandleMessage(g, s, k)
          PROVE  Ok
      <3>1. Judged(g, "deny") \/ Judged(g, "allow") \/ pc' = [pc EXCEPT ![g] = "limit"]
        BY <2>4, Zenon DEF HandleMessage
      <3> QED BY <2>1, <2>2, <3>1
    <2>5. ASSUME NEW g \in Handlers, NEW k \in Skills \cup {NoSkill}, Route(g, k) PROVE Ok
      <3>1. Judged(g, "deny") \/ pc' = [pc EXCEPT ![g] = "limit"]
        BY <2>5, Zenon DEF Route
      <3> QED BY <2>1, <2>2, <3>1
    <2>6. ASSUME NEW g \in Handlers, LookupLimiter(g) PROVE Ok
      BY <2>2, <2>6 DEF LookupLimiter
    <2>7. ASSUME NEW g \in Handlers, TakeToken(g) PROVE Ok
      <3>1. Judged(g, "allow") \/ Judged(g, "rate_limit")
        BY <2>7, Zenon DEF TakeToken
      <3> QED BY <2>1, <3>1
    <2>8. ASSUME NEW g \in Handlers, Finish(g) PROVE Ok
      BY <2>2, <2>8 DEF Finish
    <2>9. ASSUME SetInboundPolicy \/ CloseAudit \/ Cleanup \/ Tick PROVE Ok
      BY <2>3, <2>9 DEF SetInboundPolicy, CloseAudit, Cleanup, Tick
    <2>10. Ok
      BY <1>1, <2>4, <2>5, <2>6, <2>7, <2>8, <2>9 DEF Next
    <2> QED BY <2>10 DEF Ok
  <1>2. TypeOK /\ [Next]_vars => [\A h \in Handlers : OnRecord(h)]_vars
    BY <1>1
  <1>3. Spec => [][\A h \in Handlers : OnRecord(h)]_vars
    BY <1>2, TypeCorrect, PTL DEF Spec
  <1> QED
    BY <1>3 DEF OnRecord, VerdictAudited

-----------------------------------------------------------------------------
(* Outbound: tasks sent to a URL, for any requests, targets, policies and  *)
(* rates, and any number of calls at once.                                 *)

\* What the configuration gives: capacities and bounds are numbers.
OutboundConstants == OwnBurst \in Nat /\ MaxRefills \in Nat /\ InCap \in Nat

\* Calls that are past the limiter, whatever became of them.
Admitted == {r \in Requests : call[r] \in {"allowed", "dispatch", "routed", "ok", "error", "unconfigured"}}

\* What the log may say of a call that is at this point of Route.
Record(phase) ==
    CASE phase \in {"idle", "acl", "rate", "allowed"} -> {<<>>}
      [] phase = "denied"  -> {<<"deny">>, <<"failed">>}
      [] phase = "limited" -> {<<"rate_limit">>, <<"failed">>}
      [] OTHER             -> {<<"allow">>, <<"failed">>}

\* What holds of one call: its log and its message are where the call is.
CallType ==
    /\ call \in [Requests -> Phases]
    /\ ownTokens \in 0..OwnBurst /\ refills \in 0..MaxRefills
    /\ auditLog \in [Requests -> Seq(Actions \cup {"failed"})]
    /\ published \subseteq Requests /\ records \subseteq Requests
LogInv == \A r \in Requests : auditLog[r] \in IF "audit" \in Policies THEN Record(call[r]) ELSE {<<>>}
PublishedInv ==
    /\ published = {r \in Requests : call[r] \in {"routed", "ok"}}
    /\ records = {r \in Requests : call[r] = "ok"}

\* Every call past the limiter has taken a token.
AdmittedInv ==
    "rate" \in Policies => IsFiniteSet(Admitted) /\ Cardinality(Admitted) <= OwnBurst + refills - ownTokens

\* What the target has comes from the sender, one message in the callback, and no more
\* in the channel than it has room for.
TargetInv ==
    /\ wire \subseteq published
    /\ callback = {} \/ \E r \in published : callback = {r}
    /\ inCh \subseteq published /\ IsFiniteSet(inCh) /\ Cardinality(inCh) <= InCap
    /\ closing \in {"open", "unsubscribed", "disconnected", "closed"}

OutboundInv == CallType /\ LogInv /\ PublishedInv /\ AdmittedInv /\ TargetInv

LEMMA OutboundInvInit ==
    ASSUME OutboundConstants, OutboundInit
    PROVE  OutboundInv
<1>1. CallType /\ LogInv /\ PublishedInv
  BY DEF OutboundConstants, OutboundInit, CallType, LogInv, PublishedInv, Record, Phases
<1>2. AdmittedInv
  <2>1. Admitted = {}
    BY DEF OutboundInit, Admitted
  <2> QED
    BY <2>1, FS_EmptySet DEF OutboundConstants, OutboundInit, AdmittedInv
<1>3. TargetInv
  BY FS_EmptySet DEF OutboundConstants, OutboundInit, TargetInv
<1> QED
  BY <1>1, <1>2, <1>3 DEF OutboundInv

\* A step of one call from one phase to another, with what goes with it.
LEMMA CallMoves ==
    ASSUME OutboundConstants, OutboundInv, NEW r \in Requests,
           \/ SendTask(r) \/ CheckACL(r) \/ CheckRate(r) \/ LogAllow(r) \/ EncryptFails(r)
           \/ SendHttp(r) \/ SendNats(r) \/ SendNatsFails(r) \/ CreateTask(r)
    PROVE  CallType' /\ LogInv' /\ PublishedInv'
<1> USE DEF OutboundConstants, OutboundInv, CallType, Phases
<1>2. CASE SendTask(r)
  BY <1>2 DEF SendTask, LogInv, PublishedInv, Record
<1>a. ASSUME call[r] \in {"acl", "rate", "allowed"},
             NEW to \in {"rate", "allowed", "denied", "limited", "dispatch"},
             NEW action \in {"deny", "rate_limit", "allow"},
             call' = [call EXCEPT ![r] = to],
             \/ Record(to) = {<<>>} /\ auditLog' = auditLog
             \/ Record(to) = {<<action>>, <<"failed">>} /\ Logged(r, action),
             UNCHANGED <<published, records>>, ownTokens' \in 0..OwnBurst, UNCHANGED refills
      PROVE  CallType' /\ LogInv' /\ PublishedInv'
  <2>1. auditLog[r] = <<>> /\ \A x : Append(<<>>, x) = <<x>>
    BY <1>a DEF LogInv, Record
  <2>2. call' \in [Requests -> Phases] /\ PublishedInv'
    BY <1>a DEF PublishedInv
  <2>3. \/ auditLog' = auditLog
        \/ \E entry \in {action, "failed"} : auditLog' = [auditLog EXCEPT ![r] = <<entry>>]
    BY <1>a, <2>1 DEF Logged
  <2>4. \A entry \in {action, "failed"} : <<entry>> \in Seq(Actions \cup {"failed"})
    BY <1>a DEF Actions
  <2>5. CallType'
    BY <1>a, <2>2, <2>3, <2>4
  <2>6. auditLog'[r] \in IF "audit" \in Policies THEN Record(to) ELSE {<<>>}
    BY <1>a, <2>1 DEF Logged
  <2>7. \A q \in Requests \ {r} : auditLog'[q] = auditLog[q] /\ call'[q] = call[q]
    BY <1>a, <2>3
  <2>8. call'[r] = to
    BY <1>a
  <2> QED
    BY <2>2, <2>5, <2>6, <2>7, <2>8 DEF LogInv
<1>b. /\ Record("rate") = {<<>>} /\ Record("allowed") = {<<>>}
      /\ Record("denied") = {<<"deny">>, <<"failed">>}
      /\ Record("limited") = {<<"rate_limit">>, <<"failed">>}
      /\ Record("dispatch") = {<<"allow">>, <<"failed">>}
  BY DEF Record
<1>3. CASE CheckACL(r)
  BY <1>a, <1>b, <1>3 DEF CheckACL
<1>4. CASE CheckRate(r)
  <2>1. call[r] = "rate" /\ ownTokens' \in 0..OwnBurst /\ UNCHANGED <<refills, published, records>>
    BY <1>4 DEF CheckRate
  <2> QED
    BY <1>a, <1>b, <1>4, <2>1 DEF CheckRate
<1>5. CASE LogAllow(r)
  BY <1>a, <1>b, <1>5 DEF LogAllow
<1>6. CASE EncryptFails(r) \/ SendNatsFails(r)
  BY <1>6 DEF EncryptFails, SendNatsFails, Dispatches, LogInv, PublishedInv, Record
<1>7. CASE SendHttp(r)
  BY <1>7 DEF SendHttp, HttpSender, Dispatches, LogInv, PublishedInv, Record
<1>8. CASE SendNats(r)
  BY <1>8 DEF SendNats, Dispatches, LogInv, PublishedInv, Record
<1>9. CASE CreateTask(r)
  BY <1>9 DEF CreateTask, LogInv, PublishedInv, Record
<1> QED
  BY <1>2, <1>3, <1>4, <1>5, <1>6, <1>7, <1>8, <1>9

\* Only CheckRate lets a call past the limiter, and it takes a token for it.
LEMMA AdmittedStep ==
    ASSUME OutboundConstants, OutboundInv, [OutboundNext]_outboundVars
    PROVE  AdmittedInv'
<1> USE DEF OutboundConstants, OutboundInv, CallType, Phases
<1>1. ASSUME UNCHANGED <<ownTokens, refills>>, Admitted' = Admitted
      PROVE  AdmittedInv'
  BY <1>1 DEF AdmittedInv
<1>2. ASSUME NEW r \in Requests,
             \/ SendTask(r) \/ CheckACL(r) \/ LogAllow(r) \/ EncryptFails(r)
             \/ SendHttp(r) \/ SendNats(r) \/ SendNatsFails(r) \/ CreateTask(r)
      PROVE  AdmittedInv'
  <2>1. CASE SendTask(r) \/ CheckACL(r)
    BY <1>1, <2>1 DEF SendTask, CheckACL, Admitted
  <2>2. CASE LogAllow(r) \/ EncryptFails(r) \/ CreateTask(r)
    BY <1>1, <2>2 DEF LogAllow, EncryptFails, CreateTask, Admitted
  <2>3. CASE SendHttp(r) \/ SendNats(r) \/ SendNatsFails(r)
    BY <1>1, <2>3 DEF SendHttp, HttpSender, SendNats, SendNatsFails, Dispatches, Admitted
  <2> QED
    BY <1>2, <2>1, <2>2, <2>3
<1>3. ASSUME NEW r \in Requests, CheckRate(r)
      PROVE  AdmittedInv'
  <2>1. CASE "rate" \in Policies /\ ownTokens = 0
    BY <1>1, <1>3, <2>1 DEF CheckRate, Admitted
  <2>2. CASE "rate" \in Policies /\ ownTokens # 0
    <3>1. ownTokens' = ownTokens - 1 /\ refills' = refills
      BY <1>3, <2>2 DEF CheckRate
    <3>2. Admitted' = Admitted \cup {r}
      BY <1>3, <2>2 DEF CheckRate, Admitted
    <3>3. r \notin Admitted
      BY <1>3 DEF CheckRate, Admitted
    <3>4. IsFiniteSet(Admitted) /\ Cardinality(Admitted) <= OwnBurst + refills - ownTokens
      BY <2>2 DEF AdmittedInv
    <3>5. IsFiniteSet(Admitted') /\ Cardinality(Admitted') = Cardinality(Admitted) + 1
      BY <3>2, <3>3, <3>4, FS_AddElement
    <3>6. Cardinality(Admitted) \in Nat
      BY <3>4, FS_CardinalityType
    <3> HIDE DEF Admitted
    <3> QED
      BY <3>1, <3>4, <3>5, <3>6 DEF AdmittedInv
  <2>3. CASE "rate" \notin Policies
    BY <2>3 DEF AdmittedInv
  <2> QED
    BY <2>1, <2>2, <2>3
<1>4. CASE TokenReturns
  <2>1. Admitted' = Admitted /\ ownTokens' = ownTokens + 1 /\ refills' = refills + 1
    BY <1>4 DEF TokenReturns, Admitted
  <2> QED
    BY <2>1 DEF AdmittedInv
<1>5. ASSUME UNCHANGED <<call, ownTokens, refills>>
      PROVE  AdmittedInv'
  BY <1>1, <1>5 DEF Admitted
<1>6. ASSUME NEW r \in Requests, Lose(r) \/ Deliver(r) \/ \E ingested \in BOOLEAN : handleMessage(r, ingested)
      PROVE  AdmittedInv'
  BY <1>5, <1>6 DEF Lose, Deliver, handleMessage
<1>7. CASE CloseSender \/ Close \/ UNCHANGED outboundVars
  BY <1>5, <1>7 DEF CloseSender, Close, outboundVars
<1> QED
  BY <1>2, <1>3, <1>4, <1>6, <1>7 DEF OutboundNext

\* The target gets only what was published.
LEMMA TargetStep ==
    ASSUME OutboundConstants, OutboundInv, [OutboundNext]_outboundVars
    PROVE  TargetInv'
<1> USE DEF OutboundConstants, OutboundInv
<1>1. ASSUME UNCHANGED <<wire, callback, inCh, closing, published>>
      PROVE  TargetInv'
  BY <1>1 DEF TargetInv
<1>2. ASSUME NEW r \in Requests,
             \/ SendTask(r) \/ CheckACL(r) \/ CheckRate(r) \/ LogAllow(r) \/ EncryptFails(r)
             \/ SendHttp(r) \/ SendNatsFails(r) \/ CreateTask(r)
      PROVE  TargetInv'
  BY <1>1, <1>2 DEF SendTask, CheckACL, CheckRate, LogAllow, EncryptFails, SendHttp,
                    SendNatsFails, CreateTask
<1>3. ASSUME NEW r \in Requests, SendNats(r) \/ Lose(r) \/ Deliver(r)
      PROVE  TargetInv'
  BY <1>3 DEF SendNats, Lose, Deliver, TargetInv
<1>4. ASSUME NEW r \in Requests, NEW ingested \in BOOLEAN, handleMessage(r, ingested)
      PROVE  TargetInv'
  <2>1. /\ UNCHANGED <<wire, published, closing>> /\ callback' = {} /\ r \in published
        /\ inCh' = inCh \/ (inCh' = inCh \cup {r} /\ Cardinality(inCh) < InCap)
    <3>1. callback = {r}
      BY <1>4 DEF handleMessage
    <3>2. r \in published
      BY <3>1 DEF TargetInv
    <3> QED
      BY <1>4, <3>2 DEF handleMessage
  <2>2. CASE inCh' = inCh
    BY <2>1, <2>2 DEF TargetInv
  <2>3. CASE inCh' = inCh \cup {r} /\ Cardinality(inCh) < InCap
    <3>1. IsFiniteSet(inCh) /\ Cardinality(inCh) \in Nat
      BY FS_CardinalityType DEF TargetInv
    <3>2. IsFiniteSet(inCh') /\ Cardinality(inCh') <= Cardinality(inCh) + 1
      BY <2>3, <3>1, FS_AddElement
    <3>3. Cardinality(inCh') \in Nat
      BY <3>2, FS_CardinalityType
    <3>4. Cardinality(inCh') <= InCap
      BY <2>3, <3>1, <3>2, <3>3
    <3> QED
      BY <2>1, <2>3, <3>2, <3>4 DEF TargetInv
  <2> QED
    BY <2>1, <2>2, <2>3
<1>5. CASE TokenReturns \/ CloseSender \/ UNCHANGED outboundVars
  BY <1>1, <1>5 DEF TokenReturns, CloseSender, outboundVars
<1>6. CASE Close
  BY <1>6 DEF Close, TargetInv
<1> QED
  BY <1>2, <1>3, <1>4, <1>5, <1>6 DEF OutboundNext

LEMMA OutboundInvStep ==
    ASSUME OutboundConstants, OutboundInv, [OutboundNext]_outboundVars
    PROVE  OutboundInv'
<1>1. CallType' /\ LogInv' /\ PublishedInv'
  <2>1. ASSUME UNCHANGED <<call, auditLog, published, records>>, ownTokens' \in 0..OwnBurst, refills' \in 0..MaxRefills
        PROVE  CallType' /\ LogInv' /\ PublishedInv'
    BY <2>1 DEF OutboundInv, CallType, LogInv, PublishedInv
  <2>2. ASSUME NEW r \in Requests, Lose(r) \/ Deliver(r) \/ \E ingested \in BOOLEAN : handleMessage(r, ingested)
        PROVE  CallType' /\ LogInv' /\ PublishedInv'
    BY <2>1, <2>2 DEF Lose, Deliver, handleMessage, OutboundInv, CallType
  <2>3. CASE CloseSender \/ Close \/ UNCHANGED outboundVars
    BY <2>1, <2>3 DEF CloseSender, Close, outboundVars, OutboundInv, CallType
  <2>4. CASE TokenReturns
    BY <2>1, <2>4 DEF TokenReturns, OutboundInv, CallType, OutboundConstants
  <2> QED
    BY <2>2, <2>3, <2>4, CallMoves DEF OutboundNext
<1> QED
  BY <1>1, AdmittedStep, TargetStep DEF OutboundInv

\* Where a call is in Route decides what the log and the engine have of it, and every
\* call past the limiter has taken a token (core.go: Route; server.go: SendTask).
THEOREM OutboundInvCorrect ==
    ASSUME OutboundConstants
    PROVE  OutboundSpec => []OutboundInv
<1>1. OutboundInit => OutboundInv
  BY OutboundInvInit
<1>2. OutboundInv /\ [OutboundNext]_outboundVars => OutboundInv'
  BY OutboundInvStep
<1> QED
  BY <1>1, <1>2, PTL DEF OutboundSpec

\* The variables keep their types, and the target's channel never holds more than it has
\* room for (nats/transport.go: handleMessage).
THEOREM OutboundTypeCorrect ==
    ASSUME OutboundConstants
    PROVE  OutboundSpec => []OutboundTypeOK
<1>1. OutboundInv => OutboundTypeOK
  <2> SUFFICES ASSUME OutboundInv PROVE OutboundTypeOK
    OBVIOUS
  <2>1. callback \subseteq published /\ Cardinality(callback) <= 1
    <3>1. \A r : Cardinality({r}) = 1
      BY FS_Singleton
    <3>2. Cardinality({}) = 0
      BY FS_EmptySet
    <3> QED
      BY <3>1, <3>2 DEF OutboundInv, TargetInv
  <2>2. \A r \in Requests : \A i \in DOMAIN auditLog[r] : auditLog[r][i] \in Actions \cup {"failed"}
    BY DEF OutboundInv, CallType
  <2> QED
    BY <2>1, <2>2 DEF OutboundInv, CallType, TargetInv, OutboundTypeOK
<1> QED
  BY <1>1, OutboundInvCorrect, PTL

\* Calls at once never publish more messages than the limiter has given tokens for,
\* since every one of them has taken its token first (core.go: Route, step 2).
THEOREM WithinRateCorrect ==
    ASSUME OutboundConstants
    PROVE  OutboundSpec => []WithinRate
<1>1. OutboundInv => WithinRate
  <2> SUFFICES ASSUME OutboundInv, "rate" \in Policies
               PROVE  Cardinality(published) <= OwnBurst + refills - ownTokens
    BY DEF WithinRate
  <2>1. IsFiniteSet(Admitted) /\ Cardinality(Admitted) <= OwnBurst + refills - ownTokens
    BY DEF OutboundInv, AdmittedInv
  <2>2. published \subseteq Admitted
    BY DEF OutboundInv, PublishedInv, Admitted
  <2>3. /\ Cardinality(published) <= Cardinality(Admitted)
        /\ Cardinality(published) \in Nat /\ Cardinality(Admitted) \in Nat
    BY <2>1, <2>2, FS_Subset, FS_CardinalityType
  <2>4. OwnBurst + refills - ownTokens \in Int
    BY DEF OutboundInv, CallType, OutboundConstants
  <2> QED
    BY <2>1, <2>3, <2>4
<1> QED
  BY <1>1, OutboundInvCorrect, PTL

\* Route has three places that log, and exactly one of them calls Log for a call with an
\* outcome; a message that is out has its allow record and a refused call the record of its
\* refusal, or Log failed and that stopped nothing (core.go: Route, 1 to 3; audit.go: Log).
THEOREM LoggedOnceCorrect ==
    ASSUME OutboundConstants
    PROVE  OutboundSpec => []LoggedOnce
<1>1. OutboundInv => LoggedOnce
  BY DEF OutboundInv, CallType, LogInv, PublishedInv, LoggedOnce, Record, Phases
<1> QED
  BY <1>1, OutboundInvCorrect, PTL

\* A call that is refused or fails leaves no task behind in the engine
\* (server.go: SendTask, after Route).
THEOREM TrackedIsPublishedCorrect ==
    ASSUME OutboundConstants
    PROVE  OutboundSpec => []TrackedIsPublished
<1>1. OutboundInv => TrackedIsPublished
  BY DEF OutboundInv, PublishedInv, TrackedIsPublished
<1> QED
  BY <1>1, OutboundInvCorrect, PTL
=============================================================================

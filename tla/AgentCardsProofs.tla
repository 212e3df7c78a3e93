-------------------------- MODULE AgentCardsProofs --------------------------
(***************************************************************************)
(* The registration of skills and the exchange of cards, for any nodes,    *)
(* registries, numbers of calls, exchanges, restarts and failures.         *)
(***************************************************************************)
EXTENDS AgentCards, SkillRegistration, TLAPS

-----------------------------------------------------------------------------
(* SkillRegistration.                                                      *)

\* A shutdown that found the goroutine through and the wire empty stays without a
\* request to register, so nothing lists the node again after its unregistration.
SettledInv ==
    /\ main = "up" => ~settled /\ \A r \in Registries : unregister[r] = "none"
    /\ settled =>
         /\ task = "done"
         /\ \A r \in Registries : /\ <<"register", r>> \notin wire
                                  /\ unregister[r] = "ok" => ~listed[r]

RegistrationInv == RegistrationTypeOK /\ SettledInv

LEMMA RegistrationInvInit ==
    RegistrationInit => RegistrationInv
<1> SUFFICES ASSUME RegistrationInit PROVE RegistrationInv
  OBVIOUS
<1>1. losses \in 0..MaxLoss
  BY ConstAssumption DEF RegistrationInit
<1>2. /\ listed \in [Providers -> BOOLEAN]
      /\ skills \in BOOLEAN /\ localSkills \in BOOLEAN /\ providing \in BOOLEAN /\ settled \in BOOLEAN
  BY DEF RegistrationInit
<1> QED
  BY <1>1, <1>2 DEF RegistrationInit, RegistrationInv, RegistrationTypeOK, SettledInv

LEMMA AnnouncedType ==
    ASSUME RegistrationInv, NEW ok \in BOOLEAN, NEW canceled \in BOOLEAN, Announced(ok, canceled)
    PROVE  /\ listed' \in [Providers -> BOOLEAN]
           /\ losses' \in 0..MaxLoss
           /\ \A r \in Registries : listed'[r] = listed[r]
<1>1. losses' \in 0..MaxLoss
  BY ConstAssumption DEF Announced, RegistrationInv, RegistrationTypeOK
<1>2. listed \in [Providers -> BOOLEAN] /\ Dht \in Providers /\ Registries \subseteq Providers \ {Dht}
  BY ConstAssumption DEF RegistrationInv, RegistrationTypeOK, Providers
<1>3. listed' = listed \/ listed' = [listed EXCEPT ![Dht] = TRUE]
  BY DEF Announced
<1> QED
  BY <1>1, <1>2, <1>3

LEMMA AnsweredType ==
    ASSUME NEW calls \in [Registries -> {"none", "sent", "ok", "error"}],
           NEW r \in Registries, NEW answer \in {"ok", "error"}
    PROVE  /\ Answered(calls, r, answer) \in [Registries -> {"none", "sent", "ok", "error"}]
           /\ Answered(calls, r, answer)[r] # "sent"
           /\ Answered(calls, r, answer)[r] = "ok" => calls[r] = "ok" \/ answer = "ok"
           /\ \A q \in Registries \ {r} : Answered(calls, r, answer)[q] = calls[q]
BY DEF Answered

\* The daemon's own steps, the registries' and the DHT's keep the types and the bounds.
LEMMA RegistrationTypeStep ==
    ASSUME RegistrationInv, [RegistrationNext]_registrationVars
    PROVE  RegistrationTypeOK'
<1> USE ConstAssumption DEF RegistrationInv, RegistrationTypeOK
<1>1. CASE CardGetsSkills
  BY <1>1 DEF CardGetsSkills
<1>2. CASE WakeUp
  BY <1>2 DEF WakeUp
<1>3. CASE RegistriesDone
  BY <1>3 DEF RegistriesDone
<1>4. CASE Reprovide
  BY <1>4 DEF Reprovide
<1>5. ASSUME NEW ok \in BOOLEAN, Provide(ok) \/ Reprovided(ok)
      PROVE  RegistrationTypeOK'
  <2>1. Announced(ok, main = "closing")
    BY <1>5 DEF Provide, Reprovided
  <2>2. listed' \in [Providers -> BOOLEAN] /\ losses' \in 0..MaxLoss
    BY <2>1, AnnouncedType
  <2> QED
    BY <1>5, <2>2 DEF Provide, Reprovided
<1>6. CASE Shutdown
  BY <1>6 DEF Shutdown
<1>7. CASE UnregisterDht
  BY <1>7 DEF UnregisterDht
<1>8. CASE Exit
  BY <1>8 DEF Exit
<1>9. ASSUME NEW r \in Registries, UnregisterTimeout(r) \/ RegisterCanceled(r)
      PROVE  RegistrationTypeOK'
  BY <1>9 DEF UnregisterTimeout, RegisterCanceled
<1>10. ASSUME NEW r \in Registries, NEW kind \in {"register", "unregister"},
              Apply(kind, r) \/ Fail(kind, r)
       PROVE  RegistrationTypeOK'
  <2>1. PICK answer \in {"ok", "error"} :
           /\ register' = IF kind = "register" THEN Answered(register, r, answer) ELSE register
           /\ unregister' = IF kind = "unregister" THEN Answered(unregister, r, answer)
                                                   ELSE unregister
    BY <1>10 DEF Apply, Fail
  <2>2. wire' = wire \ {<<kind, r>>}
    BY <1>10 DEF Apply, Fail
  <2>3. /\ register' \in [Registries -> {"none", "sent", "ok", "error"}]
        /\ unregister' \in [Registries -> {"none", "sent", "ok", "error"}]
    BY <2>1, AnsweredType
  <2>4. \A q \in Registries : /\ register'[q] = "sent" => <<"register", q>> \in wire'
                              /\ unregister'[q] = "sent" => <<"unregister", q>> \in wire'
    <3>1. CASE kind = "register"
      <4>1. /\ register'[r] # "sent" /\ unregister' = unregister
            /\ \A q \in Registries \ {r} : register'[q] = register[q]
        BY <3>1, <2>1, AnsweredType
      <4> QED
        BY <3>1, <4>1, <2>2
    <3>2. CASE kind = "unregister"
      <4>1. /\ unregister'[r] # "sent" /\ register' = register
            /\ \A q \in Registries \ {r} : unregister'[q] = unregister[q]
        BY <3>2, <2>1, AnsweredType
      <4> QED
        BY <3>2, <4>1, <2>2
    <3> QED
      BY <3>1, <3>2
  <2>5. losses' \in 0..MaxLoss
    BY <1>10 DEF Apply, Fail
  <2>6. listed' \in [Providers -> BOOLEAN]
    BY <1>10, (kind = "register") \in BOOLEAN DEF Apply, Fail, Providers
  <2> QED
    BY <1>10, <2>2, <2>3, <2>4, <2>5, <2>6 DEF Apply, Fail
<1>11. CASE Expire
  BY <1>11 DEF Expire, Providers
<1>12. CASE UNCHANGED registrationVars
  BY <1>12 DEF registrationVars
<1> QED
  BY <1>1, <1>2, <1>3, <1>4, <1>5, <1>6, <1>7, <1>8, <1>9, <1>10, <1>11, <1>12
  DEF RegistrationNext

LEMMA SettledInvStep ==
    ASSUME RegistrationInv, [RegistrationNext]_registrationVars
    PROVE  SettledInv'
<1> USE ConstAssumption DEF RegistrationInv, RegistrationTypeOK, SettledInv
<1>1. CASE CardGetsSkills
  BY <1>1 DEF CardGetsSkills
<1>2. CASE WakeUp
  BY <1>2 DEF WakeUp
<1>3. CASE RegistriesDone
  BY <1>3 DEF RegistriesDone
<1>4. CASE Reprovide
  BY <1>4 DEF Reprovide
<1>5. ASSUME NEW ok \in BOOLEAN, Provide(ok) \/ Reprovided(ok)
      PROVE  SettledInv'
  <2>1. Announced(ok, main = "closing")
    BY <1>5 DEF Provide, Reprovided
  <2>2. \A r \in Registries : listed'[r] = listed[r]
    BY <2>1, AnnouncedType
  <2> QED
    BY <1>5, <2>2 DEF Provide, Reprovided
<1>6. CASE Shutdown
  BY <1>6 DEF Shutdown
<1>7. CASE UnregisterDht
  BY <1>7 DEF UnregisterDht
<1>8. CASE Exit
  BY <1>8 DEF Exit
<1>9. ASSUME NEW r \in Registries, UnregisterTimeout(r) \/ RegisterCanceled(r)
      PROVE  SettledInv'
  BY <1>9 DEF UnregisterTimeout, RegisterCanceled
<1>10. ASSUME NEW r \in Registries, NEW kind \in {"register", "unregister"}, Apply(kind, r)
       PROVE  SettledInv'
  <2>1. \A q \in Registries :
           unregister'[q] = "ok" => unregister[q] = "ok" \/ (kind = "unregister" /\ q = r)
    BY <1>10, AnsweredType DEF Apply
  <2>2. \A q \in Registries : unregister[q] = "none" => unregister'[q] = "none"
    BY <1>10 DEF Apply, Answered
  <2> QED
    BY <1>10, <2>1, <2>2 DEF Apply, Providers
<1>11. ASSUME NEW r \in Registries, NEW kind \in {"register", "unregister"}, Fail(kind, r)
       PROVE  SettledInv'
  <2>1. \A q \in Registries : /\ unregister'[q] = "ok" => unregister[q] = "ok"
                              /\ unregister[q] = "none" => unregister'[q] = "none"
    BY <1>11 DEF Fail, Answered
  <2> QED
    BY <1>11, <2>1 DEF Fail
<1>12. CASE Expire
  BY <1>12 DEF Expire, Providers
<1>13. CASE UNCHANGED registrationVars
  BY <1>13 DEF registrationVars
<1> QED
  BY <1>1, <1>2, <1>3, <1>4, <1>5, <1>6, <1>7, <1>8, <1>9, <1>10, <1>11, <1>12, <1>13
  DEF RegistrationNext

\* The types of SkillRegistration and what holds after a settled shutdown are
\* invariants of the goroutine and the shutdown of main.go:608-652.
THEOREM RegistrationInvCorrect == RegistrationSpec => []RegistrationInv
<1>1. RegistrationInv /\ [RegistrationNext]_registrationVars => RegistrationInv'
  BY RegistrationTypeStep, SettledInvStep DEF RegistrationInv
<1> QED
  BY <1>1, RegistrationInvInit, PTL DEF RegistrationSpec

\* A call of the goroutine or of the shutdown waits only while its request is on the
\* wire, and the variables keep their types (composite_discovery.go, multi_registry.go).
THEOREM RegistrationTypeCorrect == RegistrationSpec => []RegistrationTypeOK
BY RegistrationInvCorrect, PTL DEF RegistrationInv

\* A daemon whose goroutine was through when the signal came is listed, once it is down,
\* by no registry that answered its unregistration, whatever else failed
\* (main.go:644-652).
THEOREM SettledExitIsCleanCorrect == RegistrationSpec => []SettledExitIsClean
<1>1. RegistrationInv => SettledExitIsClean
  BY DEF RegistrationInv, SettledInv, SettledExitIsClean
<1> QED
  BY <1>1, RegistrationInvCorrect, PTL

-----------------------------------------------------------------------------
(* AgentCards: what a step does to the exchanges.                          *)

Sides == {"idle", "ready", "waiting", "storing"}
Ends  == {"idle", "reading", "storing", "replying"}

\* Exchange s when its sides are at i and e and its reply is r.
Turn(s, i, e, r) ==
    Remaining([from |-> s.from, to |-> s.to, card |-> s.card, reply |-> r, ini |-> i, res |-> e])

LEMMA TurnFacts ==
    ASSUME NEW s \in Exchanges, NEW i \in Sides, NEW e \in Ends, NEW r \in Cards \cup {NoCard}
    PROVE  /\ Turn(s, i, e, r) \in {Empty} \cup Exchanges
           /\ Turn(s, i, e, r).ini = i /\ Turn(s, i, e, r).res = e
           /\ Turn(s, i, e, r) # Empty =>
                /\ Turn(s, i, e, r).from = s.from /\ Turn(s, i, e, r).to = s.to
                /\ Turn(s, i, e, r).card = s.card /\ Turn(s, i, e, r).reply = r
           /\ i # "idle" \/ e # "idle" => Turn(s, i, e, r) # Empty
BY DEF Turn, Remaining, Exchanges, Empty, Sides, Ends

LEMMA ExceptIsTurn ==
    ASSUME NEW s \in Exchanges, NEW i \in Sides, NEW e \in Ends, NEW r \in Cards \cup {NoCard}
    PROVE  /\ Remaining([s EXCEPT !.ini = i]) = Turn(s, i, s.res, s.reply)
           /\ Remaining([s EXCEPT !.res = e]) = Turn(s, s.ini, e, s.reply)
           /\ Remaining([s EXCEPT !.ini = i, !.res = e]) = Turn(s, i, e, s.reply)
           /\ Remaining([s EXCEPT !.res = e, !.reply = r]) = Turn(s, s.ini, e, r)
<1> DEFINE R(i0, e0, r0) == [from |-> s.from, to |-> s.to, card |-> s.card,
                             reply |-> r0, ini |-> i0, res |-> e0]
<1>1. [s EXCEPT !.ini = i] = R(i, s.res, s.reply)
  BY DEF Exchanges
<1>2. [s EXCEPT !.res = e] = R(s.ini, e, s.reply)
  BY DEF Exchanges
<1>3. [s EXCEPT !.ini = i, !.res = e] = R(i, e, s.reply)
  <2>1. [s EXCEPT !.ini = i, !.res = e] = [R(i, s.res, s.reply) EXCEPT !.res = e]
    BY <1>1
  <2> QED
    BY <2>1
<1>4. [s EXCEPT !.res = e, !.reply = r] = R(s.ini, e, r)
  <2>1. [s EXCEPT !.res = e, !.reply = r] = [R(s.ini, e, s.reply) EXCEPT !.reply = r]
    BY <1>2
  <2> QED
    BY <2>1
<1> QED
  BY <1>1, <1>2, <1>3, <1>4 DEF Turn

LEMMA KeptIsRemaining ==
    ASSUME NEW s, s.ini # "idle" \/ s.res # "idle"
    PROVE  Remaining(s) = s
BY DEF Remaining

LEMMA BusyIsExchange ==
    ASSUME TypeOK, NEW x \in Slots, slot[x].ini # "idle" \/ slot[x].res # "idle"
    PROVE  /\ slot[x] \in Exchanges /\ slot[x] # Empty
           /\ slot[x].from \in Nodes /\ slot[x].to \in Nodes /\ slot[x].from # slot[x].to
           /\ slot[x].card \in Cards /\ slot[x].reply \in Cards \cup {NoCard}
           /\ slot[x].ini \in Sides /\ slot[x].res \in Ends
<1>1. slot[x] # Empty
  BY DEF Empty
<1>2. slot[x] \in Exchanges
  BY <1>1 DEF TypeOK
<1> QED
  BY <1>1, <1>2 DEF TypeOK, Exchanges, Sides, Ends

\* Exchange x goes on with its sides at i and e and the reply r, the others stay.
Turned(x, i, e, r) == slot' = [slot EXCEPT ![x] = Turn(slot[x], i, e, r)]

LEMMA TurnedFacts ==
    ASSUME TypeOK, NEW x \in Slots, slot[x] \in Exchanges, slot[x] # Empty,
           NEW i \in Sides, NEW e \in Ends, NEW r \in Cards \cup {NoCard},
           Turned(x, i, e, r)
    PROVE  /\ slot' \in [Slots -> {Empty} \cup Exchanges]
           /\ \A y \in Slots \ {x} : slot'[y] = slot[y]
           /\ slot'[x].ini = i /\ slot'[x].res = e
           /\ i # "idle" \/ e # "idle" => slot'[x] # Empty
           /\ slot'[x] # Empty =>
                /\ slot'[x].from = slot[x].from /\ slot'[x].to = slot[x].to
                /\ slot'[x].card = slot[x].card /\ slot'[x].reply = r
           /\ \A y \in Slots : slot'[y] # Empty => slot'[y].from # slot'[y].to
<1>1. slot \in [Slots -> {Empty} \cup Exchanges]
  BY DEF TypeOK
<1>2. slot'[x] = Turn(slot[x], i, e, r)
  BY <1>1 DEF Turned
<1>3. \A y \in Slots \ {x} : slot'[y] = slot[y]
  BY <1>1 DEF Turned
<1>4. Turn(slot[x], i, e, r) \in {Empty} \cup Exchanges
  BY TurnFacts
<1>5. slot' \in [Slots -> {Empty} \cup Exchanges]
  BY <1>1, <1>4 DEF Turned
<1>6. /\ slot'[x].ini = i /\ slot'[x].res = e
      /\ i # "idle" \/ e # "idle" => slot'[x] # Empty
      /\ slot'[x] # Empty =>
           /\ slot'[x].from = slot[x].from /\ slot'[x].to = slot[x].to
           /\ slot'[x].card = slot[x].card /\ slot'[x].reply = r
  BY <1>2, TurnFacts
<1>7. \A y \in Slots : slot'[y] # Empty => slot'[y].from # slot'[y].to
  BY <1>3, <1>6 DEF TypeOK
<1> QED
  BY <1>3, <1>5, <1>6, <1>7

\* What each step of an exchange does to it.
LEMMA Turns ==
    ASSUME TypeOK, NEW x \in Slots
    PROVE  /\ WriteCard(x) => Turned(x, "waiting", "reading", slot[x].reply)
           /\ WriteFails(x) => Turned(x, "idle", slot[x].res, slot[x].reply)
           /\ ReadCard(x) => Turned(x, slot[x].ini, "storing", slot[x].reply)
           /\ ReadFails(x) => Turned(x, slot[x].ini, "idle", slot[x].reply)
           /\ \A put : StorePeerCard(x, put) => Turned(x, slot[x].ini, "replying", slot[x].reply)
           /\ \A sent : Reply(x, sent) =>
                 IF sent /\ slot[x].ini = "waiting"
                 THEN Turned(x, "waiting", "idle", card[slot[x].to])
                 ELSE Turned(x, slot[x].ini, "idle", slot[x].reply)
           /\ ReadReply(x) => Turned(x, "storing", slot[x].res, slot[x].reply)
           /\ NoReply(x) => Turned(x, "idle", slot[x].res, slot[x].reply)
           /\ \A put : StoreReply(x, put) => Turned(x, "idle", slot[x].res, slot[x].reply)
<1>1. slot \in [Slots -> {Empty} \cup Exchanges] /\ card \in [Nodes -> Cards \cup {NoCard}]
  BY DEF TypeOK
<1>2. WriteCard(x) => Turned(x, "waiting", "reading", slot[x].reply)
  <2> SUFFICES ASSUME WriteCard(x) PROVE Turned(x, "waiting", "reading", slot[x].reply)
    OBVIOUS
  <2>1. slot[x] \in Exchanges
    BY BusyIsExchange DEF WriteCard
  <2>2. slot' = [slot EXCEPT ![x] = [slot[x] EXCEPT !.ini = "waiting", !.res = "reading"]]
    BY <1>1, <2>1 DEF WriteCard, Exchanges
  <2>3. Remaining([slot[x] EXCEPT !.ini = "waiting", !.res = "reading"]) = Turn(slot[x], "waiting", "reading", slot[x].reply)
    BY <2>1, ExceptIsTurn DEF Sides, Ends
  <2>4. [slot[x] EXCEPT !.ini = "waiting", !.res = "reading"].res = "reading"
    BY <2>1 DEF Exchanges
  <2> QED
    BY <2>2, <2>3, <2>4, KeptIsRemaining DEF Turned
<1>3. WriteFails(x) => Turned(x, "idle", slot[x].res, slot[x].reply)
  BY BusyIsExchange, ExceptIsTurn DEF WriteFails, EndedIni, Turned, Sides, Ends
<1>4. ReadCard(x) => Turned(x, slot[x].ini, "storing", slot[x].reply)
  <2> SUFFICES ASSUME ReadCard(x) PROVE Turned(x, slot[x].ini, "storing", slot[x].reply)
    OBVIOUS
  <2>1. slot[x] \in Exchanges
    BY BusyIsExchange DEF ReadCard
  <2>2. slot' = [slot EXCEPT ![x] = [slot[x] EXCEPT !.res = "storing"]]
    BY <1>1, <2>1 DEF ReadCard, Exchanges
  <2>3. Remaining([slot[x] EXCEPT !.res = "storing"]) = Turn(slot[x], slot[x].ini, "storing", slot[x].reply)
    BY <2>1, ExceptIsTurn DEF Sides, Ends
  <2>4. [slot[x] EXCEPT !.res = "storing"].res = "storing"
    BY <2>1 DEF Exchanges
  <2> QED
    BY <2>2, <2>3, <2>4, KeptIsRemaining DEF Turned
<1>5. ReadFails(x) => Turned(x, slot[x].ini, "idle", slot[x].reply)
  BY BusyIsExchange, ExceptIsTurn DEF ReadFails, EndedRes, Turned, Sides, Ends
<1>6. ASSUME NEW put, StorePeerCard(x, put)
      PROVE  Turned(x, slot[x].ini, "replying", slot[x].reply)
  <2>1. slot[x] \in Exchanges
    BY <1>6, BusyIsExchange DEF StorePeerCard
  <2>2. slot' = [slot EXCEPT ![x] = [slot[x] EXCEPT !.res = "replying"]]
    BY <1>1, <1>6, <2>1 DEF StorePeerCard, Exchanges
  <2>3. Remaining([slot[x] EXCEPT !.res = "replying"]) = Turn(slot[x], slot[x].ini, "replying", slot[x].reply)
    BY <2>1, ExceptIsTurn DEF Sides, Ends
  <2>4. [slot[x] EXCEPT !.res = "replying"].res = "replying"
    BY <2>1 DEF Exchanges
  <2> QED
    BY <2>2, <2>3, <2>4, KeptIsRemaining DEF Turned
<1>7. ASSUME NEW sent, Reply(x, sent)
      PROVE  IF sent /\ slot[x].ini = "waiting"
             THEN Turned(x, "waiting", "idle", card[slot[x].to])
             ELSE Turned(x, slot[x].ini, "idle", slot[x].reply)
  <2>1. slot[x] \in Exchanges /\ card[slot[x].to] \in Cards \cup {NoCard}
    BY <1>1, <1>7, BusyIsExchange DEF Reply
  <2>2. CASE sent /\ slot[x].ini = "waiting"
    <3>1. slot' = [slot EXCEPT ![x] = [slot[x] EXCEPT !.res = "idle", !.reply = card[slot[x].to]]]
      BY <1>7, <2>2 DEF Reply
    <3>2. [slot[x] EXCEPT !.res = "idle", !.reply = card[slot[x].to]].ini = "waiting"
      BY <2>1, <2>2 DEF Exchanges
    <3>3. Remaining([slot[x] EXCEPT !.res = "idle", !.reply = card[slot[x].to]])
            = Turn(slot[x], "waiting", "idle", card[slot[x].to])
      <4>1. "waiting" \in Sides /\ "idle" \in Ends
        BY DEF Sides, Ends
      <4>2. Remaining([slot[x] EXCEPT !.res = "idle", !.reply = card[slot[x].to]])
              = Turn(slot[x], slot[x].ini, "idle", card[slot[x].to])
        BY <2>1, <4>1, ExceptIsTurn, Zenon
      <4> QED
        BY <2>2, <4>2
    <3> QED
      BY <2>2, <3>1, <3>2, <3>3, KeptIsRemaining DEF Turned
  <2>3. CASE ~(sent /\ slot[x].ini = "waiting")
    <3>1. slot' = [slot EXCEPT ![x] = EndedRes(x)]
      BY <1>7, <2>3 DEF Reply
    <3> QED
      BY <2>1, <2>3, <3>1, ExceptIsTurn DEF EndedRes, Turned, Sides, Ends
  <2> QED
    BY <2>2, <2>3
<1>8. ReadReply(x) => Turned(x, "storing", slot[x].res, slot[x].reply)
  <2> SUFFICES ASSUME ReadReply(x) PROVE Turned(x, "storing", slot[x].res, slot[x].reply)
    OBVIOUS
  <2>1. slot[x] \in Exchanges
    BY BusyIsExchange DEF ReadReply
  <2>2. slot' = [slot EXCEPT ![x] = [slot[x] EXCEPT !.ini = "storing"]]
    BY <1>1, <2>1 DEF ReadReply, Exchanges
  <2>3. Remaining([slot[x] EXCEPT !.ini = "storing"]) = Turn(slot[x], "storing", slot[x].res, slot[x].reply)
    BY <2>1, ExceptIsTurn DEF Sides, Ends
  <2>4. [slot[x] EXCEPT !.ini = "storing"].ini = "storing"
    BY <2>1 DEF Exchanges
  <2> QED
    BY <2>2, <2>3, <2>4, KeptIsRemaining DEF Turned
<1>9. NoReply(x) => Turned(x, "idle", slot[x].res, slot[x].reply)
  BY BusyIsExchange, ExceptIsTurn DEF NoReply, EndedIni, Turned, Sides, Ends
<1>10. ASSUME NEW put, StoreReply(x, put)
       PROVE  Turned(x, "idle", slot[x].res, slot[x].reply)
  BY <1>10, BusyIsExchange, ExceptIsTurn DEF StoreReply, EndedIni, Turned, Sides, Ends
<1> QED
  BY <1>2, <1>3, <1>4, <1>5, <1>6, <1>7, <1>8, <1>9, <1>10

LEMMA ExchangeFacts ==
    ASSUME NEW n \in Nodes, NEW m \in Nodes, NEW d \in Cards
    PROVE  /\ Exchange(n, m, d) \in Exchanges /\ Exchange(n, m, d) # Empty
           /\ Exchange(n, m, d).from = n /\ Exchange(n, m, d).to = m
           /\ Exchange(n, m, d).ini = "ready" /\ Exchange(n, m, d).res = "idle"
BY DEF Exchange, Exchanges, Empty

\* Exchanges of node n with the card d are opened in empty slots; the others stay.
Opened(n, d) ==
    /\ slot' \in [Slots -> {Empty} \cup Exchanges]
    /\ \A x \in Slots : slot[x] # Empty => slot'[x] = slot[x]
    /\ \A x \in Slots : slot[x] = Empty =>
          slot'[x] = Empty \/ \E m \in Nodes \ {n} : slot'[x] = Exchange(n, m, d)

LEMMA LinkedDiffer ==
    ASSUME TypeOK, NEW n, NEW m, {n, m} \in links
    PROVE  n # m /\ n \in Nodes /\ m \in Nodes
<1>1. PICK p \in Nodes \X Nodes : p[1] # p[2] /\ {n, m} = {p[1], p[2]}
  BY DEF TypeOK, Links, Pairs
<1>2. p[1] \in Nodes /\ p[2] \in Nodes
  BY <1>1
<1>3. n \in {p[1], p[2]} /\ m \in {p[1], p[2]} /\ p[1] \in {n, m} /\ p[2] \in {n, m}
  BY <1>1
<1> QED
  BY <1>1, <1>2, <1>3

LEMMA GreetOpens ==
    ASSUME TypeOK, NEW n, NEW m, Greet(n, m)
    PROVE  /\ n \in Nodes /\ m \in Nodes /\ n # m
           /\ Opened(n, card[n])
           /\ card[n] # NoCard =>
                card[n] \in Cards /\ \E x \in Slots : slot'[x] = Exchange(n, m, card[n])
<1>1. n \in Nodes /\ m \in Nodes /\ n # m
  BY DEF Greet, TypeOK, Pairs
<1>2. slot \in [Slots -> {Empty} \cup Exchanges] /\ card \in [Nodes -> Cards \cup {NoCard}]
  BY DEF TypeOK
<1>3. CASE card[n] = NoCard
  BY <1>1, <1>2, <1>3 DEF Greet, Opened
<1>4. CASE card[n] # NoCard
  <2>1. PICK x \in Free : slot' = [slot EXCEPT ![x] = Exchange(n, m, card[n])]
    BY <1>4 DEF Greet
  <2>2. x \in Slots /\ slot[x] = Empty
    BY <2>1 DEF Free
  <2>3. card[n] \in Cards /\ Exchange(n, m, card[n]) \in Exchanges
    BY <1>1, <1>2, <1>4, ExchangeFacts
  <2> QED
    BY <1>1, <1>2, <2>1, <2>2, <2>3 DEF Opened
<1> QED
  BY <1>1, <1>3, <1>4

LEMMA CallFacts ==
    ASSUME TypeOK, NEW c \in Calls, call[c] # IdleCall
    PROVE  call[c].phase \in {"set", "stored"} /\ call[c].node \in Nodes /\ call[c].card \in Cards
BY DEF TypeOK

LEMMA PushOpens ==
    ASSUME TypeOK, NEW c \in Calls, call[c] # IdleCall, Push(c)
    PROVE  /\ call[c].node \in Nodes /\ call[c].card \in Cards
           /\ Opened(call[c].node, call[c].card)
           /\ \A m \in Neighbours(call[c].node) :
                 \E x \in Slots : slot'[x] = Exchange(call[c].node, m, call[c].card)
<1> DEFINE n == call[c].node
           d == call[c].card
<1>1. n \in Nodes /\ d \in Cards
  BY CallFacts
<1> HIDE DEF n, d
<1>2. slot \in [Slots -> {Empty} \cup Exchanges]
  BY DEF TypeOK
<1>3. PICK f \in [Neighbours(n) -> Free] :
         /\ \A m1, m2 \in Neighbours(n) : f[m1] = f[m2] => m1 = m2
         /\ slot' = [x \in Slots |->
                IF \E m \in Neighbours(n) : f[m] = x
                THEN Exchange(n, CHOOSE m \in Neighbours(n) : f[m] = x, d)
                ELSE slot[x]]
  BY DEF Push, n, d
<1>4. \A m \in Neighbours(n) : m \in Nodes \ {n}
  BY LinkedDiffer DEF Neighbours
<1>5. \A m \in Neighbours(n) : f[m] \in Slots /\ slot[f[m]] = Empty
  BY <1>3 DEF Free
<1>6. \A m \in Neighbours(n) : (CHOOSE m1 \in Neighbours(n) : f[m1] = f[m]) = m
  BY <1>3
<1>7. \A m \in Neighbours(n) : slot'[f[m]] = Exchange(n, m, d)
  BY <1>3, <1>5, <1>6
<1>8. \A x \in Slots : (\E m \in Neighbours(n) : x = f[m]) \/ slot'[x] = slot[x]
  BY <1>3
<1>9. \A x \in Slots : slot'[x] \in {Empty} \cup Exchanges
  BY <1>1, <1>2, <1>4, <1>7, <1>8, ExchangeFacts
<1>10. slot' \in [Slots -> {Empty} \cup Exchanges]
  BY <1>3, <1>9
<1>11. Opened(n, d)
  BY <1>4, <1>5, <1>7, <1>8, <1>10 DEF Opened
<1> QED
  BY <1>1, <1>5, <1>7, <1>11 DEF n, d

LEMMA StopSlots ==
    ASSUME TypeOK, NEW n \in Nodes, Stop(n)
    PROVE  /\ slot' \in [Slots -> {Empty} \cup Exchanges]
           /\ \A x \in Slots : slot'[x] # Empty =>
                /\ slot[x] # Empty
                /\ slot'[x].from = slot[x].from /\ slot'[x].to = slot[x].to
                /\ slot'[x].card = slot[x].card /\ slot'[x].reply = slot[x].reply
           /\ \A x \in Slots : slot[x] # Empty =>
                /\ slot'[x].ini = IF slot[x].from = n THEN "idle" ELSE slot[x].ini
                /\ slot'[x].res = IF slot[x].to = n THEN "idle" ELSE slot[x].res
                /\ slot'[x].ini # "idle" \/ slot'[x].res # "idle" => slot'[x] # Empty
<1> DEFINE I(x) == IF slot[x].from = n THEN "idle" ELSE slot[x].ini
           E(x) == IF slot[x].to = n THEN "idle" ELSE slot[x].res
<1>1. \A x \in Slots : slot[x] = Empty => slot'[x] = Empty
  BY DEF Stop, Without
<1>2. ASSUME NEW x \in Slots, slot[x] # Empty
      PROVE  /\ slot[x] \in Exchanges /\ I(x) \in Sides /\ E(x) \in Ends
             /\ slot[x].reply \in Cards \cup {NoCard}
             /\ slot'[x] = Turn(slot[x], I(x), E(x), slot[x].reply)
  <2>1. /\ slot[x] \in Exchanges /\ I(x) \in Sides /\ E(x) \in Ends
        /\ slot[x].reply \in Cards \cup {NoCard}
    BY <1>2 DEF TypeOK, Exchanges, Sides, Ends
  <2>2. slot'[x] = Remaining([slot[x] EXCEPT !.ini = I(x), !.res = E(x)])
    BY <1>2 DEF Stop, Without
  <2> QED
    <3> HIDE DEF I, E
    <3>1. Remaining([slot[x] EXCEPT !.ini = I(x), !.res = E(x)])
            = Turn(slot[x], I(x), E(x), slot[x].reply)
      BY <2>1, ExceptIsTurn, Zenon
    <3> QED
      BY <2>1, <2>2, <3>1
<1> HIDE DEF I, E
<1>3. \A x \in Slots : slot'[x] \in {Empty} \cup Exchanges
  BY <1>1, <1>2, TurnFacts
<1>4. slot' \in [Slots -> {Empty} \cup Exchanges]
  BY <1>3 DEF Stop
<1>5. ASSUME NEW x \in Slots, slot[x] # Empty
      PROVE  /\ slot'[x].ini = I(x) /\ slot'[x].res = E(x)
             /\ I(x) # "idle" \/ E(x) # "idle" => slot'[x] # Empty
             /\ slot'[x] # Empty =>
                  /\ slot'[x].from = slot[x].from /\ slot'[x].to = slot[x].to
                  /\ slot'[x].card = slot[x].card /\ slot'[x].reply = slot[x].reply
  BY <1>2, <1>5, TurnFacts
<1> QED
  BY <1>1, <1>4, <1>5 DEF I, E

-----------------------------------------------------------------------------
(* AgentCards: the types.                                                  *)

CardOrNone == Cards \cup {NoCard}

LEMMA OpenedDiffer ==
    ASSUME TypeOK, NEW n \in Nodes, NEW d \in Cards, Opened(n, d)
    PROVE  \A x \in Slots : slot'[x] # Empty => slot'[x].from # slot'[x].to
<1> SUFFICES ASSUME NEW x \in Slots, slot'[x] # Empty
             PROVE  slot'[x].from # slot'[x].to
  OBVIOUS
<1>1. CASE slot[x] # Empty
  BY <1>1 DEF Opened, TypeOK
<1>2. CASE slot[x] = Empty
  <2>1. PICK m \in Nodes \ {n} : slot'[x] = Exchange(n, m, d)
    BY <1>2 DEF Opened
  <2> QED
    BY <2>1, ExchangeFacts
<1> QED
  BY <1>1, <1>2

LEMMA SetPeerCardFacts ==
    ASSUME TypeOK, NEW n \in Nodes, NEW m \in Nodes, n # m, NEW d \in Cards, SetPeerCard(n, m, d)
    PROVE  /\ peerCard' \in [Nodes -> [Nodes -> CardOrNone]]
           /\ \A k \in Nodes : peerCard'[k][k] = NoCard
           /\ peerCard'[n][m] = d
           /\ \A k, l \in Nodes : k # n \/ l # m => peerCard'[k][l] = peerCard[k][l]
BY DEF TypeOK, SetPeerCard, CardOrNone

LEMMA StoreFacts ==
    ASSUME TypeOK, NEW n \in Nodes, NEW m \in Nodes, n # m, NEW d \in CardOrNone,
           NEW put \in BOOLEAN, Store(n, m, d, put)
    PROVE  /\ peerDisk' \in [Nodes -> [Nodes -> CardOrNone]]
           /\ \A k \in Nodes : peerDisk'[k][k] = NoCard
           /\ n \in putFailed' \/ peerDisk'[n][m] = d
           /\ \A k, l \in Nodes : k # n \/ l # m => peerDisk'[k][l] = peerDisk[k][l]
           /\ putFailed \subseteq putFailed'
BY DEF TypeOK, Store, CardOrNone

LEMMA ProxyCardFacts ==
    ASSUME TypeOK, NEW n \in Nodes, NEW put \in BOOLEAN, RegisterProxySkill(n, put)
    PROVE  \E new \in Cards :
              /\ card' = [card EXCEPT ![n] = new]
              /\ overlap' = [overlap EXCEPT ![n] = {new}]
              /\ selfDisk' = IF put THEN [selfDisk EXCEPT ![n] = new] ELSE selfDisk
              /\ new.rev > 0 => card[n] # NoCard /\ card[n].rev > 0
              /\ unlisted' \in [Nodes -> Seq(AllTools)]
<1> DEFINE base == IF card[n] = NoCard THEN [rev |-> 0, skills |-> <<>>] ELSE card[n]
           new  == [base EXCEPT !.skills = Append(@, Head(unlisted[n]))]
<1>1. unlisted \in [Nodes -> Seq(AllTools)] /\ unlisted[n] # <<>>
  BY DEF TypeOK, RegisterProxySkill
<1>2. Head(unlisted[n]) \in AllTools /\ Tail(unlisted[n]) \in Seq(AllTools)
  BY <1>1
<1>3. base \in Cards
  BY DEF TypeOK, Cards
<1>4. new \in Cards /\ new.rev = base.rev
  <2> HIDE DEF base
  <2>1. base.skills \in Seq(AllTools)
    BY <1>3 DEF Cards
  <2>2. Append(base.skills, Head(unlisted[n])) \in Seq(AllTools)
    BY <1>2, <2>1
  <2> QED
    BY <1>3, <2>2 DEF Cards
<1>5. base.rev > 0 => card[n] # NoCard /\ card[n].rev > 0
  OBVIOUS
<1>6. /\ card' = [card EXCEPT ![n] = new]
      /\ overlap' = [overlap EXCEPT ![n] = {new}]
      /\ selfDisk' = IF put THEN [selfDisk EXCEPT ![n] = new] ELSE selfDisk
      /\ unlisted' = [unlisted EXCEPT ![n] = Tail(@)]
  BY DEF RegisterProxySkill
<1> HIDE DEF base, new
<1> QED
  BY <1>1, <1>2, <1>4, <1>5, <1>6

LEMMA SetAgentCardFacts ==
    ASSUME TypeOK, NEW c \in Calls, NEW n \in Nodes, SetAgentCard(c, n)
    PROVE  \E new \in Cards :
              /\ card' = [card EXCEPT ![n] = new]
              /\ call' = [call EXCEPT ![c] = [phase |-> "set", node |-> n, card |-> new]]
              /\ overlap' = [overlap EXCEPT ![n] = IF Persisting(n) = {} THEN {new} ELSE @ \cup {new}]
<1>1. [rev |-> rev[n] + 1, skills |-> <<>>] \in Cards
  BY DEF TypeOK, Cards
<1> QED
  BY <1>1 DEF SetAgentCard

LEMMA SetSelfCardFacts ==
    ASSUME TypeOK, NEW c \in Calls, NEW put \in BOOLEAN, call[c] # IdleCall, SetSelfCard(c, put)
    PROVE  call' = [call EXCEPT ![c] = [phase |-> "stored", node |-> call[c].node,
                                        card |-> call[c].card]]
<1>1. call[c] \in [phase : {"set", "stored"}, node : Nodes, card : Cards]
  BY DEF TypeOK
<1>2. call' = [call EXCEPT ![c] = [call[c] EXCEPT !.phase = "stored"]]
  BY <1>1 DEF SetSelfCard, TypeOK
<1>3. [call[c] EXCEPT !.phase = "stored"]
        = [phase |-> "stored", node |-> call[c].node, card |-> call[c].card]
  BY <1>1
<1> QED
  BY <1>2, <1>3

LEMMA TypeInit == Init => TypeOK
<1> SUFFICES ASSUME Init PROVE TypeOK
  OBVIOUS
<1>1. <<>> \in Seq(AllTools)
  OBVIOUS
<1> QED
  BY <1>1, BoundsAssumption DEF Init, TypeOK

\* One step of an exchange leaves the types in place.
LEMMA TurnedType ==
    ASSUME TypeOK, NEW x \in Slots, slot[x].ini # "idle" \/ slot[x].res # "idle",
           NEW i \in Sides, NEW e \in Ends, NEW r \in CardOrNone, Turned(x, i, e, r)
    PROVE  /\ slot' \in [Slots -> {Empty} \cup Exchanges]
           /\ \A y \in Slots : slot'[y] # Empty => slot'[y].from # slot'[y].to
<1>1. slot[x] \in Exchanges /\ slot[x] # Empty
  BY BusyIsExchange
<1> QED
  BY <1>1, TurnedFacts DEF CardOrNone

\* A step of exchange x; b tells whether a write or a reply succeeds.
ExchangeStep(x, b) ==
    \/ WriteCard(x) \/ WriteFails(x) \/ ReadCard(x) \/ ReadFails(x)
    \/ StorePeerCard(x, b) \/ StoreReply(x, b) \/ Reply(x, b)
    \/ ReadReply(x) \/ NoReply(x)

LEMMA ExchangeTypeStep ==
    ASSUME TypeOK, NEW x \in Slots, NEW b \in BOOLEAN, ExchangeStep(x, b)
    PROVE  TypeOK'
<1>1. slot[x].ini # "idle" \/ slot[x].res # "idle"
  BY DEF ExchangeStep, WriteCard, WriteFails, ReadCard, ReadFails, StorePeerCard, StoreReply, Reply,
         ReadReply, NoReply
<1>2. /\ slot[x].from \in Nodes /\ slot[x].to \in Nodes /\ slot[x].from # slot[x].to
      /\ slot[x].card \in Cards /\ slot[x].reply \in CardOrNone
      /\ slot[x].ini \in Sides /\ slot[x].res \in Ends /\ card[slot[x].to] \in CardOrNone
  BY <1>1, BusyIsExchange DEF TypeOK, CardOrNone
<1>3. PICK i \in Sides, e \in Ends, r \in CardOrNone : Turned(x, i, e, r)
  BY <1>2, Turns DEF ExchangeStep, Sides, Ends
<1>4. /\ slot' \in [Slots -> {Empty} \cup Exchanges]
      /\ \A y \in Slots : slot'[y] # Empty => slot'[y].from # slot'[y].to
  BY <1>1, <1>3, TurnedType
<1>5. /\ peerCard' \in [Nodes -> [Nodes -> CardOrNone]]
      /\ \A n \in Nodes : peerCard'[n][n] = NoCard
  <2>1. CASE ReadCard(x) \/ ReadReply(x)
    BY <2>1, <1>2, SetPeerCardFacts DEF ReadCard, ReadReply, CardOrNone
  <2>2. CASE peerCard' = peerCard
    BY <2>2 DEF TypeOK, CardOrNone
  <2> QED
    BY <2>1, <2>2
    DEF ExchangeStep, WriteCard, WriteFails, ReadFails, StorePeerCard, StoreReply, Reply, NoReply
<1>6. /\ peerDisk' \in [Nodes -> [Nodes -> CardOrNone]]
      /\ \A n \in Nodes : peerDisk'[n][n] = NoCard
  <2>1. CASE StorePeerCard(x, b)
    BY <2>1, <1>2, StoreFacts DEF StorePeerCard, CardOrNone
  <2>2. CASE StoreReply(x, b)
    BY <2>2, <1>2, StoreFacts DEF StoreReply
  <2>3. CASE peerDisk' = peerDisk
    BY <2>3 DEF TypeOK, CardOrNone
  <2> QED
    BY <2>1, <2>2, <2>3
    DEF ExchangeStep, WriteCard, WriteFails, ReadCard, ReadFails, Reply, ReadReply, NoReply
<1>7. lost' \subseteq Pairs
  <2>1. <<slot[x].from, slot[x].to>> \in Pairs
    BY <1>2 DEF Pairs
  <2> QED
    BY <2>1
    DEF ExchangeStep, TypeOK, Failed, WriteCard, WriteFails, ReadCard, ReadFails, StorePeerCard, StoreReply,
        Reply, ReadReply, NoReply
<1>8. UNCHANGED <<boot, boots, unlisted, card, rev, selfDisk, call, links, greet, early>>
  BY DEF ExchangeStep, WriteCard, WriteFails, ReadCard, ReadFails, StorePeerCard, StoreReply, Reply,
         ReadReply, NoReply
<1> QED
  BY <1>4, <1>5, <1>6, <1>7, <1>8 DEF TypeOK, CardOrNone

LEMMA TypeStep ==
    ASSUME TypeOK, [Next]_vars
    PROVE  TypeOK'
<1>1. ASSUME NEW n \in Nodes, NEW ok \in BOOLEAN, Start(n, ok)
      PROVE  TypeOK'
  <2>1. RecoverCards(n, ok) \in [Nodes -> CardOrNone] /\ RecoverCards(n, ok)[n] = NoCard
    BY DEF RecoverCards, TypeOK, CardOrNone
  <2>2. boots'[n] \in Nat /\ boots'[n] <= MaxBoots[n]
    <3>1. boots \in [Nodes -> Nat] /\ MaxBoots[n] \in Nat
      BY BoundsAssumption DEF TypeOK
    <3>2. boots'[n] = boots[n] + 1 /\ boots[n] < MaxBoots[n]
      BY <1>1, <3>1 DEF Start
    <3> QED
      BY <3>1, <3>2
  <2> QED
    BY <1>1, <2>1, <2>2 DEF Start, TypeOK, GetSelfCard, CardOrNone
<1>2. ASSUME NEW n \in Nodes, Wire(n)
      PROVE  TypeOK'
  BY <1>2, CardAssumption DEF Wire, TypeOK
<1>3. ASSUME NEW n \in Nodes, NEW put \in BOOLEAN, RegisterProxySkill(n, put)
      PROVE  TypeOK'
  <2>1. PICK new \in Cards :
              /\ card' = [card EXCEPT ![n] = new]
              /\ overlap' = [overlap EXCEPT ![n] = {new}]
              /\ selfDisk' = IF put THEN [selfDisk EXCEPT ![n] = new] ELSE selfDisk
              /\ unlisted' \in [Nodes -> Seq(AllTools)]
    BY <1>3, ProxyCardFacts
  <2>2. UNCHANGED <<boot, boots, rev, peerCard, peerDisk, call, links, greet, slot, early, lost>>
    BY <1>3 DEF RegisterProxySkill
  <2> QED
    BY <2>1, <2>2 DEF TypeOK
<1>4. ASSUME NEW n \in Nodes, Serve(n)
      PROVE  TypeOK'
  BY <1>4 DEF Serve, TypeOK
<1>5. ASSUME NEW n \in Nodes, Stop(n)
      PROVE  TypeOK'
  <2>1. slot' \in [Slots -> {Empty} \cup Exchanges]
    BY <1>5, StopSlots
  <2>2. \A x \in Slots : slot'[x] # Empty => slot'[x].from # slot'[x].to
    BY <1>5, StopSlots DEF TypeOK
  <2>3. call' \in [Calls -> {IdleCall} \cup [phase : {"set", "stored"}, node : Nodes, card : Cards]]
    BY <1>5 DEF Stop, TypeOK
  <2>4. /\ links' \subseteq Links /\ early' \subseteq links'
        /\ greet' \subseteq Pairs /\ lost' \subseteq Pairs
    BY <1>5 DEF Stop, TypeOK
  <2>5. <<>> \in Seq(AllTools)
    OBVIOUS
  <2>6. /\ boot' \in [Nodes -> {"down", "early", "wired", "serving"}]
        /\ unlisted' \in [Nodes -> Seq(AllTools)]
        /\ card' \in [Nodes -> CardOrNone]
        /\ peerCard' \in [Nodes -> [Nodes -> CardOrNone]]
        /\ \A k \in Nodes : peerCard'[k][k] = NoCard
    BY <1>5, <2>5 DEF Stop, TypeOK, CardOrNone
  <2>7. UNCHANGED <<boots, rev, selfDisk, peerDisk>>
    BY <1>5 DEF Stop
  <2> QED
    BY <2>1, <2>2, <2>3, <2>4, <2>6, <2>7 DEF TypeOK, CardOrNone
<1>6. ASSUME NEW c \in Calls, NEW n \in Nodes, SetAgentCard(c, n)
      PROVE  TypeOK'
  <2>1. PICK new \in Cards :
              /\ card' = [card EXCEPT ![n] = new]
              /\ call' = [call EXCEPT ![c] = [phase |-> "set", node |-> n, card |-> new]]
    BY <1>6, SetAgentCardFacts
  <2>2. rev' \in [Nodes -> Nat] /\ \A k \in Nodes : rev'[k] <= MaxRev[k]
    <3>1. rev \in [Nodes -> Nat] /\ MaxRev \in [Nodes -> Nat] /\ \A k \in Nodes : rev[k] <= MaxRev[k]
      BY BoundsAssumption DEF TypeOK
    <3>2. rev' = [rev EXCEPT ![n] = @ + 1] /\ rev[n] < MaxRev[n]
      BY <1>6 DEF SetAgentCard
    <3>3. rev[n] + 1 \in Nat /\ rev[n] + 1 <= MaxRev[n]
      BY <3>1, <3>2
    <3> QED
      BY <3>1, <3>2, <3>3
  <2>3. UNCHANGED <<boot, boots, unlisted, selfDisk, peerCard, peerDisk, links, greet, slot,
                    early, lost>>
    BY <1>6 DEF SetAgentCard
  <2> QED
    BY <2>1, <2>2, <2>3 DEF TypeOK
<1>7. ASSUME NEW p \in Pairs, Connect(p[1], p[2])
      PROVE  TypeOK'
  <2>1. {p[1], p[2]} \in Links
    BY DEF Links
  <2>2. <<p[1], p[2]>> \in Pairs /\ <<p[2], p[1]>> \in Pairs
    BY DEF Pairs
  <2> QED
    BY <1>7, <2>1, <2>2 DEF Connect, TypeOK
<1>8. ASSUME NEW p \in Pairs, Disconnect(p[1], p[2])
      PROVE  TypeOK'
  BY <1>8 DEF Disconnect, TypeOK
<1>9. ASSUME NEW p \in Pairs, ConnectPeer(p[1], p[2])
      PROVE  TypeOK'
  <2>1. <<p[1], p[2]>> \in Pairs
    BY DEF Pairs
  <2> QED
    BY <1>9, <2>1 DEF ConnectPeer, TypeOK
<1>10. ASSUME NEW p \in Pairs, Greet(p[1], p[2])
       PROVE  TypeOK'
  <2>1. p[1] \in Nodes /\ card[p[1]] \in CardOrNone
    BY <1>10, GreetOpens DEF TypeOK, CardOrNone
  <2>2. /\ slot' \in [Slots -> {Empty} \cup Exchanges]
        /\ \A x \in Slots : slot'[x] # Empty => slot'[x].from # slot'[x].to
    <3>1. CASE card[p[1]] = NoCard
      BY <1>10, <3>1 DEF Greet, TypeOK
    <3>2. CASE card[p[1]] # NoCard
      <4>1. Opened(p[1], card[p[1]]) /\ card[p[1]] \in Cards
        BY <1>10, <3>2, GreetOpens
      <4> QED
        BY <2>1, <4>1, OpenedDiffer DEF Opened
    <3> QED
      BY <3>1, <3>2
  <2> QED
    BY <1>10, <2>2 DEF Greet, TypeOK
<1>11. ASSUME NEW c \in Calls, NEW put \in BOOLEAN, call[c] # IdleCall, SetSelfCard(c, put)
       PROVE  TypeOK'
  <2>1. call[c].node \in Nodes /\ call[c].card \in Cards
    BY <1>11, CallFacts
  <2>2. call' = [call EXCEPT ![c] = [phase |-> "stored", node |-> call[c].node,
                                     card |-> call[c].card]]
    BY <1>11, SetSelfCardFacts
  <2>3. call' \in [Calls -> {IdleCall} \cup [phase : {"set", "stored"}, node : Nodes, card : Cards]]
    BY <2>1, <2>2 DEF TypeOK
  <2>4. selfDisk' \in [Nodes -> CardOrNone]
    BY <1>11, <2>1 DEF SetSelfCard, TypeOK, CardOrNone
  <2> QED
    BY <1>11, <2>3, <2>4 DEF SetSelfCard, TypeOK, CardOrNone
<1>12. ASSUME NEW c \in Calls, call[c] # IdleCall, Push(c)
       PROVE  TypeOK'
  <2>1. /\ slot' \in [Slots -> {Empty} \cup Exchanges]
        /\ \A x \in Slots : slot'[x] # Empty => slot'[x].from # slot'[x].to
    BY <1>12, PushOpens, OpenedDiffer DEF Opened
  <2> QED
    BY <1>12, <2>1 DEF Push, TypeOK
<1>13. ASSUME NEW x \in Slots, NEW b \in BOOLEAN, ExchangeStep(x, b)
       PROVE  TypeOK'
  BY <1>13, ExchangeTypeStep
<1>14. CASE UNCHANGED vars
  BY <1>14 DEF vars, TypeOK
<1> QED
  BY <1>1, <1>2, <1>3, <1>4, <1>5, <1>6, <1>7, <1>8, <1>9, <1>10, <1>11, <1>12, <1>13, <1>14
  DEF Next, ExchangeStep

\* The cards in memory, in the store and on their way keep their types: a node files no
\* card under its own name, and an exchange has two different ends and a card to write.
THEOREM TypeCorrect == Spec => []TypeOK
BY TypeInit, TypeStep, PTL DEF Spec

-----------------------------------------------------------------------------
(* AgentCards: a node that is down takes part in nothing.                  *)

LEMMA ExchangeStepFacts ==
    ASSUME TypeOK, NEW x \in Slots, NEW b \in BOOLEAN, ExchangeStep(x, b)
    PROVE  /\ slot[x] \in Exchanges /\ slot[x] # Empty
           /\ slot[x].from \in Nodes /\ slot[x].to \in Nodes /\ slot[x].from # slot[x].to
           /\ \A y \in Slots \ {x} : slot'[y] = slot[y]
           /\ slot'[x] # Empty =>
                /\ slot'[x].from = slot[x].from /\ slot'[x].to = slot[x].to
                /\ slot'[x].card = slot[x].card
           /\ slot[x].ini = "idle" => slot'[x].ini = "idle"
           /\ slot[x].res = "idle" => slot'[x].res = "idle" \/ Wired(slot[x].to)
           /\ UNCHANGED <<boot, boots, unlisted, card, rev, selfDisk, call, links, greet, early>>
<1>1. slot[x].ini # "idle" \/ slot[x].res # "idle"
  BY DEF ExchangeStep, WriteCard, WriteFails, ReadCard, ReadFails, StorePeerCard, StoreReply,
         Reply, ReadReply, NoReply
<1>2. /\ slot[x] \in Exchanges /\ slot[x] # Empty
      /\ slot[x].from \in Nodes /\ slot[x].to \in Nodes /\ slot[x].from # slot[x].to
      /\ slot[x].reply \in Cards \cup {NoCard}
      /\ slot[x].ini \in Sides /\ slot[x].res \in Ends
      /\ card[slot[x].to] \in Cards \cup {NoCard}
  BY <1>1, BusyIsExchange DEF TypeOK
<1>3. PICK i \in Sides, e \in Ends, r \in Cards \cup {NoCard} :
         /\ Turned(x, i, e, r)
         /\ slot[x].ini = "idle" => i = "idle"
         /\ slot[x].res = "idle" => e = "idle" \/ Wired(slot[x].to)
  <2> USE <1>2 DEF Sides, Ends
  <2>1. CASE WriteCard(x)
    BY <2>1, Turns DEF WriteCard
  <2>2. CASE WriteFails(x)
    BY <2>2, Turns DEF WriteFails
  <2>3. CASE ReadCard(x)
    BY <2>3, Turns DEF ReadCard
  <2>4. CASE ReadFails(x)
    BY <2>4, Turns DEF ReadFails
  <2>5. CASE StorePeerCard(x, b)
    BY <2>5, Turns DEF StorePeerCard
  <2>6. CASE StoreReply(x, b)
    BY <2>6, Turns DEF StoreReply
  <2>7. CASE Reply(x, b)
    BY <2>7, Turns DEF Reply
  <2>8. CASE ReadReply(x)
    BY <2>8, Turns DEF ReadReply
  <2>9. CASE NoReply(x)
    BY <2>9, Turns DEF NoReply
  <2> QED
    BY <2>1, <2>2, <2>3, <2>4, <2>5, <2>6, <2>7, <2>8, <2>9 DEF ExchangeStep
<1>4. UNCHANGED <<boot, boots, unlisted, card, rev, selfDisk, call, links, greet, early>>
  BY DEF ExchangeStep, WriteCard, WriteFails, ReadCard, ReadFails, StorePeerCard, StoreReply,
         Reply, ReadReply, NoReply
<1> QED
  BY <1>2, <1>3, <1>4, TurnedFacts

\* A node that is down has no card, no connection, no callback and no side of an
\* exchange, and only a node that serves has a SetAgentCard call under way.
DownInv ==
    \A n \in Nodes : boot[n] = "down" =>
        /\ card[n] = NoCard
        /\ \A l \in links : n \notin l
        /\ \A g \in greet : g[1] # n
        /\ \A x \in Slots : slot[x] # Empty =>
              /\ slot[x].from = n => slot[x].ini = "idle"
              /\ slot[x].to = n => slot[x].res = "idle"
CallInv == \A c \in Calls : call[c] # IdleCall => boot[call[c].node] = "serving"

RunInv == TypeOK /\ DownInv /\ CallInv

LEMMA OpenedRunInv ==
    ASSUME RunInv, NEW n \in Nodes, boot[n] # "down", NEW d \in Cards, Opened(n, d)
    PROVE  \A k \in Nodes, x \in Slots : boot[k] = "down" /\ slot'[x] # Empty =>
              /\ slot'[x].from = k => slot'[x].ini = "idle"
              /\ slot'[x].to = k => slot'[x].res = "idle"
<1> SUFFICES ASSUME NEW k \in Nodes, NEW x \in Slots, boot[k] = "down", slot'[x] # Empty
             PROVE  /\ slot'[x].from = k => slot'[x].ini = "idle"
                    /\ slot'[x].to = k => slot'[x].res = "idle"
  OBVIOUS
<1>1. CASE slot[x] # Empty
  BY <1>1 DEF Opened, RunInv, DownInv
<1>2. CASE slot[x] = Empty
  <2>1. PICK m \in Nodes \ {n} : slot'[x] = Exchange(n, m, d)
    BY <1>2 DEF Opened
  <2> QED
    BY <2>1, ExchangeFacts
<1> QED
  BY <1>1, <1>2

LEMMA DownStep ==
    ASSUME RunInv, [Next]_vars
    PROVE  DownInv'
<1> USE DEF RunInv
<1>1. ASSUME NEW n \in Nodes, NEW ok \in BOOLEAN, Start(n, ok)
      PROVE  DownInv'
  BY <1>1 DEF Start, TypeOK, DownInv
<1>2. ASSUME NEW n \in Nodes, Wire(n)
      PROVE  DownInv'
  BY <1>2 DEF Wire, TypeOK, DownInv
<1>3. ASSUME NEW n \in Nodes, NEW put \in BOOLEAN, RegisterProxySkill(n, put)
      PROVE  DownInv'
  <2>1. PICK new \in Cards : card' = [card EXCEPT ![n] = new]
    BY <1>3, ProxyCardFacts
  <2> QED
    BY <1>3, <2>1 DEF RegisterProxySkill, TypeOK, DownInv
<1>4. ASSUME NEW n \in Nodes, Serve(n)
      PROVE  DownInv'
  BY <1>4 DEF Serve, TypeOK, DownInv
<1>5. ASSUME NEW n \in Nodes, Stop(n)
      PROVE  DownInv'
  <2>1. \A k \in Nodes : boot'[k] = "down" => k = n \/ boot[k] = "down"
    BY <1>5 DEF Stop, TypeOK
  <2>2. ASSUME NEW k \in Nodes, k = n \/ boot[k] = "down", NEW x \in Slots, slot'[x] # Empty
        PROVE  /\ slot'[x].from = k => slot'[x].ini = "idle"
               /\ slot'[x].to = k => slot'[x].res = "idle"
    BY <1>5, <2>2, StopSlots DEF DownInv
  <2>3. ASSUME NEW k \in Nodes, k = n \/ boot[k] = "down"
        PROVE  card'[k] = NoCard /\ (\A l \in links' : k \notin l) /\ (\A g \in greet' : g[1] # k)
    BY <1>5, <2>3 DEF Stop, TypeOK, DownInv
  <2> QED
    BY <2>1, <2>2, <2>3 DEF DownInv
<1>6. ASSUME NEW c \in Calls, NEW n \in Nodes, SetAgentCard(c, n)
      PROVE  DownInv'
  <2>1. PICK new \in Cards : card' = [card EXCEPT ![n] = new]
    BY <1>6, SetAgentCardFacts
  <2> QED
    BY <1>6, <2>1 DEF SetAgentCard, TypeOK, DownInv
<1>7. ASSUME NEW p \in Pairs, Connect(p[1], p[2])
      PROVE  DownInv'
  <2>1. /\ boot[p[1]] # "down" /\ boot[p[2]] # "down"
        /\ \A l \in links' : l \in links \/ l = {p[1], p[2]}
        /\ \A g \in greet' : g \in greet \/ g[1] \in {p[1], p[2]}
        /\ UNCHANGED <<boot, card, slot>>
    BY <1>7 DEF Connect
  <2> QED
    BY <2>1 DEF DownInv
<1>8. ASSUME NEW p \in Pairs, Disconnect(p[1], p[2])
      PROVE  DownInv'
  BY <1>8 DEF Disconnect, DownInv
<1>9. ASSUME NEW p \in Pairs, ConnectPeer(p[1], p[2])
      PROVE  DownInv'
  BY <1>9 DEF ConnectPeer, DownInv
<1>10. ASSUME NEW p \in Pairs, Greet(p[1], p[2])
       PROVE  DownInv'
  <2>1. CASE card[p[1]] = NoCard
    BY <1>10, <2>1 DEF Greet, DownInv
  <2>2. CASE card[p[1]] # NoCard
    <3>1. p[1] \in Nodes /\ Opened(p[1], card[p[1]]) /\ card[p[1]] \in Cards
      BY <1>10, <2>2, GreetOpens
    <3>2. boot[p[1]] # "down"
      BY <2>2, <3>1 DEF DownInv
    <3>3. UNCHANGED <<boot, card, links>> /\ greet' \subseteq greet
      BY <1>10 DEF Greet
    <3> QED
      BY <3>1, <3>2, <3>3, OpenedRunInv DEF DownInv
  <2> QED
    BY <2>1, <2>2
<1>11. ASSUME NEW c \in Calls, NEW put \in BOOLEAN, call[c] # IdleCall, SetSelfCard(c, put)
       PROVE  DownInv'
  BY <1>11 DEF SetSelfCard, DownInv
<1>12. ASSUME NEW c \in Calls, call[c] # IdleCall, Push(c)
       PROVE  DownInv'
  <2>1. /\ call[c].node \in Nodes /\ call[c].card \in Cards
        /\ Opened(call[c].node, call[c].card)
    BY <1>12, PushOpens
  <2>2. boot[call[c].node] # "down"
    BY <1>12 DEF CallInv
  <2>3. UNCHANGED <<boot, card, links, greet>>
    BY <1>12 DEF Push
  <2> QED
    BY <2>1, <2>2, <2>3, OpenedRunInv DEF DownInv
<1>13. ASSUME NEW x \in Slots, NEW b \in BOOLEAN, ExchangeStep(x, b)
       PROVE  DownInv'
  <2>1. /\ UNCHANGED <<boot, card, links, greet>>
        /\ \A y \in Slots \ {x} : slot'[y] = slot[y]
    BY <1>13, ExchangeStepFacts
  <2>2. ASSUME NEW k \in Nodes, boot[k] = "down", slot'[x] # Empty
        PROVE  /\ slot'[x].from = k => slot'[x].ini = "idle"
               /\ slot'[x].to = k => slot'[x].res = "idle"
    BY <1>13, <2>2, ExchangeStepFacts DEF DownInv, Wired
  <2> QED
    BY <2>1, <2>2 DEF DownInv
<1>14. CASE UNCHANGED vars
  BY <1>14 DEF vars, DownInv
<1> QED
  BY <1>1, <1>2, <1>3, <1>4, <1>5, <1>6, <1>7, <1>8, <1>9, <1>10, <1>11, <1>12, <1>13, <1>14
  DEF Next, ExchangeStep

LEMMA CallStep ==
    ASSUME RunInv, [Next]_vars
    PROVE  CallInv'
<1> USE DEF RunInv
<1>1. ASSUME UNCHANGED call,
             \A n \in Nodes : boot[n] = "serving" => boot'[n] = "serving"
      PROVE  CallInv'
  BY <1>1, CallFacts DEF CallInv
<1>2. ASSUME NEW n \in Nodes,
             \/ \E ok \in BOOLEAN : Start(n, ok)
             \/ Wire(n) \/ Serve(n)
             \/ \E put \in BOOLEAN : RegisterProxySkill(n, put)
      PROVE  CallInv'
  BY <1>1, <1>2 DEF Start, Wire, Serve, RegisterProxySkill, TypeOK
<1>3. ASSUME NEW n \in Nodes, Stop(n)
      PROVE  CallInv'
  <2>1. ASSUME NEW c \in Calls, call'[c] # IdleCall
        PROVE  call'[c] = call[c] /\ call[c] # IdleCall /\ call[c].node \in Nodes \ {n}
    BY <1>3, <2>1, CallFacts DEF Stop
  <2> QED
    BY <1>3, <2>1 DEF Stop, TypeOK, CallInv
<1>4. ASSUME NEW c \in Calls, NEW n \in Nodes, SetAgentCard(c, n)
      PROVE  CallInv'
  <2>1. PICK new \in Cards :
           call' = [call EXCEPT ![c] = [phase |-> "set", node |-> n, card |-> new]]
    BY <1>4, SetAgentCardFacts
  <2> QED
    BY <1>4, <2>1 DEF SetAgentCard, TypeOK, CallInv
<1>5. ASSUME NEW p \in Pairs,
             \/ Connect(p[1], p[2]) \/ Disconnect(p[1], p[2])
             \/ ConnectPeer(p[1], p[2]) \/ Greet(p[1], p[2])
      PROVE  CallInv'
  BY <1>1, <1>5 DEF Connect, Disconnect, ConnectPeer, Greet
<1>6. ASSUME NEW c \in Calls, NEW put \in BOOLEAN, call[c] # IdleCall, SetSelfCard(c, put)
      PROVE  CallInv'
  BY <1>6, SetSelfCardFacts DEF SetSelfCard, TypeOK, CallInv
<1>7. ASSUME NEW c \in Calls, call[c] # IdleCall, Push(c)
      PROVE  CallInv'
  BY <1>7 DEF Push, TypeOK, CallInv
<1>8. ASSUME NEW x \in Slots, NEW b \in BOOLEAN, ExchangeStep(x, b)
      PROVE  CallInv'
  BY <1>1, <1>8, ExchangeStepFacts
<1>9. CASE UNCHANGED vars
  BY <1>1, <1>9 DEF vars
<1> QED
  BY <1>2, <1>3, <1>4, <1>5, <1>6, <1>7, <1>8, <1>9 DEF Next, ExchangeStep

LEMMA RunInit == Init => RunInv
BY TypeInit DEF Init, RunInv, DownInv, CallInv

LEMMA RunStep ==
    ASSUME RunInv, [Next]_vars
    PROVE  RunInv'
BY TypeStep, DownStep, CallStep DEF RunInv

\* What a daemon that is down leaves behind: no card in memory, no connection, no side of
\* an exchange and no call; what its peers still hold is their own side (host.go).
THEOREM RunInvCorrect == Spec => []RunInv
BY RunInit, RunStep, PTL DEF Spec

-----------------------------------------------------------------------------
(* AgentCards: the node's own card and its store.                          *)

\* What a node has, what its calls are about to store and, when they have, what it has
\* stored, are cards of the calls that overlapped.
SelfInv ==
    /\ overlap \in [Nodes -> SUBSET (Cards \cup {NoCard})]
    /\ \A n \in Nodes : boot[n] # "down" =>
          /\ card[n] \in overlap[n]
          /\ \A c \in Persisting(n) : call[c].card \in overlap[n]
          /\ n \notin putFailed /\ Persisting(n) = {} => selfDisk[n] \in overlap[n]

LEMMA SelfInit == Init => SelfInv
BY DEF Init, SelfInv

LEMMA SelfStep ==
    ASSUME RunInv, SelfInv, [Next]_vars
    PROVE  SelfInv'
<1> USE DEF RunInv
<1>1. ASSUME UNCHANGED <<boot, card, selfDisk, call, overlap>>, putFailed \subseteq putFailed'
      PROVE  SelfInv'
  BY <1>1 DEF SelfInv, Persisting
<1>2. ASSUME NEW n \in Nodes, NEW ok \in BOOLEAN, Start(n, ok)
      PROVE  SelfInv'
  <2>1. /\ call' = call /\ selfDisk' = selfDisk /\ putFailed \subseteq putFailed'
        /\ card'[n] = selfDisk[n]
        /\ \A k \in Nodes \ {n} : boot'[k] = boot[k] /\ card'[k] = card[k]
    BY <1>2 DEF Start, GetSelfCard, TypeOK
  <2>2. /\ overlap' \in [Nodes -> SUBSET (Cards \cup {NoCard})]
        /\ overlap'[n] = {selfDisk[n]}
        /\ \A k \in Nodes \ {n} : overlap'[k] = overlap[k]
    BY <1>2 DEF Start, GetSelfCard, TypeOK, SelfInv
  <2>3. Persisting(n) = {}
    BY <1>2 DEF Start, CallInv, Persisting
  <2>4. \A k \in Nodes : Persisting(k)' = Persisting(k)
    BY <2>1 DEF Persisting
  <2> QED
    BY <2>1, <2>2, <2>3, <2>4 DEF SelfInv
<1>3. ASSUME NEW n \in Nodes, Wire(n) \/ Serve(n)
      PROVE  SelfInv'
  <2>1. /\ UNCHANGED <<card, selfDisk, call, putFailed, overlap>>
        /\ \A k \in Nodes : boot'[k] = "down" <=> boot[k] = "down"
    BY <1>3 DEF Wire, Serve, TypeOK
  <2> QED
    BY <2>1 DEF SelfInv, Persisting
<1>4. ASSUME NEW n \in Nodes, NEW put \in BOOLEAN, RegisterProxySkill(n, put)
      PROVE  SelfInv'
  <2>1. PICK new \in Cards :
           /\ card' = [card EXCEPT ![n] = new]
           /\ overlap' = [overlap EXCEPT ![n] = {new}]
           /\ selfDisk' = IF put THEN [selfDisk EXCEPT ![n] = new] ELSE selfDisk
    BY <1>4, ProxyCardFacts
  <2>2. Persisting(n) = {}
    BY <1>4 DEF RegisterProxySkill, CallInv, Persisting
  <2>3. /\ boot' = boot /\ call' = call /\ putFailed \subseteq putFailed'
        /\ n \notin putFailed' => put
    BY <1>4 DEF RegisterProxySkill
  <2>4. /\ n \notin putFailed' => selfDisk'[n] = new
        /\ card'[n] = new /\ overlap'[n] = {new}
        /\ overlap' \in [Nodes -> SUBSET (Cards \cup {NoCard})]
        /\ \A k \in Nodes \ {n} :
              selfDisk'[k] = selfDisk[k] /\ card'[k] = card[k] /\ overlap'[k] = overlap[k]
    BY <2>1, <2>3 DEF TypeOK, SelfInv
  <2>5. \A k \in Nodes : Persisting(k)' = Persisting(k)
    BY <2>3 DEF Persisting
  <2> QED
    BY <2>2, <2>3, <2>4, <2>5 DEF SelfInv
<1>5. ASSUME NEW n \in Nodes, Stop(n)
      PROVE  SelfInv'
  <2>1. \A k \in Nodes \ {n} : Persisting(k)' = Persisting(k)
    BY <1>5, CallFacts DEF Stop, Persisting
  <2>2. \A k \in Nodes \ {n} : \A c \in Persisting(k) : call'[c] = call[c]
    BY <1>5, CallFacts DEF Stop, Persisting
  <2>3. \A k \in Nodes \ {n} : boot'[k] = boot[k] /\ card'[k] = card[k]
    BY <1>5 DEF Stop, TypeOK
  <2>4. boot'[n] = "down" /\ UNCHANGED <<selfDisk, putFailed, overlap>>
    BY <1>5 DEF Stop, TypeOK
  <2> QED
    BY <2>1, <2>2, <2>3, <2>4 DEF SelfInv
<1>6. ASSUME NEW c \in Calls, NEW n \in Nodes, SetAgentCard(c, n)
      PROVE  SelfInv'
  <2>1. PICK new \in Cards :
           /\ card' = [card EXCEPT ![n] = new]
           /\ call' = [call EXCEPT ![c] = [phase |-> "set", node |-> n, card |-> new]]
           /\ overlap' = [overlap EXCEPT ![n] = IF Persisting(n) = {} THEN {new} ELSE @ \cup {new}]
    BY <1>6, SetAgentCardFacts
  <2>2. /\ call'[c] = [phase |-> "set", node |-> n, card |-> new]
        /\ \A d \in Calls \ {c} : call'[d] = call[d]
        /\ card'[n] = new /\ \A k \in Nodes \ {n} : card'[k] = card[k]
        /\ call[c] = IdleCall
    BY <1>6, <2>1 DEF TypeOK, SetAgentCard
  <2>3. /\ overlap' \in [Nodes -> SUBSET (Cards \cup {NoCard})]
        /\ new \in overlap'[n]
        /\ Persisting(n) # {} => overlap[n] \subseteq overlap'[n]
        /\ \A k \in Nodes \ {n} : overlap'[k] = overlap[k]
    BY <2>1 DEF SelfInv
  <2>4. Persisting(n)' = Persisting(n) \cup {c} /\ \A k \in Nodes \ {n} : Persisting(k)' = Persisting(k)
    BY <2>2 DEF Persisting, IdleCall
  <2>5. \A k \in Nodes : c \notin Persisting(k)
    BY <2>2 DEF Persisting
  <2>6. UNCHANGED <<boot, selfDisk, putFailed>>
    BY <1>6 DEF SetAgentCard
  <2>7. \A d \in Persisting(n)' : boot[n] # "down" => call'[d].card \in overlap'[n]
    <3>1. CASE Persisting(n) = {}
      BY <3>1, <2>2, <2>3, <2>4
    <3>2. ASSUME NEW d \in Persisting(n), boot[n] # "down" PROVE call'[d].card \in overlap'[n]
      <4>1. call[d].card \in overlap[n]
        BY <3>2 DEF SelfInv
      <4>2. call'[d] = call[d]
        BY <2>2, <2>5 DEF Persisting
      <4>3. QED
        BY <4>1, <4>2, <2>3
    <3>3. call'[c].card \in overlap'[n]
      BY <2>2, <2>3
    <3>4. QED
      BY <3>2, <3>3, <2>4
  <2>8. \A k \in Nodes \ {n}, d \in Calls : d \in Persisting(k) => call'[d] = call[d]
    BY <2>2, <2>5
  <2>9. Persisting(n)' # {}
    BY <2>4
  <2> QED
    BY <2>2, <2>3, <2>4, <2>6, <2>7, <2>8, <2>9 DEF SelfInv, Persisting
<1>7. ASSUME NEW p \in Pairs,
             \/ Connect(p[1], p[2]) \/ Disconnect(p[1], p[2])
             \/ ConnectPeer(p[1], p[2]) \/ Greet(p[1], p[2])
      PROVE  SelfInv'
  BY <1>1, <1>7 DEF Connect, Disconnect, ConnectPeer, Greet
<1>8. ASSUME NEW c \in Calls, NEW put \in BOOLEAN, call[c] # IdleCall, SetSelfCard(c, put)
      PROVE  SelfInv'
  <2> DEFINE n == call[c].node
  <2>1. n \in Nodes
    BY <1>8, CallFacts
  <2>2. call[c].phase = "set" /\ UNCHANGED <<boot, card, overlap>> /\ putFailed \subseteq putFailed'
    BY <1>8 DEF SetSelfCard
  <2>3. /\ call'[c].phase # "set"
        /\ \A d \in Calls \ {c} : call'[d] = call[d]
    BY <1>8, SetSelfCardFacts DEF TypeOK
  <2>4. c \in Persisting(n)
    BY <1>8, <2>2 DEF Persisting
  <2>5. /\ n \notin putFailed' => selfDisk'[n] = call[c].card
        /\ \A k \in Nodes \ {n} : selfDisk'[k] = selfDisk[k]
    BY <1>8, <2>1 DEF SetSelfCard, TypeOK
  <2>6. \A k \in Nodes : Persisting(k)' = Persisting(k) \ {c}
    BY <2>3 DEF Persisting
  <2>7. \A k \in Nodes \ {n} : c \notin Persisting(k)
    BY DEF Persisting
  <2> HIDE DEF n
  <2>8. boot[n] # "down" => call[c].card \in overlap[n]
    BY <2>1, <2>4 DEF SelfInv
  <2>9. \A k \in Nodes : \A d \in Persisting(k)' : d \in Persisting(k) /\ call'[d] = call[d]
    BY <2>3, <2>6 DEF Persisting
  <2>10. \A k \in Nodes \ {n} : Persisting(k)' = Persisting(k)
    BY <2>6, <2>7
  <2> QED
    BY <2>1, <2>2, <2>5, <2>8, <2>9, <2>10 DEF SelfInv
<1>9. ASSUME NEW c \in Calls, call[c] # IdleCall, Push(c)
      PROVE  SelfInv'
  <2>1. /\ call'[c].phase # "set" /\ call[c].phase # "set"
        /\ \A d \in Calls \ {c} : call'[d] = call[d]
        /\ UNCHANGED <<boot, card, selfDisk, putFailed, overlap>>
    BY <1>9 DEF Push, TypeOK, IdleCall
  <2>2. \A k \in Nodes : Persisting(k)' = Persisting(k) /\ c \notin Persisting(k)
    BY <2>1 DEF Persisting
  <2>3. \A k \in Nodes : \A d \in Persisting(k) : call'[d] = call[d]
    BY <2>1, <2>2 DEF Persisting
  <2> QED
    BY <2>1, <2>2, <2>3 DEF SelfInv
<1>10. ASSUME NEW x \in Slots, NEW b \in BOOLEAN, ExchangeStep(x, b)
       PROVE  SelfInv'
  <2>1. putFailed \subseteq putFailed' /\ overlap' = overlap
    BY <1>10 DEF ExchangeStep, WriteCard, WriteFails, ReadCard, ReadFails, StorePeerCard,
         StoreReply, Store, Reply, ReadReply, NoReply
  <2> QED
    BY <1>1, <1>10, <2>1, ExchangeStepFacts
<1>11. CASE UNCHANGED vars
  BY <1>1, <1>11 DEF vars
<1> QED
  BY <1>2, <1>3, <1>4, <1>5, <1>6, <1>7, <1>8, <1>9, <1>10, <1>11 DEF Next, ExchangeStep

\* However the SetAgentCard calls of a node overlap, a restart brings back the card that
\* the node has or that of a call that overlapped with it, unless a call is between its
\* critical section and its write or the store has failed (server.go: SetAgentCard,
\* RegisterProxySkill; host.go: SetSelfCard).
THEOREM SelfCardPersistedUnlessOverlappedCorrect == Spec => []SelfCardPersistedUnlessOverlapped
<1>1. RunInv /\ SelfInv /\ [Next]_vars => (RunInv /\ SelfInv)'
  BY RunStep, SelfStep
<1>2. RunInv /\ SelfInv => SelfCardPersistedUnlessOverlapped
  BY DEF SelfInv, SelfCardPersistedUnlessOverlapped
<1> QED
  BY <1>1, <1>2, RunInit, SelfInit, PTL DEF Spec

-----------------------------------------------------------------------------
(* AgentCards: a card the SDK has set is on its way until the peer has it. *)

\* Exchange x brings n's card to m and m has not read it yet.
Carries(x, n, m) ==
    /\ slot[x] # Empty /\ slot[x].from = n /\ slot[x].to = m
    /\ slot[x].ini = "ready" \/ slot[x].res = "reading"

\* n's card has reached m, or a callback, a call or an exchange will still bring it.
Coming(n, m) ==
    \/ peerCard[m][n] # NoCard
    \/ <<n, m>> \in greet
    \/ \E c \in Calls : call[c] # IdleCall /\ call[c].node = n
    \/ \E x \in Slots : Carries(x, n, m)

CarriedInv ==
    \A n, m \in Nodes :
        Sound(n, m) /\ {n, m} \notin early /\ card[n] # NoCard /\ card[n].rev > 0
            => Coming(n, m)

LEMMA CarriedInit == Init => CarriedInv
BY DEF Init, CarriedInv, Sound

\* A card that is due at m and is coming keeps coming.
LEMMA CarriedFrame ==
    ASSUME CarriedInv, NEW n \in Nodes, NEW m \in Nodes,
           {n, m} \in links, <<n, m>> \notin lost, {n, m} \notin early,
           card[n] # NoCard, card[n].rev > 0,
           peerCard[m][n] # NoCard => peerCard'[m][n] # NoCard,
           <<n, m>> \in greet => <<n, m>> \in greet',
           \A c \in Calls : call[c] # IdleCall /\ call[c].node = n
                               => call'[c] # IdleCall /\ call'[c].node = n,
           \A x \in Slots : Carries(x, n, m) => Carries(x, n, m)'
    PROVE  Coming(n, m)'
BY DEF CarriedInv, Coming, Sound


LEMMA OpenedCarries ==
    ASSUME NEW n, NEW m, NEW k, NEW d, Opened(k, d), NEW x \in Slots, Carries(x, n, m)
    PROVE  Carries(x, n, m)'
BY DEF Opened, Carries

\* An exchange that brings the card goes on, fails on a connection that counts as lost,
\* or has put the card into the peer's memory.
LEMMA ExchangeCarries ==
    ASSUME RunInv, NEW x \in Slots, NEW b \in BOOLEAN, ExchangeStep(x, b),
           NEW n \in Nodes, NEW m \in Nodes, {n, m} \in links, <<n, m>> \notin lost'
    PROVE  /\ <<n, m>> \notin lost
           /\ peerCard[m][n] # NoCard => peerCard'[m][n] # NoCard
           /\ \A y \in Slots : Carries(y, n, m) => Carries(y, n, m)' \/ peerCard'[m][n] # NoCard
<1> USE DEF RunInv
<1>1. lost \subseteq lost'
  BY DEF ExchangeStep, WriteCard, WriteFails, ReadCard, ReadFails, StorePeerCard, StoreReply,
         Reply, ReadReply, NoReply
<1>2. /\ slot[x] \in Exchanges /\ slot[x] # Empty
      /\ slot[x].from \in Nodes /\ slot[x].to \in Nodes /\ slot[x].from # slot[x].to
      /\ slot[x].card \in Cards /\ slot[x].reply \in Cards \cup {NoCard}
      /\ slot[x].ini \in Sides /\ slot[x].res \in Ends
      /\ card[slot[x].to] \in Cards \cup {NoCard}
  <2>1. /\ slot[x] \in Exchanges /\ slot[x] # Empty
        /\ slot[x].from \in Nodes /\ slot[x].to \in Nodes /\ slot[x].from # slot[x].to
    BY ExchangeStepFacts
  <2> QED
    BY <2>1 DEF Exchanges, Sides, Ends, TypeOK
<1>3. peerCard[m][n] # NoCard => peerCard'[m][n] # NoCard
  <2>1. CASE ReadCard(x)
    <3>1. SetPeerCard(slot[x].to, slot[x].from, slot[x].card)
      BY <2>1 DEF ReadCard
    <3>2. /\ peerCard'[slot[x].to][slot[x].from] \in Cards
          /\ m # slot[x].to \/ n # slot[x].from => peerCard'[m][n] = peerCard[m][n]
      BY <1>2, <3>1, SetPeerCardFacts
    <3> QED
      BY <3>2, CardAssumption
  <2>2. CASE ReadReply(x)
    <3>1. SetPeerCard(slot[x].from, slot[x].to, slot[x].reply) /\ slot[x].reply \in Cards
      BY <1>2, <2>2 DEF ReadReply
    <3>2. /\ peerCard'[slot[x].from][slot[x].to] \in Cards
          /\ m # slot[x].from \/ n # slot[x].to => peerCard'[m][n] = peerCard[m][n]
      BY <1>2, <3>1, SetPeerCardFacts
    <3> QED
      BY <3>2, CardAssumption
  <2>3. CASE peerCard' = peerCard
    BY <2>3
  <2> QED
    BY <2>1, <2>2, <2>3
    DEF ExchangeStep, WriteCard, WriteFails, ReadFails, StorePeerCard, StoreReply, Reply, NoReply
<1>4. ASSUME NEW y \in Slots \ {x}, Carries(y, n, m)
      PROVE  Carries(y, n, m)'
  BY <1>4, ExchangeStepFacts DEF Carries
<1>5. ASSUME Carries(x, n, m)
      PROVE  Carries(x, n, m)' \/ peerCard'[m][n] # NoCard
  <2>1. slot[x].from = n /\ slot[x].to = m
    BY <1>5 DEF Carries
  <2>2. CASE WriteFails(x) \/ ReadFails(x)
    BY <2>1, <2>2 DEF WriteFails, ReadFails, Failed
  <2>3. CASE ReadCard(x)
    <3>1. SetPeerCard(m, n, slot[x].card)
      BY <2>1, <2>3 DEF ReadCard
    <3> QED
      BY <1>2, <2>1, <3>1, SetPeerCardFacts, CardAssumption
  <2>4. ASSUME NEW i \in Sides, NEW e \in Ends, NEW r \in Cards \cup {NoCard}, Turned(x, i, e, r),
               i = "ready" \/ e = "reading"
        PROVE  Carries(x, n, m)'
    <3>1. /\ slot'[x].ini = i /\ slot'[x].res = e /\ slot'[x] # Empty
          /\ slot'[x].from = n /\ slot'[x].to = m
      BY <1>2, <2>1, <2>4, TurnedFacts
    <3> QED
      BY <2>4, <3>1 DEF Carries
  <2>5. CASE WriteCard(x)
    BY <1>2, <2>4, <2>5, Turns DEF Sides, Ends
  <2>6. slot[x].ini = "ready" \/ slot[x].res = "reading"
    BY <1>5 DEF Carries
  <2>7. CASE StorePeerCard(x, b)
    <3>1. Turned(x, slot[x].ini, "replying", slot[x].reply) /\ slot[x].ini = "ready"
      BY <2>6, <2>7, Turns DEF StorePeerCard
    <3> QED
      BY <1>2, <2>4, <3>1 DEF Ends
  <2>8. CASE Reply(x, b)
    <3>1. Turned(x, slot[x].ini, "idle", slot[x].reply) /\ slot[x].ini = "ready"
      BY <2>6, <2>8, Turns DEF Reply
    <3> QED
      BY <1>2, <2>4, <3>1 DEF Ends
  <2>9. CASE StoreReply(x, b) \/ NoReply(x)
    <3>1. Turned(x, "idle", slot[x].res, slot[x].reply) /\ slot[x].res = "reading"
      BY <2>6, <2>9, Turns DEF StoreReply, NoReply
    <3> QED
      BY <1>2, <2>4, <3>1 DEF Sides
  <2>10. CASE ReadReply(x)
    <3>1. Turned(x, "storing", slot[x].res, slot[x].reply) /\ slot[x].res = "reading"
      BY <2>6, <2>10, Turns DEF ReadReply
    <3> QED
      BY <1>2, <2>4, <3>1 DEF Sides
  <2> QED
    BY <2>2, <2>3, <2>5, <2>7, <2>8, <2>9, <2>10 DEF ExchangeStep
<1> QED
  BY <1>1, <1>3, <1>4, <1>5

LEMMA CarriedStep ==
    ASSUME RunInv, CarriedInv, [Next]_vars
    PROVE  CarriedInv'
<1> USE DEF RunInv
<1> SUFFICES ASSUME NEW n \in Nodes, NEW m \in Nodes,
                    {n, m} \in links', <<n, m>> \notin lost', {n, m} \notin early',
                    card'[n] # NoCard, card'[n].rev > 0
             PROVE  Coming(n, m)'
  BY DEF CarriedInv, Sound
<1>1. ASSUME UNCHANGED <<card, peerCard, greet, call, slot>>,
             {n, m} \in links, <<n, m>> \notin lost, {n, m} \notin early
      PROVE  Coming(n, m)'
  BY <1>1, CarriedFrame DEF Carries
<1>2. ASSUME NEW k \in Nodes, NEW ok \in BOOLEAN, Start(k, ok)
      PROVE  Coming(n, m)'
  <2>1. {n, m} \in links /\ <<n, m>> \notin lost /\ {n, m} \notin early
    BY <1>2 DEF Start
  <2>2. n # k /\ m # k
    BY <1>2, <2>1 DEF Start, DownInv
  <2>3. /\ card'[n] = card[n] /\ peerCard'[m] = peerCard[m]
        /\ UNCHANGED <<greet, call, slot>>
    BY <1>2, <2>2 DEF Start, TypeOK
  <2> QED
    BY <2>1, <2>3, CarriedFrame DEF Carries
<1>3. ASSUME NEW k \in Nodes, Wire(k) \/ Serve(k)
      PROVE  Coming(n, m)'
  BY <1>1, <1>3 DEF Wire, Serve
<1>4. ASSUME NEW k \in Nodes, NEW put \in BOOLEAN, RegisterProxySkill(k, put)
      PROVE  Coming(n, m)'
  <2>1. PICK new \in Cards : /\ card' = [card EXCEPT ![k] = new]
                             /\ new.rev > 0 => card[k] # NoCard /\ card[k].rev > 0
    BY <1>4, ProxyCardFacts
  <2>2. card[n] # NoCard /\ card[n].rev > 0
    BY <2>1 DEF TypeOK
  <2>3. UNCHANGED <<peerCard, greet, call, slot, links, lost, early>>
    BY <1>4 DEF RegisterProxySkill
  <2> QED
    BY <2>2, <2>3, CarriedFrame DEF Carries
<1>5. ASSUME NEW k \in Nodes, Stop(k)
      PROVE  Coming(n, m)'
  <2>1. {n, m} \in links /\ n # k /\ m # k
    BY <1>5 DEF Stop
  <2>2. <<n, m>> \notin lost /\ {n, m} \notin early
    BY <1>5, <2>1 DEF Stop
  <2>3. card'[n] = card[n] /\ peerCard'[m] = peerCard[m]
    BY <1>5, <2>1 DEF Stop, TypeOK
  <2>4. <<n, m>> \in greet => <<n, m>> \in greet'
    BY <1>5, <2>1 DEF Stop
  <2>5. \A c \in Calls : call[c] # IdleCall /\ call[c].node = n => call'[c] = call[c]
    BY <1>5, <2>1 DEF Stop
  <2>6. ASSUME NEW x \in Slots, Carries(x, n, m)
        PROVE  Carries(x, n, m)'
    BY <1>5, <2>1, <2>6, StopSlots DEF Carries
  <2> QED
    BY <2>1, <2>2, <2>3, <2>4, <2>5, <2>6, CarriedFrame
<1>6. ASSUME NEW c \in Calls, NEW k \in Nodes, SetAgentCard(c, k)
      PROVE  Coming(n, m)'
  <2>1. PICK new \in Cards :
           /\ card' = [card EXCEPT ![k] = new]
           /\ call' = [call EXCEPT ![c] = [phase |-> "set", node |-> k, card |-> new]]
    BY <1>6, SetAgentCardFacts
  <2>2. CASE n = k
    <3>1. call'[c].node = n /\ call'[c].phase = "set"
      BY <2>1, <2>2 DEF TypeOK
    <3>2. call'[c] # IdleCall
      BY <3>1 DEF IdleCall
    <3> QED
      BY <3>1, <3>2 DEF Coming
  <2>3. CASE n # k
    <3>1. /\ card'[n] = card[n] /\ call[c] = IdleCall /\ \A d \in Calls \ {c} : call'[d] = call[d]
          /\ UNCHANGED <<peerCard, greet, slot, links, lost, early>>
      BY <1>6, <2>1, <2>3 DEF SetAgentCard, TypeOK
    <3> QED
      BY <3>1, CarriedFrame DEF Carries
  <2> QED
    BY <2>2, <2>3
<1>7. ASSUME NEW p \in Pairs, Connect(p[1], p[2])
      PROVE  Coming(n, m)'
  <2>1. CASE {n, m} = {p[1], p[2]}
    <3>1. Wired(p[1]) /\ Wired(p[2])
      BY <1>7, <2>1 DEF Connect
    <3>2. <<n, m>> \in {<<p[1], p[2]>>, <<p[2], p[1]>>}
      <4>1. n \in {p[1], p[2]} /\ m \in {p[1], p[2]} /\ p[1] \in {n, m} /\ p[2] \in {n, m}
        BY <2>1
      <4> QED
        BY <4>1 DEF Pairs
    <3>3. <<n, m>> \in greet'
      BY <1>7, <3>1, <3>2 DEF Connect
    <3> QED
      BY <3>3 DEF Coming
  <2>2. CASE {n, m} # {p[1], p[2]}
    <3>1. /\ {n, m} \in links /\ <<n, m>> \notin lost /\ {n, m} \notin early
          /\ greet \subseteq greet' /\ UNCHANGED <<card, peerCard, call, slot>>
      BY <1>7, <2>2 DEF Connect
    <3> QED
      BY <3>1, CarriedFrame DEF Carries
  <2> QED
    BY <2>1, <2>2
<1>8. ASSUME NEW p \in Pairs, Disconnect(p[1], p[2])
      PROVE  Coming(n, m)'
  <2>1. {n, m} \in links /\ {n, m} # {p[1], p[2]}
    BY <1>8 DEF Disconnect
  <2>2. <<n, m>> # <<p[1], p[2]>> /\ <<n, m>> # <<p[2], p[1]>>
    BY <2>1
  <2>3. <<n, m>> \notin lost /\ {n, m} \notin early
    BY <1>8, <2>1, <2>2 DEF Disconnect
  <2> QED
    BY <1>1, <1>8, <2>1, <2>3 DEF Disconnect
<1>9. ASSUME NEW p \in Pairs, ConnectPeer(p[1], p[2])
      PROVE  Coming(n, m)'
  <2>1. greet \subseteq greet' /\ UNCHANGED <<card, peerCard, call, slot, links, lost, early>>
    BY <1>9 DEF ConnectPeer
  <2> QED
    BY <2>1, CarriedFrame DEF Carries
<1>10. ASSUME NEW p \in Pairs, Greet(p[1], p[2])
       PROVE  Coming(n, m)'
  <2>1. /\ UNCHANGED <<card, peerCard, call, links, lost, early>>
        /\ greet' = greet \ {<<p[1], p[2]>>}
    BY <1>10 DEF Greet
  <2>2. CASE <<n, m>> = <<p[1], p[2]>>
    <3>1. PICK x \in Slots : slot'[x] = Exchange(n, m, card[n]) /\ card[n] \in Cards
      BY <1>10, <2>1, <2>2, GreetOpens
    <3>2. Carries(x, n, m)'
      BY <3>1, ExchangeFacts DEF Carries
    <3> QED
      BY <3>2 DEF Coming
  <2>3. CASE <<n, m>> # <<p[1], p[2]>>
    <3>1. Opened(p[1], card[p[1]])
      BY <1>10, GreetOpens
    <3>2. \A x \in Slots : Carries(x, n, m) => Carries(x, n, m)'
      BY <3>1, OpenedCarries
    <3> QED
      BY <2>1, <2>3, <3>2, CarriedFrame
  <2> QED
    BY <2>2, <2>3
<1>11. ASSUME NEW c \in Calls, NEW put \in BOOLEAN, call[c] # IdleCall, SetSelfCard(c, put)
       PROVE  Coming(n, m)'
  <2>1. call' = [call EXCEPT ![c] = [phase |-> "stored", node |-> call[c].node,
                                     card |-> call[c].card]]
    BY <1>11, SetSelfCardFacts
  <2>2. /\ call'[c] # IdleCall /\ call'[c].node = call[c].node
        /\ \A d \in Calls \ {c} : call'[d] = call[d]
    BY <2>1 DEF TypeOK, IdleCall
  <2>3. UNCHANGED <<card, peerCard, greet, slot, links, lost, early>>
    BY <1>11 DEF SetSelfCard
  <2> QED
    BY <2>2, <2>3, CarriedFrame DEF Carries
<1>12. ASSUME NEW c \in Calls, call[c] # IdleCall, Push(c)
       PROVE  Coming(n, m)'
  <2>1. UNCHANGED <<card, peerCard, greet, links, lost, early>>
    BY <1>12 DEF Push
  <2>2. CASE call[c].node = n
    <3>1. m \in Neighbours(n)
      BY <2>1 DEF Neighbours
    <3>2. PICK x \in Slots : slot'[x] = Exchange(n, m, call[c].card) /\ call[c].card \in Cards
      BY <1>12, <2>2, <3>1, PushOpens
    <3>3. Carries(x, n, m)'
      BY <3>2, ExchangeFacts DEF Carries
    <3> QED
      BY <3>3 DEF Coming
  <2>3. CASE call[c].node # n
    <3>1. \A x \in Slots : Carries(x, n, m) => Carries(x, n, m)'
      BY <1>12, PushOpens, OpenedCarries
    <3>2. \A d \in Calls \ {c} : call'[d] = call[d]
      BY <1>12 DEF Push, TypeOK
    <3> QED
      BY <2>1, <2>3, <3>1, <3>2, CarriedFrame
  <2> QED
    BY <2>2, <2>3
<1>13. ASSUME NEW x \in Slots, NEW b \in BOOLEAN, ExchangeStep(x, b)
       PROVE  Coming(n, m)'
  <2>1. UNCHANGED <<card, call, links, greet, early>>
    BY <1>13, ExchangeStepFacts
  <2>2. /\ <<n, m>> \notin lost
        /\ peerCard[m][n] # NoCard => peerCard'[m][n] # NoCard
        /\ \A y \in Slots : Carries(y, n, m) => Carries(y, n, m)' \/ peerCard'[m][n] # NoCard
    BY <1>13, <2>1, ExchangeCarries
  <2>3. CASE peerCard'[m][n] # NoCard
    BY <2>3 DEF Coming
  <2>4. CASE peerCard'[m][n] = NoCard
    BY <2>1, <2>2, <2>4, CarriedFrame
  <2> QED
    BY <2>3, <2>4
<1>14. CASE UNCHANGED vars
  BY <1>1, <1>14 DEF vars
<1> QED
  BY <1>2, <1>3, <1>4, <1>5, <1>6, <1>7, <1>8, <1>9, <1>10, <1>11, <1>12, <1>13, <1>14
  DEF Next, ExchangeStep

\* No peer falls between the push of SetAgentCard and the callback of the connection: a
\* card the SDK has set is known to every peer whose connection was made with both
\* callbacks in place and lost no exchange, once nothing is under way (server.go:
\* SetAgentCard, host.go: ConnectedF, main.go: OnPeerConnected).
THEOREM CardReachesPeerCorrect == Spec => []CardReachesPeer
<1>1. RunInv /\ CarriedInv /\ [Next]_vars => (RunInv /\ CarriedInv)'
  BY RunStep, CarriedStep
<1>2. CarriedInv => CardReachesPeer
  BY DEF CarriedInv, Coming, Carries, CardReachesPeer, Quiet
<1> QED
  BY <1>1, <1>2, RunInit, CarriedInit, PTL DEF Spec

-----------------------------------------------------------------------------
(* AgentCards: the peers' cards and the store.                             *)

\* Exchange x has put m's card into n's memory and not yet into its store.
Stores(x, n, m) ==
    /\ slot[x] # Empty
    /\ \/ slot[x].res = "storing" /\ slot[x].to = n /\ slot[x].from = m
       \/ slot[x].ini = "storing" /\ slot[x].from = n /\ slot[x].to = m

\* The card that x stores at n.
Held(x, n) == IF slot[x].to = n THEN slot[x].card ELSE slot[x].reply

\* Without a write under way memory and store agree; with one it is the only one, and it
\* brings what memory has.
Persisted(n, m) ==
    /\ (\A x \in Slots : ~Stores(x, n, m)) => peerDisk[n][m] = peerCard[n][m]
    /\ \A x \in Slots : Stores(x, n, m) =>
          /\ \A y \in Slots : Stores(y, n, m) => y = x
          /\ Held(x, n) = peerCard[n][m]

PersistInv ==
    \A n, m \in Nodes :
        boot[n] # "down" /\ n \notin putFailed /\ <<n, m>> \notin crossed => Persisted(n, m)

\* The peer's handler does not run before the card is written.
ReadyInv == \A x \in Slots : slot[x] # Empty /\ slot[x].ini = "ready" => slot[x].res = "idle"

LEMMA StoringFacts ==
    ASSUME NEW n, NEW m
    PROVE  Storing(n, m) = {} <=> \A x \in Slots : ~Stores(x, n, m)
BY DEF Storing, Stores

LEMMA PersistFrame ==
    ASSUME NEW n, NEW m, Persisted(n, m),
           peerDisk'[n][m] = peerDisk[n][m], peerCard'[n][m] = peerCard[n][m],
           \A x \in Slots : Stores(x, n, m)' <=> Stores(x, n, m),
           \A x \in Slots : Stores(x, n, m) => Held(x, n)' = Held(x, n)
    PROVE  Persisted(n, m)'
BY DEF Persisted

LEMMA OpenedStores ==
    ASSUME TypeOK, NEW k \in Nodes, NEW d \in Cards, Opened(k, d), NEW n, NEW m, NEW x \in Slots
    PROVE  /\ Stores(x, n, m)' <=> Stores(x, n, m)
           /\ Stores(x, n, m) => Held(x, n)' = Held(x, n)
           /\ slot'[x] # Empty /\ slot'[x].ini = "ready" =>
                slot'[x].res = "idle" \/ slot'[x] = slot[x]
<1>1. CASE slot[x] # Empty
  BY <1>1 DEF Opened, Stores, Held
<1>2. CASE slot[x] = Empty
  <2>1. slot'[x] = Empty \/ (slot'[x].ini = "ready" /\ slot'[x].res = "idle")
    BY <1>2, ExchangeFacts DEF Opened
  <2> QED
    BY <1>2, <2>1 DEF Stores
<1> QED
  BY <1>1, <1>2

LEMMA ReadyStep ==
    ASSUME RunInv, ReadyInv, [Next]_vars
    PROVE  ReadyInv'
<1> USE DEF RunInv
<1>1. CASE UNCHANGED slot
  BY <1>1 DEF ReadyInv
<1>2. ASSUME NEW n \in Nodes, Stop(n)
      PROVE  ReadyInv'
  BY <1>2, StopSlots DEF ReadyInv
<1>3. ASSUME NEW p \in Pairs, Greet(p[1], p[2])
      PROVE  ReadyInv'
  <2>1. CASE card[p[1]] = NoCard
    BY <1>1, <1>3, <2>1 DEF Greet
  <2>2. CASE card[p[1]] # NoCard
    <3>1. p[1] \in Nodes /\ card[p[1]] \in Cards /\ Opened(p[1], card[p[1]])
      BY <1>3, <2>2, GreetOpens
    <3> QED
      BY <3>1, OpenedStores DEF ReadyInv
  <2> QED
    BY <2>1, <2>2
<1>4. ASSUME NEW c \in Calls, call[c] # IdleCall, Push(c)
      PROVE  ReadyInv'
  BY <1>4, PushOpens, OpenedStores DEF ReadyInv
<1>5. ASSUME NEW x \in Slots, NEW b \in BOOLEAN, ExchangeStep(x, b)
      PROVE  ReadyInv'
  <2>1. /\ slot[x] \in Exchanges /\ slot[x] # Empty
        /\ \A y \in Slots \ {x} : slot'[y] = slot[y]
    BY <1>5, ExchangeStepFacts
  <2>2. /\ slot[x].reply \in Cards \cup {NoCard} /\ slot[x].to \in Nodes
        /\ slot[x].ini \in Sides /\ slot[x].res \in Ends
        /\ card[slot[x].to] \in Cards \cup {NoCard}
    BY <1>5, <2>1, ExchangeStepFacts DEF Exchanges, Sides, Ends, TypeOK
  <2>3. PICK i \in Sides, e \in Ends, r \in Cards \cup {NoCard} :
           /\ Turned(x, i, e, r)
           /\ i = "ready" => e = "idle"
    <3> USE <2>1, <2>2 DEF Sides, Ends, ReadyInv
    <3>1. CASE WriteCard(x)
      BY <3>1, Turns DEF WriteCard
    <3>2. CASE WriteFails(x) \/ StoreReply(x, b) \/ NoReply(x)
      BY <3>2, Turns
    <3>3. CASE ReadCard(x) \/ ReadFails(x) \/ StorePeerCard(x, b)
      BY <3>3, Turns DEF ReadCard, ReadFails, StorePeerCard
    <3>4. CASE Reply(x, b)
      BY <3>4, Turns DEF Reply
    <3>5. CASE ReadReply(x)
      BY <3>5, Turns DEF ReadReply
    <3> QED
      BY <1>5, <3>1, <3>2, <3>3, <3>4, <3>5 DEF ExchangeStep
  <2>4. slot'[x].ini = i /\ slot'[x].res = e
    BY <2>1, <2>3, TurnedFacts
  <2> QED
    BY <2>1, <2>3, <2>4 DEF ReadyInv
<1> QED
  BY <1>1, <1>2, <1>3, <1>4, <1>5
  DEF Next, ExchangeStep, Start, Wire, RegisterProxySkill, Serve, SetAgentCard, Connect,
      Disconnect, ConnectPeer, SetSelfCard, vars

LEMMA TurnedStores ==
    ASSUME TypeOK, NEW x \in Slots, slot[x] \in Exchanges, slot[x] # Empty,
           NEW i \in Sides, NEW e \in Ends, NEW r \in Cards \cup {NoCard},
           Turned(x, i, e, r), NEW n, NEW m
    PROVE  /\ \A y \in Slots \ {x} :
                 (Stores(y, n, m)' <=> Stores(y, n, m)) /\ Held(y, n)' = Held(y, n)
           /\ Stores(x, n, m)' <=> \/ e = "storing" /\ slot[x].to = n /\ slot[x].from = m
                                   \/ i = "storing" /\ slot[x].from = n /\ slot[x].to = m
           /\ Stores(x, n, m)' => Held(x, n)' = IF slot[x].to = n THEN slot[x].card ELSE r
<1>1. /\ \A y \in Slots \ {x} : slot'[y] = slot[y]
      /\ slot'[x].ini = i /\ slot'[x].res = e
      /\ i # "idle" \/ e # "idle" => slot'[x] # Empty
      /\ slot'[x] # Empty =>
           /\ slot'[x].from = slot[x].from /\ slot'[x].to = slot[x].to
           /\ slot'[x].card = slot[x].card /\ slot'[x].reply = r
  BY TurnedFacts
<1> QED
  BY <1>1 DEF Stores, Held

\* A step that starts no write and ends none.
LEMMA TurnedPersist ==
    ASSUME TypeOK, NEW x \in Slots, slot[x] \in Exchanges, slot[x] # Empty,
           NEW i \in Sides, NEW e \in Ends, NEW r \in Cards \cup {NoCard}, Turned(x, i, e, r),
           NEW n, NEW m, Persisted(n, m),
           peerDisk'[n][m] = peerDisk[n][m], peerCard'[n][m] = peerCard[n][m],
           slot[x].to = n /\ slot[x].from = m => (e = "storing" <=> slot[x].res = "storing"),
           slot[x].from = n /\ slot[x].to = m =>
               (i = "storing" <=> slot[x].ini = "storing") /\ (i = "storing" => r = slot[x].reply),
           slot[x].from # slot[x].to
    PROVE  Persisted(n, m)'
<1>1. \A y \in Slots \ {x} : Stores(y, n, m)' <=> Stores(y, n, m)
  BY TurnedStores
<1>2. \A y \in Slots \ {x} : Held(y, n)' = Held(y, n)
  BY TurnedStores
<1>3. Stores(x, n, m)' <=> \/ e = "storing" /\ slot[x].to = n /\ slot[x].from = m
                           \/ i = "storing" /\ slot[x].from = n /\ slot[x].to = m
  BY TurnedStores
<1>4. Stores(x, n, m)' => Held(x, n)' = IF slot[x].to = n THEN slot[x].card ELSE r
  BY TurnedStores
<1>5. Stores(x, n, m) <=> \/ slot[x].res = "storing" /\ slot[x].to = n /\ slot[x].from = m
                          \/ slot[x].ini = "storing" /\ slot[x].from = n /\ slot[x].to = m
  BY DEF Stores
<1>6. Held(x, n) = IF slot[x].to = n THEN slot[x].card ELSE slot[x].reply
  BY DEF Held
<1>7. \A y \in Slots : Stores(y, n, m)' <=> Stores(y, n, m)
  BY <1>1, <1>3, <1>5
<1>8. \A y \in Slots : Stores(y, n, m) => Held(y, n)' = Held(y, n)
  BY <1>2, <1>3, <1>4, <1>5, <1>6
<1> QED
  BY <1>7, <1>8, PersistFrame

\* The critical section of SetPeerCard at node k, by exchange x, for the card d of l.
LEMMA SetPeerCardPersist ==
    ASSUME TypeOK, NEW x \in Slots, NEW k \in Nodes, NEW l \in Nodes, k # l, NEW d \in Cards,
           SetPeerCard(k, l, d), Stores(x, k, l)', Held(x, k)' = d,
           \A y \in Slots \ {x} : Stores(y, k, l)' => Stores(y, k, l),
           <<k, l>> \notin crossed'
    PROVE  Persisted(k, l)'
<1>1. \A y \in Slots : ~Stores(y, k, l)
  BY StoringFacts DEF SetPeerCard
<1>2. peerCard'[k][l] = d
  BY SetPeerCardFacts
<1> QED
  BY <1>1, <1>2 DEF Persisted

\* The write of exchange x to the store of node k.
LEMMA StorePersist ==
    ASSUME TypeOK, NEW x \in Slots, NEW k \in Nodes, NEW l \in Nodes, k # l,
           NEW put \in BOOLEAN, Store(k, l, Held(x, k), put), Held(x, k) \in CardOrNone,
           Persisted(k, l), Stores(x, k, l), ~Stores(x, k, l)',
           \A y \in Slots \ {x} : Stores(y, k, l)' => Stores(y, k, l),
           peerCard' = peerCard, k \notin putFailed'
    PROVE  Persisted(k, l)'
<1>1. peerDisk'[k][l] = Held(x, k)
  BY StoreFacts
<1>2. Held(x, k) = peerCard[k][l]
  BY DEF Persisted
<1>3. \A y \in Slots : ~Stores(y, k, l)'
  BY DEF Persisted
<1> QED
  BY <1>1, <1>2, <1>3 DEF Persisted

LEMMA ExchangePersist ==
    ASSUME RunInv, ReadyInv, PersistInv, NEW x \in Slots, NEW b \in BOOLEAN, ExchangeStep(x, b),
           NEW n \in Nodes, NEW m \in Nodes,
           boot'[n] # "down", n \notin putFailed', <<n, m>> \notin crossed'
    PROVE  Persisted(n, m)'
<1> USE DEF RunInv
<1> DEFINE f == slot[x].from
           t == slot[x].to
<1>1. /\ slot[x] \in Exchanges /\ slot[x] # Empty
      /\ f \in Nodes /\ t \in Nodes /\ f # t
      /\ boot' = boot
  BY ExchangeStepFacts
<1>2. /\ slot[x].card \in Cards /\ slot[x].reply \in Cards \cup {NoCard}
      /\ slot[x].ini \in Sides /\ slot[x].res \in Ends
      /\ card[t] \in Cards \cup {NoCard}
  BY <1>1 DEF Exchanges, Sides, Ends, TypeOK
<1>3. "idle" \in Sides /\ "waiting" \in Sides /\ "storing" \in Sides
  BY DEF Sides
<1>4. "idle" \in Ends /\ "reading" \in Ends /\ "storing" \in Ends /\ "replying" \in Ends
  BY DEF Ends
<1>5. n \notin putFailed
  BY DEF ExchangeStep, WriteCard, WriteFails, ReadCard, ReadFails, StorePeerCard, StoreReply,
         Store, Reply, ReadReply, NoReply
<1>6. <<n, m>> \notin crossed => Persisted(n, m)
  BY <1>1, <1>5 DEF PersistInv
<1>7. CASE WriteCard(x)
  <2>1. Turned(x, "waiting", "reading", slot[x].reply)
    BY <1>7, Turns
  <2>2. slot[x].ini = "ready" /\ slot[x].res = "idle"
    BY <1>1, <1>7 DEF WriteCard, ReadyInv
  <2>3. UNCHANGED <<peerCard, peerDisk, crossed>>
    BY <1>7 DEF WriteCard
  <2> QED
    BY <1>1, <1>2, <1>3, <1>4, <1>6, <2>1, <2>2, <2>3, TurnedPersist
<1>8. CASE WriteFails(x) \/ NoReply(x)
  <2>1. Turned(x, "idle", slot[x].res, slot[x].reply) /\ slot[x].ini # "storing"
    BY <1>8, Turns DEF WriteFails, NoReply
  <2>2. UNCHANGED <<peerCard, peerDisk, crossed>>
    BY <1>8 DEF WriteFails, NoReply
  <2> QED
    BY <1>1, <1>2, <1>3, <1>6, <2>1, <2>2, TurnedPersist
<1>9. CASE ReadFails(x)
  <2>1. Turned(x, slot[x].ini, "idle", slot[x].reply) /\ slot[x].res # "storing"
    BY <1>9, Turns DEF ReadFails
  <2>2. UNCHANGED <<peerCard, peerDisk, crossed>>
    BY <1>9 DEF ReadFails
  <2> QED
    BY <1>1, <1>2, <1>4, <1>6, <2>1, <2>2, TurnedPersist
<1>10. CASE Reply(x, b)
  <2>1. slot[x].res = "replying" /\ UNCHANGED <<peerCard, peerDisk, crossed>>
    BY <1>10 DEF Reply
  <2>2. CASE b /\ slot[x].ini = "waiting"
    <3>1. Turned(x, "waiting", "idle", card[t])
      BY <1>10, <2>2, Turns
    <3> QED
      BY <1>1, <1>2, <1>3, <1>4, <1>6, <2>1, <2>2, <3>1, TurnedPersist
  <2>3. CASE ~(b /\ slot[x].ini = "waiting")
    <3>1. Turned(x, slot[x].ini, "idle", slot[x].reply)
      BY <1>10, <2>3, Turns
    <3> QED
      BY <1>1, <1>2, <1>4, <1>6, <2>1, <3>1, TurnedPersist
  <2> QED
    BY <2>2, <2>3
<1>11. CASE ReadCard(x)
  <2>1. Turned(x, slot[x].ini, "storing", slot[x].reply) /\ slot[x].res = "reading"
    BY <1>11, Turns DEF ReadCard
  <2>2. SetPeerCard(t, f, slot[x].card) /\ peerDisk' = peerDisk
    BY <1>11 DEF ReadCard
  <2>3. CASE n = t /\ m = f
    <3>1. /\ Stores(x, n, m)' /\ Held(x, n)' = slot[x].card
          /\ \A y \in Slots \ {x} : Stores(y, n, m)' => Stores(y, n, m)
      BY <1>1, <1>2, <1>4, <2>1, <2>3, TurnedStores
    <3> QED
      BY <1>1, <1>2, <2>2, <2>3, <3>1, SetPeerCardPersist
  <2>4. CASE n # t \/ m # f
    <3>1. peerCard'[n][m] = peerCard[n][m]
      BY <1>1, <1>2, <2>2, <2>4, SetPeerCardFacts
    <3>2. <<n, m>> \notin crossed
      BY <2>2, <2>4 DEF SetPeerCard
    <3> QED
      BY <1>1, <1>2, <1>4, <1>6, <2>1, <2>2, <2>4, <3>1, <3>2, TurnedPersist
  <2> QED
    BY <2>3, <2>4
<1>12. CASE ReadReply(x)
  <2>1. Turned(x, "storing", slot[x].res, slot[x].reply) /\ slot[x].ini = "waiting"
    BY <1>12, Turns DEF ReadReply
  <2>2. SetPeerCard(f, t, slot[x].reply) /\ peerDisk' = peerDisk /\ slot[x].reply \in Cards
    BY <1>2, <1>12 DEF ReadReply
  <2>3. CASE n = f /\ m = t
    <3>1. /\ Stores(x, n, m)' /\ Held(x, n)' = slot[x].reply
          /\ \A y \in Slots \ {x} : Stores(y, n, m)' => Stores(y, n, m)
      BY <1>1, <1>2, <1>3, <2>1, <2>3, TurnedStores
    <3> QED
      BY <1>1, <2>2, <2>3, <3>1, SetPeerCardPersist
  <2>4. CASE n # f \/ m # t
    <3>1. peerCard'[n][m] = peerCard[n][m]
      BY <1>1, <2>2, <2>4, SetPeerCardFacts
    <3>2. <<n, m>> \notin crossed
      BY <2>2, <2>4 DEF SetPeerCard
    <3> QED
      BY <1>1, <1>2, <1>3, <1>6, <2>1, <2>2, <2>4, <3>1, <3>2, TurnedPersist
  <2> QED
    BY <2>3, <2>4
<1>13. CASE StorePeerCard(x, b)
  <2>1. Turned(x, slot[x].ini, "replying", slot[x].reply) /\ slot[x].res = "storing"
    BY <1>13, Turns DEF StorePeerCard
  <2>2. Store(t, f, slot[x].card, b) /\ UNCHANGED <<peerCard, crossed>>
    BY <1>13 DEF StorePeerCard
  <2>3. CASE n = t /\ m = f
    <3>1. /\ ~Stores(x, n, m)'
          /\ \A y \in Slots \ {x} : Stores(y, n, m)' => Stores(y, n, m)
      BY <1>1, <1>2, <1>4, <2>1, <2>3, TurnedStores
    <3>2. Stores(x, n, m) /\ Held(x, n) = slot[x].card
      BY <1>1, <2>1, <2>3 DEF Stores, Held
    <3> QED
      BY <1>1, <1>2, <1>6, <2>2, <2>3, <3>1, <3>2, StorePersist DEF CardOrNone
  <2>4. CASE n # t \/ m # f
    <3>1. peerDisk'[n][m] = peerDisk[n][m]
      BY <1>1, <1>2, <2>2, <2>4, StoreFacts DEF CardOrNone
    <3> QED
      BY <1>1, <1>2, <1>4, <1>6, <2>1, <2>2, <2>4, <3>1, TurnedPersist
  <2> QED
    BY <2>3, <2>4
<1>14. CASE StoreReply(x, b)
  <2>1. Turned(x, "idle", slot[x].res, slot[x].reply) /\ slot[x].ini = "storing"
    BY <1>14, Turns DEF StoreReply
  <2>2. Store(f, t, slot[x].reply, b) /\ UNCHANGED <<peerCard, crossed>>
    BY <1>14 DEF StoreReply
  <2>3. CASE n = f /\ m = t
    <3>1. /\ ~Stores(x, n, m)'
          /\ \A y \in Slots \ {x} : Stores(y, n, m)' => Stores(y, n, m)
      BY <1>1, <1>2, <1>3, <2>1, <2>3, TurnedStores
    <3>2. Stores(x, n, m) /\ Held(x, n) = slot[x].reply
      BY <1>1, <2>1, <2>3 DEF Stores, Held
    <3> QED
      BY <1>1, <1>2, <1>6, <2>2, <2>3, <3>1, <3>2, StorePersist DEF CardOrNone
  <2>4. CASE n # f \/ m # t
    <3>1. peerDisk'[n][m] = peerDisk[n][m]
      BY <1>1, <1>2, <2>2, <2>4, StoreFacts DEF CardOrNone
    <3> QED
      BY <1>1, <1>2, <1>3, <1>6, <2>1, <2>2, <2>4, <3>1, TurnedPersist
  <2> QED
    BY <2>3, <2>4
<1> QED
  BY <1>7, <1>8, <1>9, <1>10, <1>11, <1>12, <1>13, <1>14 DEF ExchangeStep

LEMMA PersistStep ==
    ASSUME RunInv, ReadyInv, PersistInv, [Next]_vars
    PROVE  PersistInv'
<1> USE DEF RunInv
<1> SUFFICES ASSUME NEW n \in Nodes, NEW m \in Nodes,
                    boot'[n] # "down", n \notin putFailed', <<n, m>> \notin crossed'
             PROVE  Persisted(n, m)'
  BY DEF PersistInv
<1>1. ASSUME UNCHANGED <<peerCard, peerDisk, slot, crossed>>, putFailed \subseteq putFailed',
             boot[n] # "down"
      PROVE  Persisted(n, m)'
  <2>1. Persisted(n, m)
    BY <1>1 DEF PersistInv
  <2> QED
    BY <1>1, <2>1, PersistFrame DEF Stores, Held
<1>2. ASSUME NEW k \in Nodes, NEW ok \in BOOLEAN, Start(k, ok)
      PROVE  Persisted(n, m)'
  <2>1. UNCHANGED <<slot, peerDisk>>
    BY <1>2 DEF Start
  <2>2. CASE n = k
    <3>1. \A x \in Slots : ~Stores(x, n, m)'
      BY <1>2, <2>1, <2>2 DEF Start, DownInv, Stores
    <3>2. ok
      BY <1>2, <2>2 DEF Start
    <3>3. peerCard'[n][m] = peerDisk[n][m]
      BY <1>2, <2>2, <3>2 DEF Start, RecoverCards, TypeOK
    <3> QED
      BY <2>1, <3>1, <3>3 DEF Persisted
  <2>3. CASE n # k
    <3>1. boot[n] # "down" /\ n \notin putFailed /\ <<n, m>> \notin crossed
      BY <1>2, <2>3 DEF Start, TypeOK
    <3>2. peerCard'[n][m] = peerCard[n][m]
      BY <1>2, <2>3 DEF Start, TypeOK
    <3>3. Persisted(n, m)
      BY <3>1 DEF PersistInv
    <3> QED
      BY <2>1, <3>2, <3>3, PersistFrame DEF Stores, Held
  <2> QED
    BY <2>2, <2>3
<1>3. ASSUME NEW k \in Nodes, Wire(k) \/ Serve(k)
      PROVE  Persisted(n, m)'
  <2>1. boot[n] # "down"
    BY <1>3 DEF Wire, Serve, TypeOK
  <2> QED
    BY <1>1, <1>3, <2>1 DEF Wire, Serve
<1>4. ASSUME NEW k \in Nodes, NEW put \in BOOLEAN, RegisterProxySkill(k, put)
      PROVE  Persisted(n, m)'
  <2>1. /\ UNCHANGED <<boot, peerCard, peerDisk, slot, crossed>>
        /\ putFailed \subseteq putFailed'
    BY <1>4 DEF RegisterProxySkill
  <2> QED
    BY <1>1, <2>1
<1>5. ASSUME NEW k \in Nodes, Stop(k)
      PROVE  Persisted(n, m)'
  <2>1. n # k /\ boot[n] # "down"
    BY <1>5 DEF Stop, TypeOK
  <2>2. peerCard'[n] = peerCard[n] /\ UNCHANGED <<peerDisk, putFailed, crossed>>
    BY <1>5, <2>1 DEF Stop, TypeOK
  <2>3. Persisted(n, m)
    BY <2>1, <2>2 DEF PersistInv
  <2>4. ASSUME NEW x \in Slots
        PROVE  /\ Stores(x, n, m)' <=> Stores(x, n, m)
               /\ Stores(x, n, m) => Held(x, n)' = Held(x, n)
    <3>1. CASE slot[x] = Empty
      BY <1>5, <3>1, StopSlots DEF Stores
    <3>2. CASE slot[x] # Empty
      <4>1. /\ slot'[x].ini = IF slot[x].from = k THEN "idle" ELSE slot[x].ini
            /\ slot'[x].res = IF slot[x].to = k THEN "idle" ELSE slot[x].res
            /\ slot'[x].ini # "idle" \/ slot'[x].res # "idle" => slot'[x] # Empty
            /\ slot'[x] # Empty =>
                /\ slot'[x].from = slot[x].from /\ slot'[x].to = slot[x].to
                /\ slot'[x].card = slot[x].card /\ slot'[x].reply = slot[x].reply
        BY <1>5, <3>2, StopSlots
      <4> QED
        BY <2>1, <3>2, <4>1 DEF Stores, Held
    <3> QED
      BY <3>1, <3>2
  <2> QED
    BY <2>2, <2>3, <2>4, PersistFrame
<1>6. ASSUME NEW c \in Calls, NEW k \in Nodes, SetAgentCard(c, k)
      PROVE  Persisted(n, m)'
  BY <1>1, <1>6 DEF SetAgentCard
<1>7. ASSUME NEW p \in Pairs,
             Connect(p[1], p[2]) \/ Disconnect(p[1], p[2]) \/ ConnectPeer(p[1], p[2])
      PROVE  Persisted(n, m)'
  BY <1>1, <1>7 DEF Connect, Disconnect, ConnectPeer
<1>8. ASSUME NEW k \in Nodes, NEW d \in Cards, Opened(k, d),
             UNCHANGED <<boot, peerCard, peerDisk, putFailed, crossed>>
      PROVE  Persisted(n, m)'
  <2>1. Persisted(n, m)
    BY <1>8 DEF PersistInv
  <2>2. \A x \in Slots : /\ Stores(x, n, m)' <=> Stores(x, n, m)
                         /\ Stores(x, n, m) => Held(x, n)' = Held(x, n)
    BY <1>8, OpenedStores
  <2> QED
    BY <1>8, <2>1, <2>2, PersistFrame
<1>9. ASSUME NEW p \in Pairs, Greet(p[1], p[2])
      PROVE  Persisted(n, m)'
  <2>1. CASE card[p[1]] = NoCard
    BY <1>1, <1>9, <2>1 DEF Greet
  <2>2. CASE card[p[1]] # NoCard
    <3>1. p[1] \in Nodes /\ card[p[1]] \in Cards /\ Opened(p[1], card[p[1]])
      BY <1>9, <2>2, GreetOpens
    <3>2. UNCHANGED <<boot, peerCard, peerDisk, putFailed, crossed>>
      BY <1>9 DEF Greet
    <3> QED
      BY <1>8, <3>1, <3>2
  <2> QED
    BY <2>1, <2>2
<1>10. ASSUME NEW c \in Calls, NEW put \in BOOLEAN, call[c] # IdleCall, SetSelfCard(c, put)
       PROVE  Persisted(n, m)'
  <2>1. /\ UNCHANGED <<boot, peerCard, peerDisk, slot, crossed>>
        /\ putFailed \subseteq putFailed'
    BY <1>10 DEF SetSelfCard
  <2> QED
    BY <1>1, <2>1
<1>11. ASSUME NEW c \in Calls, call[c] # IdleCall, Push(c)
       PROVE  Persisted(n, m)'
  <2>1. UNCHANGED <<boot, peerCard, peerDisk, putFailed, crossed>>
    BY <1>11 DEF Push
  <2> QED
    BY <1>8, <1>11, <2>1, PushOpens
<1>12. ASSUME NEW x \in Slots, NEW b \in BOOLEAN, ExchangeStep(x, b)
       PROVE  Persisted(n, m)'
  BY <1>12, ExchangePersist
<1>13. CASE UNCHANGED vars
  BY <1>1, <1>13 DEF vars
<1> QED
  BY <1>2, <1>3, <1>4, <1>5, <1>6, <1>7, <1>9, <1>10, <1>11, <1>12, <1>13 DEF Next, ExchangeStep

LEMMA PersistInit == Init => ReadyInv /\ PersistInv
BY DEF Init, ReadyInv, PersistInv

\* SetPeerCard writes memory and store in two steps; the two agree whenever nothing is
\* under way, unless two exchanges with the same peer overlapped or the store failed, and
\* the next exchange alone, or a restart, repairs the former (host.go: SetPeerCard,
\* RecoverCards).
THEOREM PeerCardPersistedUnlessCrossedCorrect == Spec => []PeerCardPersistedUnlessCrossed
<1>1. RunInv /\ ReadyInv /\ PersistInv /\ [Next]_vars => (RunInv /\ ReadyInv /\ PersistInv)'
  BY RunStep, ReadyStep, PersistStep
<1>2. PersistInv => PeerCardPersistedUnlessCrossed
  BY DEF PersistInv, Persisted, Stores, PeerCardPersistedUnlessCrossed, Quiet
<1> QED
  BY <1>1, <1>2, RunInit, PersistInit, PTL DEF Spec
=============================================================================

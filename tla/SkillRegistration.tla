------------------------- MODULE SkillRegistration -------------------------
(***************************************************************************)
(* How a daemon announces its skills.  Three seconds after the start a     *)
(* goroutine of main registers the skills of the agent card, once, with    *)
(* every discovery provider (composite_discovery.go): first with all relay *)
(* registries in parallel (multi_registry.go), then with the DHT           *)
(* (dht_discovery.go), which announces them again from time to time.  When *)
(* a signal arrives main unregisters them the same way, whatever the       *)
(* goroutine is doing, and exits.                                          *)
(*                                                                         *)
(* A registry is external: a request on its way is applied when it arrives *)
(* or is lost, also after its caller has given up or exited.  DHT records  *)
(* are external too: they expire when they are not announced again.        *)
(***************************************************************************)
EXTENDS Naturals, FiniteSets

CONSTANTS
    Registries,  \* relay registries
    Dht,         \* the DHT, as a provider
    MaxLoss      \* bound: registry requests and DHT announcements that fail

Providers == Registries \cup {Dht}

ASSUME ConstAssumption == Dht \notin Registries /\ MaxLoss \in Nat

VARIABLES
    skills,      \* the local card has skills
    main,        \* "up", "unregistering", "closing", "down"
    task,        \* the goroutine: "sleeping", "registries", "dht", "done"
    register,    \* register[r]: "none", "sent", "ok" or "error"
    unregister,  \* unregister[r]: the same for the call of the shutdown
    wire,        \* requests on their way to the registries
    localSkills, \* the DHT provider's record of the skills
    providing,   \* reprovideLoop is in a pass, and holds the lock of the DHT provider
    listed,      \* listed[r]: provider r lists the node
    losses,      \* failures so far
    \* history
    settled      \* the goroutine was through when the shutdown began

registrationVars ==
    <<skills, main, task, register, unregister, wire, localSkills, providing, listed, losses, settled>>

RegistrationInit ==
    /\ skills = FALSE
    /\ main = "up" /\ task = "sleeping"
    /\ register = [r \in Registries |-> "none"]
    /\ unregister = [r \in Registries |-> "none"]
    /\ wire = {}
    /\ localSkills = FALSE /\ providing = FALSE
    /\ listed = [r \in Providers |-> FALSE]
    /\ losses = 0
    /\ settled = FALSE

Alive == main # "down"

\* SetAgentCard, or RegisterProxySkill, or the card recovered from the store.
CardGetsSkills ==
    /\ Alive /\ ~skills
    /\ skills' = TRUE
    /\ UNCHANGED <<main, task, register, unregister, wire, localSkills, providing, listed, losses, settled>>

-----------------------------------------------------------------------------
(* The goroutine *)

\* Mutant: the request goes to one registry and all are waited for.
WakeUp_FirstOnly ==
    /\ Alive /\ task = "sleeping"
    /\ IF skills THEN LET r == CHOOSE x \in Registries : TRUE
                      IN  /\ register' = [x \in Registries |-> "sent"]
                          /\ wire' = wire \cup {<<"register", r>>}
                          /\ task' = "registries"
                 ELSE task' = "done" /\ UNCHANGED <<register, wire>>
    /\ UNCHANGED <<skills, main, unregister, localSkills, listed, losses, providing, settled>>

\* The three seconds are over: without skills there is nothing to do, ever; with
\* skills MultiRegistryDiscovery.RegisterSkills asks every registry.
WakeUp ==
    /\ Alive /\ task = "sleeping"
    /\ IF skills THEN /\ register' = [r \in Registries |-> "sent"]
                      /\ wire' = wire \cup ({"register"} \X Registries)
                      /\ task' = "registries"
                 ELSE task' = "done" /\ UNCHANGED <<register, wire>>
    /\ UNCHANGED <<skills, main, unregister, localSkills, listed, losses, providing, settled>>

\* The context of the goroutine is canceled while registry r has not answered.
RegisterCanceled(r) ==
    /\ main = "closing" /\ register[r] = "sent"
    /\ register' = [register EXCEPT ![r] = "error"]
    /\ UNCHANGED <<skills, main, task, unregister, wire, localSkills, providing, listed, losses, settled>>

\* wg.Wait is over; the outcome of the registries does not matter to the next
\* provider.  DHTDiscovery.RegisterSkills notes the skills before it announces them.
RegistriesDone ==
    /\ Alive /\ task = "registries"
    /\ \A r \in Registries : register[r] # "sent"
    /\ ~providing
    /\ localSkills' = TRUE
    /\ task' = "dht"
    /\ UNCHANGED <<skills, main, register, unregister, wire, listed, losses, providing, settled>>

\* dht.Provide succeeds, or fails, by itself or because its context ends.
Announced(ok, canceled) ==
    \/ /\ ok /\ ~canceled
       /\ listed' = [listed EXCEPT ![Dht] = TRUE]
       /\ UNCHANGED losses
    \/ /\ ~ok
       /\ canceled \/ losses < MaxLoss
       /\ losses' = IF canceled THEN losses ELSE losses + 1
       /\ UNCHANGED listed

\* The first announcement; RegisterSkills returns either way.
Provide(ok) ==
    /\ Alive /\ task = "dht"
    /\ Announced(ok, main = "closing")
    /\ task' = "done"
    /\ UNCHANGED <<skills, main, register, unregister, wire, localSkills, providing, settled>>

\* RegisterSkills or UnregisterSkills asks for the DHT provider's lock.  A writer that
\* waits goes before the next reader.
WriterWaits ==
    \/ task = "registries" /\ \A r \in Registries : register[r] # "sent"
    \/ main = "unregistering" /\ \A r \in Registries : unregister[r] # "sent"

\* Mutant: only skills that are listed are announced again.
Reprovide_Listed ==
    /\ Alive /\ localSkills /\ ~providing /\ ~WriterWaits /\ listed[Dht]
    /\ providing' = TRUE
    /\ UNCHANGED <<skills, main, task, register, unregister, wire, localSkills, listed, losses, settled>>

\* reprovideLoop's ticker: a pass over the skills, under a read lock that it keeps while
\* it talks to the DHT.  A pass without skills is over at once.
Reprovide ==
    /\ Alive /\ localSkills /\ ~providing /\ ~WriterWaits
    /\ providing' = TRUE
    /\ UNCHANGED <<skills, main, task, register, unregister, wire, localSkills, listed, losses, settled>>

\* Mutant: the lock is not released.
Reprovided_KeepsLock(ok) ==
    /\ Alive /\ providing
    /\ Announced(ok, main = "closing")
    /\ UNCHANGED <<skills, main, task, register, unregister, wire, localSkills, providing, settled>>

\* Provide has succeeded, failed, or used up its 30 seconds.
Reprovided(ok) ==
    /\ Alive /\ providing
    /\ Announced(ok, main = "closing")
    /\ providing' = FALSE
    /\ UNCHANGED <<skills, main, task, register, unregister, wire, localSkills, settled>>

-----------------------------------------------------------------------------
(* Shutdown *)

\* Mutant: only one registry is told, and the others count as told.
Shutdown_OnlyFirst ==
    /\ main = "up"
    /\ main' = "unregistering"
    /\ LET r == CHOOSE x \in Registries : TRUE
       IN  /\ unregister' = [x \in Registries |-> IF x = r THEN "sent" ELSE "ok"]
           /\ wire' = wire \cup {<<"unregister", r>>}
    /\ settled' = (task = "done" /\ wire = {})
    /\ UNCHANGED <<skills, task, register, localSkills, listed, losses, providing>>

\* A signal: UnregisterSkills asks every registry, under a timeout of 5 seconds.
Shutdown ==
    /\ main = "up"
    /\ main' = "unregistering"
    /\ unregister' = [r \in Registries |-> "sent"]
    /\ wire' = wire \cup ({"unregister"} \X Registries)
    /\ settled' = (task = "done" /\ wire = {})
    /\ UNCHANGED <<skills, task, register, localSkills, listed, losses, providing>>

\* The 5 seconds are over before registry r has answered.
UnregisterTimeout(r) ==
    /\ main = "unregistering" /\ unregister[r] = "sent"
    /\ unregister' = [unregister EXCEPT ![r] = "error"]
    /\ UNCHANGED <<skills, main, task, register, wire, localSkills, providing, listed, losses, settled>>

\* The registries have answered or timed out; the DHT provider, once it gets its lock,
\* forgets the skills and leaves the record in the DHT to expire.  The 5 seconds do not
\* count for the lock.  Then main cancels the daemon's context.
UnregisterDht ==
    /\ main = "unregistering"
    /\ \A r \in Registries : unregister[r] # "sent"
    /\ ~providing
    /\ localSkills' = FALSE
    /\ main' = "closing"
    /\ UNCHANGED <<skills, task, register, unregister, wire, providing, listed, losses, settled>>

\* anycastRtr.Close waits for reprovideLoop, at most 10 seconds, and main returns: the
\* process is gone, its requests on the wire are not.
Exit ==
    /\ main = "closing"
    /\ main' = "down" /\ providing' = FALSE
    /\ UNCHANGED <<skills, task, register, unregister, wire, localSkills, listed, losses, settled>>

-----------------------------------------------------------------------------
(* The registries and the DHT (external) *)

\* A call that waits for its answer gets it.
Answered(calls, r, answer) == [calls EXCEPT ![r] = IF @ = "sent" THEN answer ELSE @]

\* A request arrives, is applied and answered.
Apply(kind, r) ==
    /\ <<kind, r>> \in wire
    /\ wire' = wire \ {<<kind, r>>}
    /\ listed' = [listed EXCEPT ![r] = kind = "register"]
    /\ register' = IF kind = "register" THEN Answered(register, r, "ok") ELSE register
    /\ unregister' = IF kind = "unregister" THEN Answered(unregister, r, "ok") ELSE unregister
    /\ UNCHANGED <<skills, main, task, localSkills, losses, providing, settled>>

\* A request is lost or refused.
Fail(kind, r) ==
    /\ <<kind, r>> \in wire /\ losses < MaxLoss
    /\ losses' = losses + 1
    /\ wire' = wire \ {<<kind, r>>}
    /\ register' = IF kind = "register" THEN Answered(register, r, "error") ELSE register
    /\ unregister' = IF kind = "unregister" THEN Answered(unregister, r, "error") ELSE unregister
    /\ UNCHANGED <<skills, main, task, localSkills, listed, providing, settled>>

\* The DHT record expires.
Expire ==
    /\ listed[Dht]
    /\ ~(Alive /\ localSkills) \/ losses < MaxLoss
    /\ losses' = IF Alive /\ localSkills THEN losses + 1 ELSE losses
    /\ listed' = [listed EXCEPT ![Dht] = FALSE]
    /\ UNCHANGED <<skills, main, task, register, unregister, wire, localSkills, providing, settled>>

RegistrationNext ==
    \/ CardGetsSkills
    \/ WakeUp \/ RegistriesDone \/ Reprovide
    \/ \E ok \in BOOLEAN : Provide(ok) \/ Reprovided(ok)
    \/ Shutdown \/ UnregisterDht \/ Exit
    \/ \E r \in Registries : UnregisterTimeout(r) \/ RegisterCanceled(r)
    \/ \E r \in Registries, kind \in {"register", "unregister"} : Apply(kind, r) \/ Fail(kind, r)
    \/ Expire

RegistrationSpec == RegistrationInit /\ [][RegistrationNext]_registrationVars

\* The goroutines run, the reprovide ticker ticks, an announcement ends within its 30
\* seconds, and a request on the wire arrives or is lost.
RegistrationFairSpec ==
    /\ RegistrationSpec
    /\ WF_registrationVars(WakeUp) /\ WF_registrationVars(RegistriesDone)
    /\ WF_registrationVars(\E ok \in BOOLEAN : Provide(ok))
    /\ WF_registrationVars(Reprovide) /\ WF_registrationVars(\E ok \in BOOLEAN : Reprovided(ok))
    /\ WF_registrationVars(UnregisterDht) /\ WF_registrationVars(Exit)
    /\ \A r \in Registries, kind \in {"register", "unregister"} :
            WF_registrationVars(Apply(kind, r) \/ Fail(kind, r))

-----------------------------------------------------------------------------
(* Properties *)

\* Types; a call waits only while its request is on the wire.
RegistrationTypeOK ==
    /\ skills \in BOOLEAN /\ localSkills \in BOOLEAN /\ providing \in BOOLEAN /\ settled \in BOOLEAN
    /\ main \in {"up", "unregistering", "closing", "down"}
    /\ task \in {"sleeping", "registries", "dht", "done"}
    /\ register \in [Registries -> {"none", "sent", "ok", "error"}]
    /\ unregister \in [Registries -> {"none", "sent", "ok", "error"}]
    /\ wire \subseteq {"register", "unregister"} \X Registries
    /\ \A r \in Registries : /\ register[r] = "sent" => <<"register", r>> \in wire
                             /\ unregister[r] = "sent" => <<"unregister", r>> \in wire
    /\ listed \in [Providers -> BOOLEAN]
    /\ losses \in 0..MaxLoss

\* Nothing of the daemon is under way at any registry any more.
Gone == main = "down" /\ wire = {}

\* If the goroutine is through when the signal comes, a registry that has answered
\* lists the node no longer once it is down (main.go:644-652).
SettledExitIsClean ==
    settled /\ Gone
        => \A r \in Registries : unregister[r] = "ok" => ~listed[r]

\* A card that is set before the goroutine wakes up gets listed by every provider
\* that does not fail, unless the daemon is told to stop (main.go:609-630).
CardInTimeIsListed ==
    (skills /\ task = "sleeping" /\ main = "up")
        ~> (main # "up" \/ losses > 0 \/ \A r \in Providers : listed[r])

\* While the daemon is up, skills that the DHT does not list are announced again,
\* also when their first announcement failed (dht_discovery.go:225-274).
DhtListsAgain ==
    (localSkills /\ main = "up") ~> (listed[Dht] \/ main # "up")

\* The shutdown gets past UnregisterSkills, though the DHT provider's lock may be held
\* while the reprovide loop talks to the DHT and the registries may not answer
\* (main.go:645-651, dht_discovery.go:188-206, 236-270).
UnregisterEnds == main = "unregistering" ~> main = "down"

\* "v0.2: Unregister skills on shutdown." (main.go:644)
\* Not what the code does: see "Disagreements" in README.md.
UnregisteredOnShutdown ==
    Gone => \A r \in Registries : unregister[r] = "ok" => ~listed[r]

\* "v0.2: Auto-register Skills with Relay Registry" (main.go:608): skills that the
\* card has are registered sooner or later.
\* Not what the code does: see "Disagreements" in README.md.
SkillsAutoRegistered ==
    (skills /\ main = "up") ~> (main # "up" \/ losses > 0 \/ \A r \in Registries : listed[r])
=============================================================================

---------------------------- MODULE AtLeastOnce ----------------------------
(***************************************************************************)
(* What the delivery of envelopes promises to the code that sends them:    *)
(* an envelope that was accepted is held for the receiver or parked until  *)
(* the peer connects, until it is delivered or given up; it is delivered   *)
(* again only when the receiver no longer remembers it; and it is          *)
(* confirmed only after it was delivered.  Giving up is final for the      *)
(* sender, though a copy that is still on its way may arrive.              *)
(***************************************************************************)
CONSTANT Msgs

VARIABLES
    standing,    \* standing[m]: "new", "held", "parked", "given up" or "delivered"
    remembered,  \* envelopes the receiver would recognise
    confirmed    \* envelopes whose delivery the sender knows of

vars == <<standing, remembered, confirmed>>

\* Some envelopes may have been given up before.
Init ==
    /\ standing   \in [Msgs -> {"new", "given up"}]
    /\ remembered = {}
    /\ confirmed  = {}

\* A new envelope is accepted, or refused for good.
Accept(m, as) ==
    /\ standing[m] = "new" /\ as \in {"held", "parked", "given up"}
    /\ standing' = [standing EXCEPT ![m] = as]
    /\ UNCHANGED <<remembered, confirmed>>

Park(m) ==
    /\ standing[m] = "held"
    /\ standing' = [standing EXCEPT ![m] = "parked"]
    /\ UNCHANGED <<remembered, confirmed>>

Unpark(m) ==
    /\ standing[m] = "parked"
    /\ standing' = [standing EXCEPT ![m] = "held"]
    /\ UNCHANGED <<remembered, confirmed>>

GiveUp(some) ==
    /\ \A m \in some : standing[m] \in {"held", "parked"}
    /\ standing' = [m \in Msgs |-> IF m \in some THEN "given up" ELSE standing[m]]
    /\ UNCHANGED <<remembered, confirmed>>

\* The handler runs; to remember m the receiver may have to forget others.
Deliver(m, old) ==
    /\ standing[m] # "new" /\ m \notin remembered
    /\ standing' = [standing EXCEPT ![m] = "delivered"]
    /\ remembered' = (remembered \ old) \cup {m}
    /\ UNCHANGED confirmed

Forget ==
    /\ remembered' = {}
    /\ UNCHANGED <<standing, confirmed>>

Confirm(m) ==
    /\ standing[m] = "delivered"
    /\ confirmed' = confirmed \cup {m}
    /\ UNCHANGED <<standing, remembered>>

Next ==
    \/ \E m \in Msgs :
          \/ \E as \in {"held", "parked", "given up"} : Accept(m, as)
          \/ Park(m) \/ Unpark(m)
          \/ \E old \in SUBSET remembered : Deliver(m, old)
          \/ Confirm(m)
    \/ \E some \in SUBSET Msgs : GiveUp(some)
    \/ Forget

Spec == Init /\ [][Next]_vars

\* Nothing is held for ever: it is parked, given up or delivered.
Settles == \A m \in Msgs : standing[m] = "held" ~> standing[m] \in {"parked", "given up", "delivered"}
=============================================================================

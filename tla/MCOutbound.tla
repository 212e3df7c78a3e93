---------------------------- MODULE MCOutbound ----------------------------
(* TLC instances of Outbound. *)
EXTENDS Outbound

CONSTANTS r1, r2, r3

\* r3 goes to an HTTP agent, the others to agents on NATS.
Targets == [r \in Requests |-> IF r = r3 THEN "http" ELSE "nats"]
All     == {"acl", "rate", "audit"}
=============================================================================

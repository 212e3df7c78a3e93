----------------------------- MODULE MCAnycast -----------------------------
(* TLC instances of Anycast. *)
EXTENDS Anycast, TLC

CONSTANTS me, p1, p2, relay, dht, q1, q2

TwoPeers     == {me, p1}
ThreePeers   == {me, p1, p2}
MCProviders  == {relay, dht}
MCDht        == {dht}
OneRequest   == {q1}
TwoRequests  == {q1, q2}

Symmetry == Permutations({q1, q2})
=============================================================================

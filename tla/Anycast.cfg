SPECIFICATION AnycastSpec
CONSTANTS
    me = me  p1 = p1  p2 = p2  relay = relay  dht = dht  q1 = q1  q2 = q2
    Peers <- TwoPeers
    Self = me
    Providers <- MCProviders
    Dht <- MCDht
    Requests <- TwoRequests
    NoPeer = NoPeer
    TTL = 1
    MaxQuery = 1
SYMMETRY Symmetry
PROPERTY RouteIsRecent

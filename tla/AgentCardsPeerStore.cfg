\* Two exchanges with the same peer, and the store.
SPECIFICATION Spec
CONSTANTS
    a = a
    b = b
    t1 = t1
    Nodes = {a, b}
    FaultyStores = {a}
    Tools <- NoTools
    Calls = {c1}
    Slots = {x1, x2}
    NoCard = NoCard
    MaxRev <- TwiceA
    MaxBoots <- Once
    MaxLoad = 5
SYMMETRY Alike
INVARIANTS
    PeerCardPersisted
CHECK_DEADLOCK FALSE

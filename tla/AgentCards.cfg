\* Cards while exchanges, SetAgentCard calls, failures and a restart interleave.
SPECIFICATION Spec
CONSTANTS
    a = a
    b = b
    t1 = t1
    Nodes = {a, b}
    FaultyStores = {a}
    Tools <- OneTool
    Calls = {c1, c2}
    Slots = {x1, x2}
    NoCard = NoCard
    MaxRev <- TwiceA
    MaxBoots <- MoreA
    MaxLoad = 4
SYMMETRY Alike
INVARIANTS
    CardReachesPeer
    SelfCardPersistedUnlessOverlapped
    PeerCardPersistedUnlessCrossed
CHECK_DEADLOCK FALSE

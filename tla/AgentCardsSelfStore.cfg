\* Two SetAgentCard calls at once.
SPECIFICATION Spec
CONSTANTS
    a = a
    b = b
    t1 = t1
    Nodes = {a, b}
    FaultyStores = {a}
    Tools <- NoTools
    Calls = {c1, c2}
    Slots = {x1}
    NoCard = NoCard
    MaxRev <- TwiceA
    MaxBoots <- Once
    MaxLoad = 5
SYMMETRY Alike
INVARIANTS
    SelfCardPersisted
CHECK_DEADLOCK FALSE

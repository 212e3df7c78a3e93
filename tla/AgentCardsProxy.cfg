\* A daemon with an MCP proxy that starts twice.
SPECIFICATION Spec
CONSTANTS
    a = a
    b = b
    t1 = t1
    Nodes = {a, b}
    FaultyStores = {a}
    Tools <- OneTool
    Calls = {c1}
    Slots = {x1}
    NoCard = NoCard
    MaxRev <- None
    MaxBoots <- MoreB
    MaxLoad = 5
SYMMETRY Alike
INVARIANTS
    SkillsListedOnce
CHECK_DEADLOCK FALSE

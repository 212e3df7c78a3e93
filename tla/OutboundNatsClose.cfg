\* A message arrives while the target shuts down.
SPECIFICATION OutboundSpec
CONSTANTS
    r1 = r1
    r2 = r2
    r3 = r3
    Requests = {r1}
    Target <- Targets
    Denied = {r4}
    Policies <- All
    OwnBurst = 1
    MaxRefills = 1
    InCap = 1
INVARIANTS
    NoSendOnClosed
CHECK_DEADLOCK FALSE

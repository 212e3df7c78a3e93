\* Four calls, one of them denied, a limiter with one token, and both shutdowns.
SPECIFICATION OutboundSpec
CONSTANTS
    r1 = r1
    r2 = r2
    r3 = r3
    Requests = {r1, r2, r3, r4}
    Target <- Targets
    Denied = {r4}
    Policies <- All
    OwnBurst = 1
    MaxRefills = 1
    InCap = 1
INVARIANTS
    OutboundTypeOK
    WithinRate
    LoggedOnce
    TrackedIsPublished
CHECK_DEADLOCK FALSE

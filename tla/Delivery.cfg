\* Two messages, a dedup cache for one, one retry, fair scheduling; one fault, or one message and two.
SPECIFICATION MCFairSpec
CONSTANTS
    m1 = m1
    m2 = m2
    Msgs <- TwoMsgs
    MaxRetries = 1
    DedupSize = 1
    MaxCopies = 2
    MaxFaults = 2
CHECK_DEADLOCK FALSE
INVARIANTS
    NoSilentLoss
    AckMeansHandled
    HandledOnceWhileRemembered
PROPERTIES
    RetriesEnd
    Settled
    ImplementsAtLeastOnce

\* The originator cancels, nothing lost.
SPECIFICATION FairSpec
CONSTANTS
    a = a
    p = p
    None = None
    Tasks <- OnlyAgent
    Proxied <- Nobody
    MaxReg = 1
    MaxMsgs = 1
    MaxLoss = 0
CHECK_DEADLOCK FALSE
PROPERTY
    CancelReachesWorker

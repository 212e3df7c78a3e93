\* A proxied task, nothing lost: does the result arrive?
SPECIFICATION FairSpec
CONSTANTS
    a = a
    p = p
    None = None
    Tasks <- OnlyProxy
    Proxied <- OnlyProxy
    MaxReg = 1
    MaxMsgs = 1
    MaxLoss = 0
CHECK_DEADLOCK FALSE
PROPERTY
    ResultReachesOriginator

\* An agent's task and a proxied one, delivered twice, one envelope lost.
SPECIFICATION Spec
CONSTANTS
    a = a
    p = p
    None = None
    Tasks <- Both
    Proxied <- OnlyProxy
    MaxReg = 2
    MaxMsgs = 1
    MaxLoss = 1
CHECK_DEADLOCK FALSE
INVARIANTS
    OriginatorFollows
    OriginatorBehind
    ApartOnlyByOvertaking

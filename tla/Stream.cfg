SPECIFICATION Spec
CONSTANTS
    p1 = p1  p2 = p2  u1 = u1  u2 = u2
    Senders <- TwoSenders
    Subs <- TwoSubs
    NoSession = NoSession
    MaxSessions = 3
    MaxArtifacts = 1
    MaxChunks = 1
    ChanCap = 2
SYMMETRY FullSymmetry
INVARIANTS NoSendOnClosed FirstArtifactComplete
CHECK_DEADLOCK FALSE

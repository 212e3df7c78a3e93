\* The handshake and two tool calls; the subprocess may repeat one answer.
SPECIFICATION FairSpec
CONSTANTS
    c1 = c1  c2 = c2
    ToolCalls <- TwoCalls
    NoCall = NoCall
    PipeCap = 1
    OutCap = 2
    MaxRepeats = 1
INVARIANTS
    OwnAnswer
    NothingLeftPending
    ReaderNeverBlocks
    TurnedAwayMeansGone
PROPERTIES
    ToolCallReturns
    CloseTerminates
CHECK_DEADLOCK FALSE

\* Two ANP calls with room for one, a call by URL, to the HTTP bridge or to another
\* agent, and the shutdown.
SPECIFICATION BridgesFairSpec
CONSTANTS
    r1 = r1
    r2 = r2
    c1 = c1
    Requests = {r1, r2}
    QueueCap = 1
    Calls = {c1}
    Message <- MCMessage
    AgentMessage <- MCAgentMessage
    MaxFollowed = 1
    AgentStatuses = {"input-required", "accepted"}
INVARIANTS
    NoSendOnClosed
    WorkerNeverBlocks
    ResultIsTheTask
    BridgedTaskAccounted
PROPERTIES
    CallAnswered
    ShutdownEnds
CHECK_DEADLOCK FALSE

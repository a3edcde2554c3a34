SPECIFICATION BridgeSpec
CONSTANTS
    Streams = 1
    Chunks = 2
    QueueLimit = 512
    HonoursCancel = FALSE
INVARIANT LoopNeverWaitsForWaiter
CHECK_DEADLOCK FALSE

SPECIFICATION FairSpec
CONSTANTS
    MaxFrames = 3
    QueueSize = 1
    BufferSize = 1
    MaxAttempts = 2
    Connections = {1, 2, 3, 4}
CHECK_DEADLOCK FALSE
INVARIANTS OffsetsTrue

SPECIFICATION Spec
CONSTANTS
    MaxFrames = 4
    QueueSize = 1
    BufferSize = 2
    MaxAttempts = 2
    Connections = {1, 2, 3, 4}
CHECK_DEADLOCK FALSE
INVARIANTS IInv

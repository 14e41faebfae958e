CONSTANTS
    Starters = {a1, a2}
    Stoppers = {b1, b2}
    Readers = {c1}
    QueueSize = 2
    BatchSize = 2
    MaxAttempts = 2
    MaxRooms = 2
    MaxEvents = 2
CHECK_DEADLOCK FALSE
SPECIFICATION Spec
INVARIANTS IInv

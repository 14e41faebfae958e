CONSTANTS
    Clients = {c1}
    Tasks = {t1, t2}
    Types = {"final_transcript"}
    QueueSize = 1
    MaxEvents = 2
    None = None
CHECK_DEADLOCK FALSE
SPECIFICATION FairSpec
PROPERTIES
    DroppedIsClosed

SPECIFICATION FairSpec
CONSTANTS
    Clients = {c1, c2}
    Tasks = {t1, t2}
    Types = {"final_transcript", "partial_transcript"}
    QueueSize = 1
    MaxEvents = 2
    None = None
CHECK_DEADLOCK FALSE
INVARIANTS IInv DeliveryHolds
PROPERTIES OnlyCoalesced NobodyHeldUp

SPECIFICATION FairSpec
CONSTANTS
    Clients = {c1}
    Tasks = {t1, t2}
    Types = {"final_transcript", "partial_transcript", "audio_level"}
    QueueSize = 3
    MaxEvents = 4
    None = None
CHECK_DEADLOCK FALSE
INVARIANTS DeliveryHolds
PROPERTIES OnlyCoalesced NobodyHeldUp

SPECIFICATION FairSpec
CONSTANTS
    MaxWindow = 6
    SeqnumInitial = 11
    Windows = {2, 4}
    ChunkCounts = {1, 2}
    MaxRequeued = 1
    MaxOvertaking = 1
    MaxChunks = 2
    MaxPings = 1
    Lossy = TRUE
PROPERTIES
    EverythingDelivered
    EverythingAcknowledged
CHECK_DEADLOCK FALSE

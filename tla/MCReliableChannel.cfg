SPECIFICATION Spec
CONSTANTS
    MaxWindow = 6
    SeqnumInitial = 10
    Windows = {2, 4}
    ChunkCounts = {1, 2}
    MaxRequeued = 1
    MaxOvertaking = 1
    MaxChunks = 7
    MaxPings = 1
    Lossy = FALSE
INVARIANTS
    TypeOK
    NothingForgotten
    AckHitsItsPacket
    CopyJudgedRightly
PROPERTIES
    ImplementsFifo
CHECK_DEADLOCK FALSE

SPECIFICATION Spec
CONSTANTS
    ann = ann
    bob = bob
    area = area
    edge = edge
    ann_far = ann_far
    NThreads = 2
    Pos <- Positions
    OverLimit <- BeyondEdge
    Peer <- Players
    PEER_ID_INEXISTENT = PEER_ID_INEXISTENT
    Request <- Far
    asks <- FarWishes
    m_qlimit_total = 2
    m_qlimit_diskonly = 2
    m_qlimit_generate = 1
    AskingIn <- Everywhere
    Failing = TRUE
    Stopping = TRUE
    None = None
INVARIANTS
    TypeOK
    QueuesMatchEntries
    QuotaExact
    RefcountExact
CHECK_DEADLOCK FALSE

SPECIFICATION Spec
CONSTANTS
    ann = ann
    bob = bob
    area = area
    edge = edge
    ann_far = ann_far
    NThreads = 2
    Pos <- Positions
    OverLimit <- Nowhere
    Peer <- Players
    PEER_ID_INEXISTENT = PEER_ID_INEXISTENT
    Request <- BothAreas
    asks <- BothAreasWishes
    m_qlimit_total = 2
    m_qlimit_diskonly = 2
    m_qlimit_generate = 1
    AskingIn <- InCallbacks
    Failing = FALSE
    Stopping = TRUE
    None = None
INVARIANTS
    NoLockCycle
CHECK_DEADLOCK FALSE

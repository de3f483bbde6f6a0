SPECIFICATION FairSpec
CONSTANTS
    near = near
    far = far
    n1 = n1
    Block <- Both
    Order <- NearThenFar
    Dist <- Distances
    full_d_max = 3
    Node <- OneNode
    Editable <- OnlyNear
    Hideable <- OnlyFar
    Preloaded <- OnlyNear
    m_max_simul_sends = 2
    LIMITED_MAX_SIMULTANEOUS_BLOCK_SENDS = 0
    BLOCK_SEND_DISABLE_LIMITS_MAX_D = 1
    EmergeLimit = 1
    max_blocks_to_send = 1
    MaxTroubles = 2
    MaxOwed = 2
    None = None
INVARIANTS
    TypeOK
    SlotsComeBack
    StaleOnlyIfCrossed
PROPERTY VisibleArrives

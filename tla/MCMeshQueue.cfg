SPECIFICATION FairSpec
CONSTANTS
    b1 = b1
    b2 = b2
    w1 = w1
    w2 = w2
    Block <- ABlocks
    Order <- InOrderAB
    Neighbors <- SideBySide
    Worker <- TwoWorkers
    MaxChanges = 2
    None = None
INVARIANTS
    TypeOK
    RefsExact
    ResultsInOrder
    StaleOnlyIfOvertaken
PROPERTY AcksSpec
PROPERTY EveryBlockAcknowledged

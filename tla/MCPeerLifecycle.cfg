SPECIFICATION FairSpec
CONSTANTS
    first = first
    second = second
    send = send
    receive = receive
    Peer <- Peers
    Thread <- Threads
    Level <- Levels
    id <- SameId
    None = None
INVARIANTS
    TypeOK
    NoUseAfterDelete
    DeletedExactlyOnce
    ToldInOrder
PROPERTIES
    DroppedIsDeleted
CHECK_DEADLOCK FALSE

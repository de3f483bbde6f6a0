SPECIFICATION FairSpec
CONSTANTS
    ann = ann
    bob = bob
    i2 = i2
    i3 = i3
    Client <- Alone
    Id <- TwoIds
    MaxReliables = 1
    MaxTimeouts = 0
    Lossy = TRUE
    None = None
INVARIANTS
    OnePeerPerAddress
    HeadersFixed
PROPERTIES
    Joined

SPECIFICATION Spec
CONSTANTS
    ann = ann
    bob = bob
    i2 = i2
    i3 = i3
    Client <- Alone
    Id <- TwoIds
    MaxReliables = 2
    MaxTimeouts = 1
    Lossy = FALSE
    None = None
INVARIANTS
    DeliveryForced

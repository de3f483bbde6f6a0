SPECIFICATION Spec
CONSTANTS
    ann = ann
    bob = bob
    i2 = i2
    i3 = i3
    Client <- Both
    Id <- OneId
    MaxReliables = 1
    MaxTimeouts = 1
    Lossy = FALSE
    None = None
SYMMETRY Symmetry
INVARIANTS
    TypeOK
    OpenMeansAgreed
    AckedIsReceived

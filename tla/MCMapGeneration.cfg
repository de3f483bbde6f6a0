SPECIFICATION Spec
CONSTANTS
    a = a
    b = b
    t1 = t1
    t2 = t2
    solid = solid
    ground = ground
    EThread <- Threads
    Pos <- Blocks
    Chunk <- Chunks
    chunk_of <- ContainingChunk
    full_area <- FullArea
    OverLimit <- Nowhere
    Edit <- Edits
    block_of <- BlockOfEdit
    Replaceable <- Ground
    None = None
SYMMETRY ThreadSymmetry
INVARIANTS
    TypeOK
    OneMakerPerChunk
    CleanMeansSaved
PROPERTIES
    GeneratedForGood
    EditsKept

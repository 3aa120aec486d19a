SPECIFICATION Spec
CONSTANTS
    a = a
    b = b
    NoImage = NoImage
    Images <- TwoFiles
    Chunks <- TwoChunks
    SlotChunks = 8
    SectorChunks = 4
    PadChunks = 1
    MaxPresses = 1
    Hasty = FALSE
    ReadFaults = FALSE
    PowerFails = TRUE
    LinkFaults = FALSE
CHECK_DEADLOCK FALSE
INVARIANTS
    AlwaysBoots

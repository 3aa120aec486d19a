SPECIFICATION Spec
CONSTANTS
    a = a
    b = b
    NoImage = NoImage
    Images <- TwoFiles
    Chunks <- TwoChunks
    SlotChunks = 8
    SectorChunks = 4
    PadChunks = 1
    MaxPresses = 2
    Hasty = TRUE
    ReadFaults = TRUE
    PowerFails = TRUE
    LinkFaults = TRUE
CHECK_DEADLOCK FALSE
INVARIANTS
    OnePacketPerPress
PROPERTIES
    OffersOnlyWhole
    ImplementsUpdates

SPECIFICATION Spec
CONSTANTS
    a = a
    b = b
    NoImage = NoImage
    Images <- TwoFiles
    Chunks <- TwoChunks
    SlotChunks = 8
    SectorChunks = 4
    PadChunks = 1
    MaxPresses = 2
    Hasty = TRUE
    ReadFaults = FALSE
    PowerFails = FALSE
    LinkFaults = FALSE
CHECK_DEADLOCK FALSE
PROPERTIES
    SuccessMeansDelivered

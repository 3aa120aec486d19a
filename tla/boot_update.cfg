SPECIFICATION FairSpec
CONSTANTS
    QueueSize = 3
    PageWords = 2
    NumPages = 3
    FileSizes <- WholeWordSizes
    ReadFaults = FALSE
INVARIANTS
    TypeOK
    StartsOnlyWhole
    Recoverable
    WaitsOnlyForFlash
PROPERTIES
    BufferHeld
    ImplementsImageSwap
    EventuallyStarts

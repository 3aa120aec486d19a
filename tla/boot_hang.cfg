SPECIFICATION FairSpec
CONSTANTS
    QueueSize = 3
    PageWords = 2
    NumPages = 3
    FileSizes <- ShortTailSizes
    ReadFaults = FALSE
PROPERTY EventuallyStarts
CHECK_DEADLOCK FALSE

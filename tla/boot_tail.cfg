SPECIFICATION Spec
CONSTANTS
    QueueSize = 3
    PageWords = 2
    NumPages = 3
    FileSizes <- OddSizes
    ReadFaults = FALSE
INVARIANT StoresWholeWords
CHECK_DEADLOCK FALSE

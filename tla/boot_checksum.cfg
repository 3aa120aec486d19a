SPECIFICATION Spec
CONSTANTS
    QueueSize = 3
    PageWords = 2
    NumPages = 3
    FileSizes <- WholeWordSizes
    ReadFaults = TRUE
PROPERTY StartsOnlyChecked

SPECIFICATION MCSpec
CONSTANTS
    ByteRange = 4
    StartCode = 3
    Opcode = 1
    lenMax = 2
    PacketData <- PacketContents
    MaxPackets <- PacketBounds
    BufferSize = 20
    ReplyData <- ReplyContents
    MaxReplies <- ReplyBounds
    Outstanding = 2
    fast = fast
    slow = slow
    Timer <- TwoTimers
    Interval <- Intervals
    CounterRange = 64
    QueueSlots = 2
    MaxLag = 2
    CallTicks = 3
    Late = 7
CHECK_DEADLOCK FALSE
INVARIANTS
    ProtocolsTypeOK
    StaysInBuffer
    Resynchronises
    InStep
    ListIsSchedule
    WillWake
PROPERTIES
    ImplementsPackets
    OnlySpoiledPacketsAreLost
    ImplementsReplies
    OnlySpoiledRepliesAreLost
    ImplementsPeriodicTimers

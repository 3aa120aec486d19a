SPECIFICATION MCSpec
CONSTANTS
    BufSize = 4
    PosRange = 8
    MaxRx = 9
    MaxTx = 6
    RxdDepth = 2
    Traffics <- AllTraffics
    TimeRange = 32
    TickTime = 3
    Delay = 9
    MaxTicksInPass = 2
    Timeout = {t1, t2}
    QueueSize = 2
    Burst = 4
    MaxTimeouts = 4
    MaxRequests = 2
CHECK_DEADLOCK FALSE
INVARIANTS
    LoopsTypeOK
    ReceiverArmed
    NothingStranded
    WakesForEvents
    NeverFull
PROPERTIES
    RxInOrder
    TxInOrder
    RxDelivered
    TxDelivered
    NeverEarly
    AtMostOneTickLate
    EventuallyRestarts
    ImplementsStream
    AllServed

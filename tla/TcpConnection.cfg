SPECIFICATION Spec
CONSTANTS
    LoopThread = loop
    Senders = {t1}
    Closers = {t1}
    NoMsg = NoMsg
    MaxSends = 2
    MaxLoopSends = 1
    MaxReceives = 1
    MsgLen = 2
    SendBuffer = 1
    HighWaterMark = 3
INVARIANTS
    TypeOK
    StreamIntegrity
    WriteInterest
    NoTruncation
    ClosedForGood
PROPERTIES
    StaleEventsIgnored
    DroppedAfterClose
CHECK_DEADLOCK FALSE

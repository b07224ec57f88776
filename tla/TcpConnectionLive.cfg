SPECIFICATION FairSpec
CONSTANTS
    LoopThread = loop
    Senders = {t1}
    Closers = {t1}
    NoMsg = NoMsg
    MaxSends = 1
    MaxLoopSends = 1
    MaxReceives = 1
    MsgLen = 2
    SendBuffer = 1
    HighWaterMark = 2
PROPERTIES
    OutputDrains
    GracefulShutdown
    PeerGoneIsNoticed
CHECK_DEADLOCK FALSE

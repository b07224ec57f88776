\* A thread that sends and then shuts down, while earlier output is buffered.
SPECIFICATION Spec
CONSTANTS
    LoopThread = loop
    Senders = {t1}
    Closers = {t1}
    NoMsg = NoMsg
    MaxSends = 1
    MaxLoopSends = 1
    MaxReceives = 1
    MsgLen = 2
    SendBuffer = 1
    HighWaterMark = 2
INVARIANT SentBeforeShutdown
CHECK_DEADLOCK FALSE

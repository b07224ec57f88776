SPECIFICATION Spec
CONSTANTS
    MaxThreads = 1
    MaxPicks = 1
INVARIANT LoopOutlivesUse
CHECK_DEADLOCK FALSE

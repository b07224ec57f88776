SPECIFICATION FairSpec
CONSTANTS
    MaxThreads = 2
    MaxPicks = 3
INVARIANTS
    TypeOK
    PublishedIsAlive
    Balanced
    UsableUntilQuit
    JoinedBeforeFreed
PROPERTIES
    StartReturns
    DestructorEnds
CHECK_DEADLOCK FALSE

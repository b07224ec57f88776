SPECIFICATION FairSpec
CONSTANTS
    Threads = {t1, t2}
    Functors = {f1, f2, f3}
    WakeupMax = 2
INVARIANTS
    TypeOK
    NoLostWakeup
    QuitWakesPoll
PROPERTIES
    ImplementsTaskQueue
    QueuedFunctorRuns
    QuitStopsLoop

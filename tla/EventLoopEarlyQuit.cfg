SPECIFICATION FairSpec
CONSTANTS
    Threads = {t1}
    Functors = {f1}
    WakeupMax = 2
PROPERTY EveryQuitStops

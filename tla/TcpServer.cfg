SPECIFICATION FairSpec
CONSTANTS
    MaxClients = 2
    Used = {1}
    MaxCalls = 1
    MaxThreads = 1
    MaxFds = 2
INVARIANTS
    TypeOK
    NoDanglingConnection
    RemovedForGood
    DestroyedOnce
    EndReported
PROPERTIES
    ImplementsSessions
    ClientsAreServed
    ServerStops

\* One client comes and goes.
SPECIFICATION Spec
CONSTANTS
    MaxClients = 1
    Used = {}
    MaxCalls = 1
    MaxThreads = 1
    MaxFds = 1
INVARIANT FdReleased

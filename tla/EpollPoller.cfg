SPECIFICATION FairSpec
CONSTANTS
    Channels = {c1, c2}
    Conditions <- SocketConditions
    kInitEventListSize = 1
INVARIANTS
    TypeOK
    AllViewsAgree
    ActiveStaysRegistered
PROPERTY ReadyIsServed

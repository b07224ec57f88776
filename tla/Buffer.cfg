SPECIFICATION Spec
CONSTANTS
    kCheapPrepend = 2
    kInitialSize = 3
    ExtraBuf = 2
    MaxLen = 3
    MaxBytes = 7
INVARIANT TypeOK
PROPERTIES
    ImplementsByteQueue
    GrowsOnlyWhenFull

SPECIFICATION Spec
CONSTANTS
    a = a
    b = b
    c = c
    Threads <- ThreeThreads
    Size = 1
    MaxReconnect = 2
    Escapes <- AllEscapes
    MaxOps = 1
    MaxRetry = 1
INVARIANTS
    TypeOK
    Exclusive
    NoSlotLost
    NoSleepWhileFree
PROPERTIES
    EveryOpEnds

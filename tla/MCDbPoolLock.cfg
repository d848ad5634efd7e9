SPECIFICATION Spec
CONSTANTS
    a = a
    b = b
    c = c
    Threads <- TwoThreads
    Size = 1
    MaxReconnect = 3
    Escapes <- NoEscapes
    MaxOps = 1
    MaxRetry = 0
PROPERTIES
    LockErrorIsRetried

SPECIFICATION Spec
CONSTANTS
    h1 = h1
    h2 = h2
    n1 = n1
    p1 = p1
    p2 = p2
    None = None
    Threads <- MCThreads
    Names <- MCNames
    Passwords <- MCPasswords
    PerSecond = 2
    ExpireTime = 2
    MaxAccounts = 2
    MaxTime = 4
    MaxRequests = 5
    MaxFaults = 1
INVARIANTS
    TypeOK
    SessionLasts
    LoginNeedsPassword
    SessionHasAccount
PROPERTIES
    RevokedIsRefused
SYMMETRY Sym
CHECK_DEADLOCK FALSE

SPECIFICATION Spec
CONSTANTS
    w1 = w1
    w2 = w2
    w3 = w3
    s1 = s1
    s2 = s2
    NoSub = NoSub
    Workers <- ThreeWorkers
    Subs <- TwoSubs
    Execs <- AnyExec
    MaxTests = 1
    MaxFaults = 2
INVARIANTS
    TypeOK
    EachMessageOnce
    StoredStatusIsJudged
PROPERTIES
    LossIsOvertaking
    ImplementsRecord
SYMMETRY Sym

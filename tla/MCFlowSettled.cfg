SPECIFICATION Spec
CONSTANTS
    w1 = w1
    w2 = w2
    w3 = w3
    s1 = s1
    s2 = s2
    NoSub = NoSub
    Workers <- TwoWorkers
    Subs <- TwoSubs
    Execs <- AnyExec
    MaxTests = 2
    MaxFaults = 0
INVARIANTS
    IdleIsSettled
PROPERTIES
    AcceptedIsSettled

SPECIFICATION Spec
CONSTANTS
    w1 = w1
    w2 = w2
    w3 = w3
    s1 = s1
    s2 = s2
    NoSub = NoSub
    Workers <- TwoWorkers
    Subs <- OneSub
    Execs <- AnyExec
    MaxTests = 1
    MaxFaults = 1
INVARIANTS
    ConsumerListens

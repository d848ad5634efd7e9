SPECIFICATION Spec
CONSTANTS
    w1 = w1
    w2 = w2
    w3 = w3
    c1 = c1
    c2 = c2
    loop = loop
    t1 = t1
    t2 = t2
    t3 = t3
    NoTask = NoTask
    Workers <- MCWorkers
    Callers <- MCCallers
    Tasks <- MCTasks
    Endless <- MCEndless
INVARIANTS
    TypeOK
    EachTaskOnce
    NoLostWakeup
    JoinedDrained
PROPERTIES
    ImplementsExecutor
    EveryTaskEnds
    DestructorReturns

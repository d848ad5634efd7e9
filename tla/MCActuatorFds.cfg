SPECIFICATION Spec
CONSTANTS
    a = a
    b = b
    Server = Server
    Judges <- TwoJudges
    Programs <- Kinds
    Cap = 1
    MaxInput = 1
    Output = 1
    MaxFaults = 0
INVARIANTS
    ChildHoldsItsOwn

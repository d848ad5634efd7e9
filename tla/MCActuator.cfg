SPECIFICATION Spec
CONSTANTS
    a = a
    b = b
    Server = Server
    Judges <- TwoJudges
    Programs <- Kinds
    Cap = 1
    MaxInput = 2
    Output = 2
    MaxFaults = 1
INVARIANTS
    TypeOK
    NoOrphan
    DescriptorsReturned
    OutputComplete
    StatusIsTrue
    ReadersAreFed
    NobodyHangs
PROPERTIES
    KillsItsChild
SYMMETRY Sym
CHECK_DEADLOCK FALSE

SPECIFICATION Spec
CONSTANTS
    h1 = h1
    h2 = h2
    w0 = w0
    w1 = w1
    w2 = w2
    Looper = w0
    Threads <- TwoThreads
    Workers <- ThreeWorkers
    Titles <- OneTitle
    Langs <- Cpp
    Compiled <- Cpp
    Tables <- AllTables
    Asked <- KBytes
    Word = 32
    Kilo = 4
    Slack = 1
    MaxInputs = 2
    Hosts <- AHost
    MaxFaults = 1
    MaxLate = 1
INVARIANTS
    TypeOK
    WaitingIsNewer
    ResultsNameTheirTest
    LimitsAsAsked
    LimitsAreStored
    SurvivesUse
    UsesAreLive
PROPERTIES
    ExitEnds

CONSTANTS
    MaxRequests = 4
    MaxHostRequests = 4
    MaxCallbacks = 2
    MaySpin = TRUE

SPECIFICATION FairSpec

INVARIANTS
    OwnAnswer
    InStep
    SleepIsAnswered

PROPERTIES
    RequestEnds
    BindingAccessEnds

CHECK_DEADLOCK FALSE

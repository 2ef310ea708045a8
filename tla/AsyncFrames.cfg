CONSTANTS
    Value = {v}
    Thenable = thenable
    Poisoned = poisoned
    Thrown = thrown
    CycleError = cycleError
    NoValue = null
    Exotic = {}
    MaxCalls = 4
    MaxFrames = 2
    MaxInputs = 1
    Overlap = FALSE

SPECIFICATION FairSpec

INVARIANTS
    AwaitDelivers
    NeverStranded
    CompletedRunsNothing

PROPERTIES
    CallsEnd

CHECK_DEADLOCK FALSE

CONSTANTS
    Value = {v}
    Thenable = thenable
    Poisoned = poisoned
    Thrown = thrown
    CycleError = cycleError
    NoValue = null
    Exotic = {thenable, poisoned}
    Uses = {"new Promise", "resolve", "reject", "Promise.resolve", "Promise.reject", "then", "finally", "drain"}
    LastUses = {"resolve"}
    MaxCalls = 4

SPECIFICATION FairSpec

INVARIANTS
    TypeOK
    NoReactionLost
    AdoptionFollowsInner
    FinallyPassesThrough
    UnhandledListExact

PROPERTIES
    ImplementsContract
    Terminates

CHECK_DEADLOCK FALSE

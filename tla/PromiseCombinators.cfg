CONSTANTS
    Value = {v}
    Thenable = thenable
    Poisoned = poisoned
    Thrown = thrown
    CycleError = cycleError
    NoValue = null
    Exotic = {thenable}
    MaxCalls = 3
    Methods = {"all", "allSettled", "any", "race"}
    MaxCombinators = 2
    MaxElements = 2
    MaxSubscribed = 3
    MaxInputs = 1
    NotIterable = notIterable

SPECIFICATION FairSpec

INVARIANTS
    FirstDecides
    CollectsInOrder

PROPERTIES
    SettlesWhenDue

CHECK_DEADLOCK FALSE

CONSTANTS
    Value = {v}
    Thenable = thenable
    Poisoned = poisoned
    Thrown = thrown
    CycleError = cycleError
    NoValue = null
    Exotic = {}
    Uses = {"Promise.resolve", "Promise.reject", "then"}
    LastUses = {"Promise.resolve", "Promise.reject", "then"}
    MaxCalls = 4

SPECIFICATION Spec

INVARIANTS
    NoFalseReport

CHECK_DEADLOCK FALSE

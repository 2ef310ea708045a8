CONSTANTS
    Value = {v}
    Thenable = thenable
    Poisoned = poisoned
    Thrown = thrown
    CycleError = cycleError
    NoValue = null
    Exotic = {}
    Uses = {"new Promise", "resolve", "reject"}
    LastUses = {"new Promise", "resolve", "reject"}
    MaxCalls = 4

SPECIFICATION Spec

INVARIANTS
    FirstSettleWins

CHECK_DEADLOCK FALSE

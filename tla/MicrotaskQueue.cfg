CONSTANTS
    Task = {a, b}
    NoTask = none
    InitialSlots = 2
    MaxSlots = 8
    MaxDepth = 2

SPECIFICATION FairSpec

INVARIANTS
    TypeOK
    LiveSlotsHoldJobs

PROPERTIES
    ImplementsFifo
    EventuallyDrained

CHECK_DEADLOCK FALSE

CONSTANTS
    Cap = 2
    Sizes = {1}
    All = all
    MaxBytes = 3
    MaxCalls = 4
    MaxTimers = 1
    MaxListeners = 2

SPECIFICATION FairSpec

INVARIANTS
    BytesInOrder
    EndIsLast
    ListenersAgree

PROPERTIES
    ClosedStreamEnds
    DestroyedExits

CHECK_DEADLOCK FALSE

CONSTANTS
    InitCap = 2
    Content = {0, 1, 4}
    Sliced = {}
    Value = {1, 2}
    Null = null
    MaxEntries = 4
    MaxIterators = 1
    ClearWhileWalking = FALSE

SPECIFICATION Spec

INVARIANTS
    TableSound
    ReadsAgree

PROPERTIES
    ImplementsOrderedMap

CONSTANTS
    InitCap = 2
    Content = {0, 1, 4}
    Sliced = {0}
    Value = {1, 2}
    Null = null
    MaxEntries = 4
    MaxIterators = 1
    ClearWhileWalking = FALSE

SPECIFICATION Spec

INVARIANT
    FindsByContent

CONSTANTS
    NSmall = 2
    NLarge = 2
    LargeShift = 5
    CtlBytes = 24
    RegionBytes = 72
    MaxRegionBytes = 64
    MaxRequest = 60
    Modulus = 128
    Skews = {4}
    MemBytes = 160
    Requests = {8, 28, 36, 61}
    CallocCounts = {2, 10}
    CallocSizes = {14}
    MaxLive = 3

SPECIFICATION Spec

INVARIANTS
    HeapSound
    ContentsKept
    FindsWhatFits

CONSTANTS
    Ms = 2
    Delays = {0, 1, 2}
    NaN = nan
    SleepModulus = 2
    MaxTimers = 2
    MaxJobs = 1
    MaxTime = 6

SPECIFICATION FairSpec

INVARIANTS
    TypeOK
    NeverEarly
    IdleMeansNothingPending
    SleepEndsInTime

PROPERTIES
    ClearedNeverFires
    TimersFire

CHECK_DEADLOCK FALSE

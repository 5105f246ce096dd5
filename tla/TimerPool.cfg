CONSTANTS
    Timers = {t1, t2}
    Period = 1
    MaxTime = 2
    MaxDue = 3
    MaxEntries = 3
SPECIFICATION PoolFairSpec
INVARIANT IndexInv
PROPERTY DueRuns
CHECK_DEADLOCK FALSE

CONSTANTS
    Stream <- MCStream
    First = 1
    HalfWindow = 3
SPECIFICATION RecvFairSpec
INVARIANTS InOrderOnce AckedIsKept
PROPERTY EventuallyPassedOn
CHECK_DEADLOCK FALSE

CONSTANTS
    Lengths = {100, 600, 1024}
    MaxPackets = 2
    FirstSent = 1
    HalfWindow = 1024
SPECIFICATION SendFairSpec
INVARIANTS ReleasedIsReceived 
PROPERTY EventuallyReceived
CHECK_DEADLOCK FALSE

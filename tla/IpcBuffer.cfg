CONSTANTS
    N = 3
    Writers = {w1, w2}
    Mortal = {w1}
    MaxWrites = 2
SPECIFICATION FairSpec
INVARIANTS FifoDelivery ExclusiveBlock StuckOnlyBehindTheDead
PROPERTIES ImplementsQueue EventuallyDelivered
CHECK_DEADLOCK FALSE

SPECIFICATION TableSpec
CONSTANTS
    k1 = k1
    k2 = k2
    k3 = k3
    k4 = k4
    Keys = {k1, k2, k3, k4}
    Values = {v1, v2}
    None = None
    HashOf <- MCHashOf
    MaxCapacity = 8
INVARIANT TableSound
PROPERTY ImplementsMap

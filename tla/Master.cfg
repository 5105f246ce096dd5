CONSTANTS
    Zones = {z1, z2}
    MaxZones = {1, 2}
    DefaultMax = 1
    MaxClusters = 1
    Clients = {c1}
    NoRow = NoRow
    Watched = {"charSelect"}
SPECIFICATION FairSpec
  
PROPERTIES ShutdownCompletes EventuallyAnswered
CHECK_DEADLOCK FALSE

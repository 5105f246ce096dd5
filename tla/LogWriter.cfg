CONSTANTS
    Sources = {master, zone}
    Master = master
    MaxPackets = 4
    MinCapacity = 2
SPECIFICATION FairSpec
 
PROPERTY EventuallyHandled
CHECK_DEADLOCK FALSE

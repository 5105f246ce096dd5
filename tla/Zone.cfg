CONSTANTS
    Names = {n1, n2}
    Zones = {z1}
    MaxConns = 2
    Tables = {"inventory"}
    MaxClients = 2
    MaxNpcs = 1
    None = None
SPECIFICATION FairSpec
INVARIANTS  ListsAgree 
PROPERTY VanishedLeaves
CHECK_DEADLOCK FALSE

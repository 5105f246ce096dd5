CONSTANTS
    Players = {p1, p2}
    Users = {u1}
    Passwords = {"a", "b"}
    Servers = {s1}
    MaxConns = 2
SPECIFICATION FairSpec
INVARIANTS  IndexConsistent 
 
CHECK_DEADLOCK FALSE

CONSTANTS
    c1 = c1
    c2 = c2
    k1 = k1
    k2 = k2
    a1 = a1
    KeyOf <- MCKeyOf
    AccountOfKey <- MCAccountOfKey
    Clients = {c1, c2}
    Keys = {k1, k2}
    Accounts = {a1}
    Names = {n1}
    NoAccount = NoAccount
    MaxEnters = 1
SPECIFICATION FairSpec
INVARIANTS  ZoneInAnsweredOnce
 
CHECK_DEADLOCK FALSE

SPECIFICATION CharacterFairSpec
CONSTANTS
    Sessions = {1, 2}
    None = None
    BindCount = 2
    Hashes <- MCHashes
    Scans <- MCScans
    MaxScans = 2
    PlayedScans <- MCPlayedScans
    PlayedHash <- MCPlayedHash
    Iksar = {TRUE}
    StartItems <- MCStartItems
    StartBinds <- MCStartBinds
    Books <- MCBooks
    MaxChanges = 1
    MaxPending = 1
INVARIANTS InventoryKept SpellsKeptUnlessTorn ReloadedAsSaved 
CHECK_DEADLOCK FALSE
PROPERTIES ItemsFound EventuallySaved

SPECIFICATION MCSpec
CONSTANTS
    Brought <- MCBrought
    MaxForwarded = 1
    Retries = 1
    MaxLives = 3
    LockAttempts = 2
    MaxProcesses = 2
    MaxOwners = 2
    Files = {"run"}
    DiskLimit = 2
    PendingSlots = 1
    RowCount = 5
    FirstKnown = 3
    MaxNativeRows = 4
    PageRows = 2
    CachedRows = 2
    SortedRow <- MCSortedRow
    HitRows <- MCHitRows
    MaxCommands = 3
INVARIANTS
    HandedOverFilesArrive
    SearchKeepsItsFile
    StartsBesideOthers
    LedgerIsSound
    LiveFilesStay
    
PROPERTIES
    LaunchesSettle
CHECK_DEADLOCK FALSE

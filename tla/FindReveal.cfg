SPECIFICATION GridSpec
CONSTANTS
    RowCount = 5
    FirstKnown = 3
    MaxNativeRows = 4
    PageRows = 2
    CachedRows = 2
    SortedRow <- MCSortedRow
    HitRows <- MCHitRows
    MaxCommands = 3
INVARIANTS
    MatchesAreShown
CHECK_DEADLOCK FALSE

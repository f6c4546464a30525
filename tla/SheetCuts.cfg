SPECIFICATION XlsxSpec
CONSTANTS
    Books <- MCBooks
    FileOf <- MCFileOf
    Pieces = {9}
    Budgets = {3}
    Sizes = {2}
    MaxTagSymbols = 40
    MaxEntitySymbols = 3
    WindowSymbols = 32
    MaxEntrySymbols = 400
    MaxRatio = 3
    RatioAfter = 40
    MaxCell = 4
    MaxStyles = 5
    MaxStrings = 4
    MaxStringText = 13
    EndBytes = 2
    MaxComment = 4
    MaxEntries = 7
    MaxDirectory = 7
    MaxSheets = 4
    MaxColumns = 3
    MaxRowText = 7
    MaxRows = 7
    CheckpointCapacity = 2
    FirstStride = 1
    OutputFactor = 3
    CancelEvery = 2
    DrainEvery = 2
    MaxCancels = 1
INVARIANTS CutsAtCharacters
CHECK_DEADLOCK FALSE

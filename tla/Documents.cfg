SPECIFICATION MCSpec
CONSTANTS
    Capacity = 4
    InitialStride = 1
    MaxU64 = 8
    Paths = {"a", "b"}
    MaxOpenTabs = 2
    MaxTabId = 2
    MaxSerial = 2
    MaxOrder = 1
    MaxFailures = 1
    LastYear = 10003
    Books <- MCBooks
    FileOf <- MCFileOf
    Pieces = {9}
    Budgets = {3}
    Sizes = {2}
    MaxTagSymbols = 40
    MaxEntitySymbols = 3
    WindowSymbols = 32
    MaxEntrySymbols = 400
    MaxRatio = 3
    RatioAfter = 40
    MaxCell = 4
    MaxStyles = 5
    MaxStrings = 4
    MaxStringText = 13
    EndBytes = 2
    MaxComment = 4
    MaxEntries = 7
    MaxDirectory = 7
    MaxSheets = 4
    MaxColumns = 3
    MaxRowText = 7
    MaxRows = 7
    CheckpointCapacity = 2
    FirstStride = 1
    OutputFactor = 3
    CancelEvery = 2
    DrainEvery = 2
    MaxCancels = 1
    ZoomLevels = {67, 100, 125}
    SavedZooms = {0, 100}
    Notch = 2
    WheelDeltas <- MCDeltas
    MaxWheel = 1
    Layouts <- MCLayouts
    UserWidths = {0, 147}
    MaxResizes = 2
    MaxTabMoves = 2
    Dpi = 96
    StripDip = 2
    InsetDip = 1
    MinThumbDip = 4
    SystemBar = 5
    HeaderHeight = 4
    RowCounts = {5, 12}
    RowHeights = {2, 3}
    ColumnWidths = {29, 50}
    WindowSizes <- MCSizes
    Pointers = {6, 20}
    MaxPixels = 13
    MaxLayouts = 1
INVARIANTS
    TypeOK
    Spaced
    NearestIsFloor
    SheetRowsAreExact
    DatesFollowTheCalendar
    TabsStayApart
    PlacesFollowTheOrder
    WidthsFollowTheZoom
    BarsServeTheList
    ThumbLeadsTheList
CHECK_DEADLOCK FALSE

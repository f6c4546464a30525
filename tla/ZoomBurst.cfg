SPECIFICATION ZoomSpec
CONSTANTS
    ZoomLevels = {50, 67, 100, 125}
    SavedZooms = {0, 100}
    Notch = 2
    WheelDeltas <- MCDeltas
    MaxWheel = 2
    Layouts <- MCLayouts
    UserWidths = {201}
    MaxResizes = 0
    MaxTabMoves = 0
PROPERTIES
    BurstsEndWhereNotchesLead
CHECK_DEADLOCK FALSE

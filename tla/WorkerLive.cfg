SPECIFICATION FairSpec
CONSTANTS
    Budgets <- LiveBudgets
    ScanSteps = 2
    MaxHits = 1
    Key = {"column_A"}
    MaxRow = 1
INVARIANTS
    QuietShowsDocument
PROPERTIES
    OpenAnswered
    SortAnswered
    SearchAnswered
    DropJoins
CHECK_DEADLOCK FALSE

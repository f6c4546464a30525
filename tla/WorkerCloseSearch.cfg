SPECIFICATION FairSpec
CONSTANTS
    Budgets <- CloseBudgets
    ScanSteps = 2
    MaxHits = 1
    Key = {"column_A"}
    MaxRow = 1
PROPERTY DropJoins
CHECK_DEADLOCK FALSE

SPECIFICATION FairSpec
CONSTANTS
    Budgets <- NextBudgets
    ScanSteps = 2
    MaxHits = 1
    Key = {"column_A"}
    MaxRow = 1
PROPERTY SearchAnswered
CHECK_DEADLOCK FALSE

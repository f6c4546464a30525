SPECIFICATION Spec
CONSTANTS
    Budgets <- LossBudgets
    ScanSteps = 2
    MaxHits = 1
    Key = {"column_A"}
    MaxRow = 1
INVARIANT LossIsShown
CHECK_DEADLOCK FALSE

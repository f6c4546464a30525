SPECIFICATION Spec
CONSTANTS
    Budgets <- ScrollBudgets
    ScanSteps = 2
    MaxHits = 1
    Key = {"column_A"}
    MaxRow = 1
PROPERTY OnlyRequestsCancelSorts
CHECK_DEADLOCK FALSE

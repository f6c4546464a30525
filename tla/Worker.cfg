SPECIFICATION Spec
CONSTANTS
    Budgets <- SafetyBudgets
    ScanSteps = 2
    MaxHits = 1
    Key = {"column_A"}
    MaxRow = 1
INVARIANTS
    TypeOK
    RowsMatchOrder
    PermitExclusive
    NoLostCommand
    NoLostWake
    SleepsWhenDone
PROPERTIES
    OrderChangesOnlyWhenComplete
CHECK_DEADLOCK FALSE

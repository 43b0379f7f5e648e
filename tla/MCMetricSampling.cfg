\* Two series, up to ten points; the row limit is reached by the larger budgets.
CONSTANTS
    Series = {s1, s2}
    MaxRows = 8
    DefaultPoints = 6
    Requests <- MCRequests
    MaxLog = 10
SPECIFICATION Spec
INVARIANTS
    BudgetUsed
    EndsShown
    NoHole
CHECK_DEADLOCK FALSE

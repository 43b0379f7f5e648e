\* The row limit out of the way: the comment's claim on the budget.
CONSTANTS
    Series = {s1, s2}
    MaxRows = 20
    DefaultPoints = 6
    Requests <- MCRequests
    MaxLog = 8
SPECIFICATION Spec
INVARIANTS
    BudgetReached
CHECK_DEADLOCK FALSE

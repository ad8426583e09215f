\* A wall clock that is set back renews the budget of an interrupted run.
CONSTANTS
    Timeout = 2
    MaxStepsBack = 1
    MaxWall = 3
    MaxInvocations = 3
    None = None
SPECIFICATION Spec
INVARIANTS
    BudgetNeverRenewed
CHECK_DEADLOCK FALSE

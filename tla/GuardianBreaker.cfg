\* The breaker and repairs that helped.
CONSTANTS
    None = None
    Guardians = {a}
    LastTarget = 1
    Total = 3
    SameLimit = 1
    MaxRepairs = 3
    MaxKills = 1
    MaxFaults = 2
    MaxLateFaults = 0
SPECIFICATION Spec
INVARIANTS
    BreakerCountsFailures
CHECK_DEADLOCK FALSE

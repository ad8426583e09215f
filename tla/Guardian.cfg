\* Two guardian processes, a replacement, kills and failures, to the end.
CONSTANTS
    None = None
    Guardians = {a, b}
    LastTarget = 2
    Total = 2
    SameLimit = 2
    MaxRepairs = 3
    MaxKills = 2
    MaxFaults = 1
    MaxLateFaults = 1
SPECIFICATION FairSpec
INVARIANTS
    RepairsAreBounded
    OnlyTheTargetTrains
PROPERTIES
    EventuallyTerminal
CHECK_DEADLOCK FALSE

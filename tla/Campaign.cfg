\* One case of an engine and of Contenders, two controllers, and a session
\* and an engine that die.
CONSTANTS
    c1 = c1
    c2 = c2
    g1 = g1
    g2 = g2
    k1 = k1
    k2 = k2
    None = None
    Controllers <- TwoControllers
    Groups <- TwoGroups
    CaseOf <- OneCaseTwoSystems
    NoResume <- SecondUnresumable
    Filters <- NoFilter
    Budget = 1
    Segmented = FALSE
    MaxRuns = 2
    MaxEvents = 6
    MaxCrashes = 2
    MaxDeaths = 2
    MaxPauses = 1
SYMMETRY Symmetry
SPECIFICATION Spec
INVARIANTS
    OneDispatchAtWork
    EvidenceUndisputed
PROPERTIES
    FinishedSlotsRest

\* Two cases of one engine, slots that take several dispatches, and sessions
\* over all cases or over the second.
CONSTANTS
    c1 = c1
    c2 = c2
    g1 = g1
    g2 = g2
    k1 = k1
    k2 = k2
    None = None
    Controllers <- OneController
    Groups <- TwoGroups
    CaseOf <- TwoCases
    NoResume <- AllResumable
    Filters <- SecondOrAll
    Budget = 2
    Segmented = TRUE
    MaxRuns = 1
    MaxEvents = 7
    MaxCrashes = 1
    MaxDeaths = 1
    MaxPauses = 0
SPECIFICATION FairSpec
PROPERTIES
    EventuallyComplete

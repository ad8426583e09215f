CONSTANTS
    c1 = c1
    c2 = c2
    w1 = w1
    w2 = w2
    w3 = w3
    t1 = t1
    t2 = t2
    None = None
    Coordinators <- OneCoordinator
    Workers <- TwoWorkers
    Stamps <- OneStamp
    Total = 2
    Scores = {1}
    Uncompilable <- SecondRejected
    MaxCrashes = 2
    MaxStops = 1
SPECIFICATION FairSpec
PROPERTIES
    EventuallyExported

\* Three attempts, of which the second never compiles; two invocations contend
\* for the run while three workers outlive them.
CONSTANTS
    c1 = c1
    c2 = c2
    w1 = w1
    w2 = w2
    w3 = w3
    t1 = t1
    t2 = t2
    None = None
    Coordinators <- TwoCoordinators
    Workers <- ThreeWorkers
    Stamps <- TwoStamps
    Total = 3
    Scores = {1}
    Uncompilable <- SecondRejected
    MaxCrashes = 2
    MaxStops = 1
SYMMETRY Symmetry
SPECIFICATION Spec
INVARIANTS
    TrainedAtMostOnce
    ChargedAsTrained
    NeverRefused
    ExportAccountsForFits
PROPERTIES
    ImplementsLedger

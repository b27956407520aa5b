SPECIFICATION Spec
CONSTANTS
    MaxHostId = 2
    MaxScanId = 2
    n1 = n1
    n2 = n2
    c1 = c1
    c2 = c2
    w1 = w1
    w2 = w2
    w3 = w3
    Names <- TwoNames
    NoName = NoName
    ApiCallers <- One
    CronCallers <- Other
    Workers <- TwoWorkers
    Slots = 1
    AdminOps <- None
    Timeouts = TRUE
    StoreFails = FALSE
SYMMETRY WorkerSymmetry
INVARIANT OneRunPerScan
INVARIANT ScansPerHostBounded
INVARIANT ResultsFromOwnHost
PROPERTY ImplementsLedger

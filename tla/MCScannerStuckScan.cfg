SPECIFICATION FairSpec
CONSTANTS
    MaxHostId = 1
    MaxScanId = 2
    n1 = n1
    n2 = n2
    c1 = c1
    c2 = c2
    w1 = w1
    w2 = w2
    w3 = w3
    Names <- OneName
    NoName = NoName
    ApiCallers <- One
    CronCallers <- None
    Workers <- TwoWorkers
    Slots = 1
    AdminOps <- None
    Timeouts = TRUE
    StoreFails = FALSE
PROPERTY EveryScanFinishes

SPECIFICATION FairSpec
CONSTANTS
    w1 = w1
    w2 = w2
    Scans <- TwoScans
    Slots = 2
    MaxAssessments = 1
    CoolOff = 2
    ServerErrorRetries = 1
INVARIANT TypeOK
INVARIANT StartedOnce
INVARIANT FreshResult
INVARIANT BurstBounded
PROPERTY EveryScanEnds

SPECIFICATION FairSpec
CONSTANTS
    r1 = r1
    r2 = r2
    r3 = r3
    w1 = w1
    w2 = w2
    NoRow = NoRow
    Rows <- TwoRows
    Owned <- TwoRows
    Keyed <- OneRow
    Workers <- TwoWorkers
    BatchLimit = 2
    LeaseTicks = 1
    CallTicks = 1
    MaxAttempts = 2
    MaxCrashes = 1
    RetryUnit = 1
    RetryCap = 3
INVARIANTS
    AttemptsBounded
PROPERTIES
    EventuallySettled

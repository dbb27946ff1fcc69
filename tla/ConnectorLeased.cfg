SPECIFICATION Spec
CONSTANTS
    r1 = r1
    r2 = r2
    r3 = r3
    w1 = w1
    w2 = w2
    NoRow = NoRow
    Rows <- ThreeRows
    Owned <- TwoRows
    Keyed <- OneRow
    Workers <- TwoWorkers
    BatchLimit = 2
    LeaseTicks = 2
    CallTicks = 1
    MaxAttempts = 3
    MaxCrashes = 1
    RetryUnit = 1
    RetryCap = 3
SYMMETRY WorkerSymmetry
INVARIANTS
    ExclusiveDelivery
    CallBudget
    DeliveredMeansActed
PROPERTIES
    SettledIsFinal
    ContractSpec

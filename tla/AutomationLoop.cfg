SPECIFICATION LoopSpec
CONSTANTS
    Keys = {k1, k2, k3}
    Runs = {run1}
    Steps = {s1, s2, s3}
    Internal = {s1, s2}
    Workers = {w1, w2}
    BatchLimit = 2
    MaxAborts = 1
    None = None
SYMMETRY Symmetry
INVARIANTS
    DispatchedWhole
    DispatchRecorded
    CreatedOnce
    EffectsApproved
    DispatchedNeverDead
CHECK_DEADLOCK FALSE

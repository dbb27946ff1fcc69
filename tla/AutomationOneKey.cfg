SPECIFICATION FairLoopSpec
CONSTANTS
    Keys = {k1}
    Runs = {run1, run2}
    Steps = {s1, s2}
    Internal = {s1, s2}
    Workers = {w1, w2}
    BatchLimit = 2
    MaxAborts = 1
    None = None
PROPERTIES
    OrderlyLife
    StepsTakeEffect
CHECK_DEADLOCK FALSE

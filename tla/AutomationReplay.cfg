SPECIFICATION LoopSpec
CONSTANTS
    Keys = {k1}
    Runs = {run1}
    Steps = {s1}
    Internal = {}
    Workers = {}
    BatchLimit = 0
    MaxAborts = 0
    None = None
INVARIANTS
    ReplaysAccepted
CHECK_DEADLOCK FALSE

SPECIFICATION Spec
CONSTANTS
    Keys = {k1, k2, k3}
    Intents = {i1, i2}
    Publishable = {i1}
    Sweepers = {sw1, sw2}
    MaxAborts = 1
    None = None
CHECK_DEADLOCK FALSE
INVARIANTS
    OneExpiryAudit

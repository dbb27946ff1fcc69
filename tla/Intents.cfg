SPECIFICATION FairSpec
CONSTANTS
    Keys = {k1, k2, k3, k4}
    Intents = {i1}
    Publishable = {i1}
    Sweepers = {sw1, sw2}
    MaxAborts = 1
    None = None
CHECK_DEADLOCK FALSE
INVARIANTS
    ApprovalQuorum
    CommandAuthorised
    DeliveryAgrees
PROPERTIES
    WindowCloses

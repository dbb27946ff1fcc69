SPECIFICATION MCSpec
CONSTANTS
    Processes = {p1, p2}
    Keys = {k1, k2}
    Requests = {q1, q2}
    OtherScopes = {}
    Limited = {k1}
    Limit = 1
    Window = 3
    Second = 2
    MaxSkew = 1
    MaxTime = 3
    None = None
    Absent = Absent
    Subjects = {s1}
    Severities = {"high", "low"}
    RuleSeverity <- HighRules
    Evaluators = {e1, e2}
    Posters = {r1}
    Hour = 2
    Cooldown = 3
    MaxDelay = 1
    MaxMoment = 4
    MaxBegun = 3
    NoAlert = NoAlert
SYMMETRY Symmetry
INVARIANTS
    WindowRespected
    RetryAdmitted
    NotLockedOut
    OccurrencesCounted
    CooldownHolds
PROPERTIES
    RevocationSticks
CHECK_DEADLOCK FALSE

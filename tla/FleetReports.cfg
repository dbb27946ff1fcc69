SPECIFICATION FleetSpec
CONSTANTS
    Hosts = {h1}
    Packages = {p1, p2}
    Doubled = {}
    Vulns = {v1}
    EnrolKeys = {k1}
    SingleUse = {}
    Agents = {a1, a2}
    Requests = {q1, q2}
    MaxFailures = 1
CONSTRAINTS
    SomeUncrossed
    ReportsApart
SYMMETRY Symmetry
CHECK_DEADLOCK FALSE
INVARIANT UncrossedFollows

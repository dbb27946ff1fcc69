SPECIFICATION FairSpec
CONSTANTS
    Hosts = {h1}
    Packages = {p1}
    Doubled = {p1}
    Vulns = {}
    EnrolKeys = {k1}
    SingleUse = {k1}
    Agents = {a1}
    Requests = {q1, q2}
    MaxFailures = 2
    Commands = {c1}
    NoAgent = NoAgent
    NoRequest = NoRequest
    NoCommand = NoCommand
CHECK_DEADLOCK FALSE
INVARIANTS
    StoredIsSettled
    RunBudget
PROPERTIES
    Answers
    ReportingShows

SPECIFICATION MCSpec
CONSTANTS
    Connectors = {"nvd", "cisa_kev", "cxsecurity", "github_poc", "exploitdb", "osv", "ransomware_live", "ransomlook", "dls_monitor", "ransomwhere"}
    Ids = {i1}
    PageSize = 2
    Watched = 2
    MaxItems = 3
    MaxRuns = 2
    None = None
    ReportIds = {r1, r2}
    Absent = Absent
    NoError = NoError
    Nodes = {a, b, c, d}
    Seed = a
    MaxDepth = 3
    MaxRelationships = 3
INVARIANTS
    MalformedIsParked
    IncludedUnlessShort
    WholeOrFailed
    TraversalExact
PROPERTIES
    ReportsSettle
CHECK_DEADLOCK FALSE

SPECIFICATION MCSpec
CONSTANTS
    v1 = v1
    v2 = v2
    e1 = e1
    Slots = {s1, s2}
    Vulns = {v1, v2}
    Scores = {90}
    Exploits = {e1}
    cve_ids <- TwoCves
    Unread = Unread
    Absent = Absent
    None = None
    MaxRuns = 4
    MaxEvidenceRows = 2
    MaxSightings = 3
    MaxRecords = 2
    MaxBriefs = 1
    Unknown = Unknown
    Feeds = {"nvd", "cisa_kev", "exploitdb"}
CHECK_DEADLOCK FALSE
SYMMETRY Symmetry
INVARIANTS
    MergedInAnyOrder
    LinkedMeansExploitable
    BriefHasEvidence
    KnowledgeRaises
PROPERTIES
    KnownStaysKnown

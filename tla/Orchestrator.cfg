SPECIFICATION OSpec
CONSTANTS
    a = a
    b = b
    Calls = {t1, t2}
    IDSets <- MCIDSets
    None = None
INVARIANTS
    TypeOK
    CrashNeedsOverlap
    QueryIsHeard
PROPERTIES
    QueriesUseLatestIDs
    StopEndsStart
CHECK_DEADLOCK FALSE

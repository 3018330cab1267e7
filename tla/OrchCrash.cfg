SPECIFICATION OSpec
CONSTANTS
    a = a
    b = b
    Calls = {t1, t2}
    IDSets <- MCIDSets
    None = None
INVARIANTS
    NeverCrashes
CHECK_DEADLOCK FALSE

SPECIFICATION Spec
CONSTANTS
    v1 = v1
    v2 = v2
    v3 = v3
    SLAID = {s1}
    CurrencyPair = {btc}
    Validator = {v1, v2, v3}
    Nobody = Nobody
    Terms <- MCTerms
    ValidatorSets <- MCValidatorSets
    NoSLA = NoSLA
    NoFeed = NoFeed
    NotTracked = NotTracked
    Absent = Absent
    EnableHeight = 1
    MaxHeight = 5
INVARIANTS
    TypeOK
    FeedsAreTracked
    FeedsFitTerms
PROPERTIES
    KeepsPromise
CHECK_DEADLOCK FALSE

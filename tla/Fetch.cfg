SPECIFICATION Spec
CONSTANTS
    a = a
    b = b
    IDs <- MCIDs
    Configs <- MCConfigs
    Worker = {1, 2}
    None = None
    MaxTrade = 2
    MaxTime = 1
INVARIANTS
    TypeOK
    UnchangedIsTrue
    NoWriterAfterClose
PROPERTIES
    PricesNeverGoBack
    CancelEndsFetch
    EveryIDAsked
CHECK_DEADLOCK FALSE

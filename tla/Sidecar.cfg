SPECIFICATION Spec
CONSTANTS
    usdt = usdt
    btc = btc
    eth = eth
    p = p
    q = q
    gov = gov
    ann = ann
    Ticker = {usdt, btc, eth}
    Provider = {p, q}
    Account = {gov, ann}
    Market <- MCMarket
    Msgs <- MCMsgs
    Geneses <- MCGeneses
    Authorities <- MCAuthorities
    GenesisUpdated = {0, 2}
    FreshSets <- MCFreshSets
    NoMarket = NoMarket
    NoPair = NoPair
    NoPrice = NoPrice
    MaxAge = 3
    MaxHeight = 3
INVARIANTS
    TypeOK
    NormalizationExists
    AgeBounded
PROPERTIES
    LastUpdatedTells
    EnabledMarketsPriced
CHECK_DEADLOCK FALSE

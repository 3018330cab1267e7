SPECIFICATION Spec
CONSTANTS
    btc = btc
    eth = eth
    sol = sol
    p1 = p1
    p2 = p2
    CurrencyPair = {btc, eth, sol}
    Price = {p1, p2}
    NoPrice = NoPrice
    NoPair = NoPair
    NoTx = NoTx
    MaxUint64 = 9
    Geneses <- MCGeneses
    MaxHeight = 3
    MaxID = 5
    MaxMsg = 2
INVARIANTS
    TypeOK
    CounterExact
    IDIndexConsistent
    VotesFitAfterRemovals
    ExportIsValidGenesis
PROPERTIES
    NonceTellsUpdates
CHECK_DEADLOCK FALSE

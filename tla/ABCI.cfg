SPECIFICATION Spec
CONSTANTS
    btc = btc
    eth = eth
    CurrencyPair = {btc, eth}
    NoPair = NoPair
    Price = {1, 2, 5, 9}
    NoPrice = NoPrice
    MaxUint64 = 9
    NoExt = NoExt
    NoSig = NoSig
    Validators <- MCValidators
    Power <- MCPower
    Tokens <- MCTokens
    Byz = {4}
    Strategy = "delta"
    EnableHeight = 1
    Quotes <- TwoPairQuotes
    ByzExts <- MCByzExts
    BlockMsgs <- TwoPairMsgs
    Genesis0 <- TwoPairGenesis
    MaxHeight = 3
    MaxRound <- OneRound
    MaxID = 3
    MaxRestarts = 0
    NoAnswer = NoAnswer
    NoValue = NoValue
    Undecodable = Undecodable
    TooLong = TooLong
    Garbled = Garbled
    NoProposal = NoProposal
    NoInfo = NoInfo
INVARIANTS
    TypeOK
    PreBlockNeverFails
    HonestProposalAccepted
    HonestExtensionVerifies
    DecodedAsReported
PROPERTIES
    PriceWithinHonestRange
CHECK_DEADLOCK FALSE

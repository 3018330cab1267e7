SPECIFICATION Spec
CONSTANTS
    btc = btc
    eth = eth
    CurrencyPair = {btc}
    NoPair = NoPair
    Price = {1, 2, 3}
    NoPrice = NoPrice
    MaxUint64 = 9
    NoExt = NoExt
    NoSig = NoSig
    Validators <- MCValidators
    Power <- MCPower
    Tokens <- MCTokens
    Byz = {4}
    Strategy = "delta"
    EnableHeight = 1
    Quotes <- RoundQuotes
    ByzExts <- FewByzExts
    BlockMsgs <- NoMsgs
    Genesis0 <- OnePairGenesis
    MaxHeight = 2
    MaxRound <- TwoRounds
    MaxID = 2
    MaxRestarts = 1
    NoAnswer = NoAnswer
    NoValue = NoValue
    Undecodable = Undecodable
    TooLong = TooLong
    Garbled = Garbled
    NoProposal = NoProposal
    NoInfo = NoInfo
INVARIANTS
    NodesAgree
    HonestProposalAccepted
CHECK_DEADLOCK FALSE

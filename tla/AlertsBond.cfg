SPECIFICATION Spec
CONSTANTS
    alice = alice
    bob = bob
    Account = {alice, bob}
    Module = Module
    Balance0 = 2
    CurrencyPair = {btc}
    Validator = {val}
    Stake0 = 6
    SlashAmount = 1
    Price = {4, 9}
    NoPrice = NoPrice
    Bounds <- MCBounds
    ParamSets <- RaisedBond
    MaxHeight = 3
    MaxVerdicts = 2
    MaxUint64 = 63
    NoAlert = NoAlert
INVARIANTS
    EscrowCoversBonds
CHECK_DEADLOCK FALSE

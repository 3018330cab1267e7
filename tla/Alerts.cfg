SPECIFICATION Spec
CONSTANTS
    alice = alice
    bob = bob
    Account = {alice, bob}
    Module = Module
    Balance0 = 2
    CurrencyPair = {btc}
    Validator = {val}
    Stake0 = 6
    SlashAmount = 1
    Price = {9}
    NoPrice = NoPrice
    Bounds <- MCBounds
    ParamSets <- SteadyParams
    MaxHeight = 4
    MaxVerdicts = 2
    MaxUint64 = 63
    NoAlert = NoAlert
SYMMETRY Accounts
INVARIANTS
    TypeOK
    EscrowCoversBonds
    EndBlockerPays
    SlashedOnce
    ExportIsValid
CHECK_DEADLOCK FALSE

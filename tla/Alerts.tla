------------------------------- MODULE Alerts -------------------------------
(***************************************************************************)
(* x/alerts with x/incentives.  An account that finds a bad price in the   *)
(* votes of a height raises an alert and escrows a bond.  A conclusion,    *)
(* signed off-chain by the signers of the verification parameters, returns *)
(* or burns the bond and, if positive, issues an incentive against every   *)
(* validator whose vote was out of bounds; incentives are executed at the  *)
(* beginning of the next block.  Alerts nobody concludes are pruned at the *)
(* end of a block.                                                         *)
(*                                                                         *)
(* The verdicts are inputs: a signed conclusion may be delivered at any    *)
(* time, by anyone and more than once.  A message that fails changes       *)
(* nothing; an error at the begin or end of a block halts the chain.       *)
(***************************************************************************)
EXTENDS Naturals, Sequences, FiniteSets, SequencesExt

CONSTANTS
    Account,       \* the accounts that raise alerts
    Module,        \* the account of x/alerts
    Balance0,      \* what every account starts with
    CurrencyPair,  \* the pairs that x/oracle tracks
    Validator,     \* the validators
    Stake0,        \* their tokens at first
    SlashAmount,   \* what Slash takes from a validator for one infraction
    Price,         \* the prices that a validator may have voted for
    NoPrice,       \* its vote has none for the pair
    Bounds,        \* the price bounds of conclusions: pairs of low and high
    ParamSets,     \* the parameters that the authority sets
    MaxHeight,     \* bound: last height
    MaxVerdicts,   \* bound: conclusions that are signed
    MaxUint64,     \* the largest uint64
    NoAlert        \* the map of alerts has no entry

\* Validate of the alert and of the pruning parameters.
ValidParams(p) ==
    /\ IF p.pruning THEN p.blocksToPrune > 0 ELSE p.blocksToPrune = 0
    /\ IF p.enabled THEN p.bondAmount > 0 /\ p.maxBlockAge > 0
       ELSE p.bondAmount = 0 /\ p.maxBlockAge = 0

\* The key that alerts are stored under.
Key == [height : 0..MaxHeight, cp : CurrencyPair]

AlertWithStatus ==
    [signer : Account, submissionHeight : Nat, purgeHeight : Nat, concluded : BOOLEAN]

Params ==
    [enabled : BOOLEAN, bondAmount : Nat, maxBlockAge : Nat,
     pruning : BOOLEAN, blocksToPrune : Nat]

Conclusion ==
    [alert : Key, signer : Account, status : BOOLEAN, bounds : Bounds,
     votes : [Validator -> Price \cup {NoPrice}]]

ASSUME AlertsAssumption ==
    /\ ParamSets \subseteq {p \in Params : ValidParams(p)}
    /\ \A b \in Bounds : b.low < b.high
    /\ Price \subseteq 1..255
    /\ MaxHeight \in Nat /\ MaxUint64 \in Nat /\ MaxHeight < MaxUint64
    /\ IsFiniteSet(CurrencyPair) /\ IsFiniteSet(Validator)
    /\ Balance0 \in Nat /\ Stake0 \in Nat /\ SlashAmount \in Nat
    /\ Module \notin Account
    /\ NoAlert \notin AlertWithStatus

VARIABLES
    params,       \* the parameters of x/alerts
    alerts,       \* the alerts in state, by key
    bank,         \* the balances of the accounts and of x/alerts
    incentives,   \* x/incentives: the incentives in the order of their index
    stake,        \* the tokens of the validators
    height,       \* height of the open block, or of the last one
    phase,        \* "Begin" between blocks, "Deliver" in a block
    halted,       \* "no", or what failed: "BeginBlock" or "EndBlock"
    signed,       \* the conclusions that the signers have signed
    bonds,        \* history: the bond that was escrowed for an open alert
    faults        \* history: the validators found at fault, with the alert

vars == <<params, alerts, bank, incentives, stake, height, phase, halted, signed, bonds,
          faults>>

-----------------------------------------------------------------------------
(* What an incentive is issued for *)

\* A price as SetBytes reads it from what GobEncode made of it: the byte of version
\* and sign, a 2, counts as the leading digit.  For prices of one byte.
ReadBack(price) == 2 * 256 + price

\* DefaultHandleValidatorIncentive on the price in a vote: is an incentive issued?
HandleValidatorIncentive(price, bounds) ==
    ~(ReadBack(price) >= bounds.low /\ ReadBack(price) <= bounds.high)

\* The validators that a conclusion issues incentives for.  Their votes have the
\* price as GetEncodedPrice of the default strategy encoded it.
AtFault(c) ==
    {v \in Validator : /\ c.votes[v] # NoPrice
                       /\ HandleValidatorIncentive(c.votes[v], c.bounds)}

-----------------------------------------------------------------------------
(* Alerts and bonds *)

\* A difference of uint64.
Minus(m, n) == IF m >= n THEN m - n ELSE MaxUint64 - (n - m) + 1

\* Mutant: the balance is not looked at.
CanPayAny(a) == TRUE

\* The bank sends the bond from this account.
CanPay(a) == bank[a] >= params.bondAmount

Send(b, from, to, amount) ==
    [b EXCEPT ![from] = @ - amount, ![to] = @ + amount]

\* Mutant: the alert stays unconcluded.
ConcludeOpen(a, k) == [a EXCEPT ![k].purgeHeight = k.height + params.maxBlockAge]

\* Mutant: the purge height stays that of the submission.
ConcludeKeepPurge(a, k) == [a EXCEPT ![k].concluded = TRUE]

\* The alert that ConcludeAlert stores.
ConcludeStatus(a, k) ==
    [a EXCEPT ![k].concluded = TRUE,
              ![k].purgeHeight = k.height + params.maxBlockAge]

\* ConcludeAlert succeeds: the alert is there, open, and the bond can be paid.
CanConclude(k) ==
    /\ alerts[k] # NoAlert
    /\ ~alerts[k].concluded
    /\ CanPay(Module)

\* ConcludeAlert on the balances: the bond is returned or burned.
ConcludeBond(k, positive) ==
    IF positive THEN Send(bank, Module, alerts[k].signer, params.bondAmount)
    ELSE [bank EXCEPT ![Module] = @ - params.bondAmount]

-----------------------------------------------------------------------------

Init ==
    /\ params \in ParamSets
    /\ alerts = [k \in Key |-> NoAlert]
    /\ bank = [a \in Account \cup {Module} |-> IF a = Module THEN 0 ELSE Balance0]
    /\ incentives = <<>>
    /\ stake = [v \in Validator |-> Stake0]
    /\ height = 0
    /\ phase = "Begin"
    /\ halted = "no"
    /\ signed = {}
    /\ bonds = [k \in Key |-> 0]
    /\ faults = {}

\* The strategy of an incentive: the validator is slashed, and what was taken is
\* minted for the signer of the alert.
ExecuteStrategy(s, i) ==
    LET amount == IF s.stake[i.validator] < SlashAmount THEN s.stake[i.validator]
                  ELSE SlashAmount
    IN  [stake |-> [s.stake EXCEPT ![i.validator] = @ - amount],
         bank |-> [s.bank EXCEPT ![i.signer] = @ + amount]]

\* BeginBlock of x/incentives: every incentive is executed and deleted.
ExecuteStrategies ==
    LET run[n \in 0..Len(incentives)] ==
            IF n = 0 THEN [stake |-> stake, bank |-> bank]
            ELSE ExecuteStrategy(run[n - 1], incentives[n])
    IN  /\ stake' = run[Len(incentives)].stake
        /\ bank' = run[Len(incentives)].bank
        /\ incentives' = <<>>

BeginBlock ==
    /\ phase = "Begin" /\ halted = "no" /\ height < MaxHeight
    /\ height' = height + 1
    /\ phase' = "Deliver"
    /\ ExecuteStrategies
    /\ UNCHANGED <<params, alerts, halted, signed, bonds, faults>>

\* An incentive cannot be executed: x/staking no longer knows the validator, or
\* its Slash fails.  The error of the strategy is that of BeginBlock, and nothing
\* of the block is kept.
BeginBlockFails ==
    /\ phase = "Begin" /\ halted = "no" /\ height < MaxHeight
    /\ incentives # <<>>
    /\ halted' = "BeginBlock"
    /\ UNCHANGED <<params, alerts, bank, incentives, stake, height, phase, signed, bonds,
                   faults>>

\* Alert: the age of the alert is over the limit.
TooOld(k) == Minus(height, k.height) > params.maxBlockAge

\* MsgAlert of an account.
Alert(signer, k) ==
    /\ phase = "Deliver" /\ halted = "no"
    /\ params.enabled
    /\ ~TooOld(k)
    /\ alerts[k] = NoAlert
    /\ CanPay(signer)
    /\ bank' = Send(bank, signer, Module, params.bondAmount)
    /\ alerts' = [alerts EXCEPT ![k] =
          [signer |-> signer, submissionHeight |-> height,
           purgeHeight |-> height + params.blocksToPrune, concluded |-> FALSE]]
    /\ bonds' = [bonds EXCEPT ![k] = params.bondAmount]
    /\ UNCHANGED <<params, incentives, stake, height, phase, halted, signed, faults>>

\* Off-chain, the signers reach a verdict about an open alert; one per alert.
\* (The votes in a negative one are not looked at.)
SignConclusion ==
    /\ phase = "Deliver" /\ halted = "no" /\ Cardinality(signed) < MaxVerdicts
    /\ \E c \in Conclusion :
          /\ alerts[c.alert] # NoAlert /\ ~alerts[c.alert].concluded
          /\ c.signer = alerts[c.alert].signer
          /\ c.status \/ \A v \in Validator : c.votes[v] = NoPrice
          /\ ~\E d \in signed : d.alert = c.alert /\ d.signer = c.signer
          /\ signed' = signed \cup {c}
    /\ UNCHANGED <<params, alerts, bank, incentives, stake, height, phase, halted, bonds,
                   faults>>

\* The incentives of a conclusion, in the order of the votes.
IncentivesOf(c) ==
    LET order == SetToSeq(AtFault(c))
    IN  [i \in DOMAIN order |-> [validator |-> order[i], alertHeight |-> c.alert.height,
                                 signer |-> c.signer]]

\* MsgConclusion with a conclusion that all signers have signed.
Conclude(c) ==
    /\ phase = "Deliver" /\ halted = "no"
    /\ params.enabled
    /\ CanConclude(c.alert)
    /\ bank' = ConcludeBond(c.alert, c.status)
    /\ alerts' = ConcludeStatus(alerts, c.alert)
    /\ incentives' = IF c.status THEN incentives \o IncentivesOf(c) ELSE incentives
    /\ faults' = IF c.status THEN faults \cup (AtFault(c) \X {c.alert}) ELSE faults
    /\ bonds' = [bonds EXCEPT ![c.alert] = 0]
    /\ UNCHANGED <<params, stake, height, phase, halted, signed>>

\* MsgUpdateParams of the authority.
UpdateParams ==
    /\ phase = "Deliver" /\ halted = "no"
    /\ \E p \in ParamSets \ {params} : params' = p
    /\ UNCHANGED <<alerts, bank, incentives, stake, height, phase, halted, signed, bonds,
                   faults>>

\* Mutant: an alert is only pruned in the block after its purge height.
DueLate == {k \in Key : alerts[k] # NoAlert /\ alerts[k].purgeHeight < height}

\* The alerts that EndBlocker removes.
Due == {k \in Key : alerts[k] # NoAlert /\ alerts[k].purgeHeight <= height}

Open(S) == {k \in S : alerts[k] # NoAlert /\ ~alerts[k].concluded}

\* EndBlocker returns an error: a bond that is due cannot be paid.
EndBlockerFails ==
    params.pruning /\ bank[Module] < Cardinality(Open(Due)) * params.bondAmount

\* EndBlocker: alerts at their purge height are removed, those that are open
\* after they were concluded positively.
EndBlocker ==
    LET due == IF params.pruning THEN Due ELSE {}
        returned(a) == Cardinality({k \in Open(due) : alerts[k].signer = a}) * params.bondAmount
    IN  /\ alerts' = [k \in Key |-> IF k \in due THEN NoAlert ELSE alerts[k]]
        /\ bonds' = [k \in Key |-> IF k \in due THEN 0 ELSE bonds[k]]
        /\ bank' = [a \in Account \cup {Module} |->
                       IF a = Module
                       THEN bank[a] - Cardinality(Open(due)) * params.bondAmount
                       ELSE bank[a] + returned(a)]

EndBlock ==
    /\ phase = "Deliver" /\ halted = "no"
    /\ IF EndBlockerFails
       THEN halted' = "EndBlock" /\ UNCHANGED <<alerts, bank, bonds, phase>>
       ELSE EndBlocker /\ phase' = "Begin" /\ UNCHANGED halted
    /\ UNCHANGED <<params, incentives, stake, height, signed, faults>>

Next ==
    \/ BeginBlock
    \/ BeginBlockFails
    \/ \E a \in Account, k \in Key : Alert(a, k)
    \/ SignConclusion
    \/ \E c \in signed : Conclude(c)
    \/ UpdateParams
    \/ EndBlock

Spec == Init /\ [][Next]_vars
-----------------------------------------------------------------------------
(* Properties *)

\* The handlers keep the types of the state; in particular no balance is
\* negative.
TypeOK ==
    /\ params \in ParamSets
    /\ alerts \in [Key -> AlertWithStatus \cup {NoAlert}]
    /\ bank \in [Account \cup {Module} -> Nat]
    /\ stake \in [Validator -> Nat]
    /\ \A i \in DOMAIN incentives : incentives[i].validator \in Validator
    /\ height \in 0..MaxHeight
    /\ halted \in {"no", "BeginBlock", "EndBlock"}
    /\ signed \subseteq Conclusion

\* The sum of the bonds that were escrowed for the open alerts.
OpenBonds == MapThenSumSet(LAMBDA k : bonds[k], Open(Key))

\* What x/alerts holds is exactly the bonds of the open alerts: every bond is
\* returned or burned once, with what was escrowed for it, whether an alert is
\* concluded by a message or pruned.
EscrowCoversBonds == bank[Module] = OpenBonds

\* EndBlocker never fails: the chain is not halted by a bond it cannot pay.  (An
\* incentive that cannot be executed does halt it, in BeginBlock.)
EndBlockerPays == halted # "EndBlock"

\* A validator pays exactly one slash for each alert that it was found at fault
\* for: an alert cannot be concluded, pruned, raised again and concluded again,
\* and no incentive is lost or executed twice.
SlashedOnce ==
    \A v \in Validator :
        LET paid == Stake0 - stake[v]
            pending == Cardinality({i \in DOMAIN incentives : incentives[i].validator = v})
        IN  paid + pending * SlashAmount =
                SlashAmount * Cardinality({f \in faults : f[1] = v})

\* Between blocks, genesis validation accepts what ExportGenesis returns: the
\* submission height of every alert is before its purge height.
ExportIsValid ==
    phase = "Begin" =>
        \A k \in Key : alerts[k] # NoAlert =>
            alerts[k].submissionHeight < alerts[k].purgeHeight
=============================================================================

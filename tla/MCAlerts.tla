------------------------------ MODULE MCAlerts ------------------------------
(***************************************************************************)
(* TLC instances of Alerts: two accounts, one pair, one validator whose    *)
(* price is out of bounds or missing.                                      *)
(***************************************************************************)
EXTENDS Alerts, TLC

CONSTANTS alice, bob

Accounts == Permutations({alice, bob})

P(enabled, bond, age, pruning, blocks) ==
    [enabled |-> enabled, bondAmount |-> bond, maxBlockAge |-> age,
     pruning |-> pruning, blocksToPrune |-> blocks]

MCBounds == {[low |-> 3, high |-> 5]}

\* The bond and the age of alerts stay the same.
SteadyParams == {P(TRUE, 2, 2, TRUE, 1), P(TRUE, 2, 2, TRUE, 2)}

\* The bond is raised.
RaisedBond == {P(TRUE, 1, 2, TRUE, 2), P(TRUE, 2, 2, TRUE, 2)}
=============================================================================

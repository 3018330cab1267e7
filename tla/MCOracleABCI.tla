---------------------------- MODULE MCOracleABCI ----------------------------
(***************************************************************************)
(* TLC instances of OracleABCI: four validators of equal power, one of     *)
(* them in Byz.  The tokens are large enough for the halving in            *)
(* ComputeMedian to lose nothing.                                          *)
(***************************************************************************)
EXTENDS OracleABCI

CONSTANTS btc, eth

MCValidators == <<1, 2, 3, 4>>
MCPower == [n \in 1..4 |-> 1]
MCTokens == [n \in 1..4 |-> 1000]

\* Every height is decided in its first round, or height 2 may need a second.
OneRound == <<0, 0, 0>>
TwoRounds == <<0, 1, 0>>

\* An extension with value v for the ids in I.
Says(I, v) == [id \in ID |-> IF id \in I THEN v ELSE NoValue]

\* What cannot be decoded, is too long for a price, is a price far off, or takes
\* one price to zero or below and is no price for another.
MCByzExts ==
    {Undecodable, Says({1}, TooLong), Says(ID, 9),
     [Says({0}, -2) EXCEPT ![1] = Garbled]}

Add(cp) == [kind |-> "Add", cp |-> cp]
Remove(cp) == [kind |-> "Remove", cp |-> cp]

\* One pair, for the runs with several rounds.
OnePairGenesis ==
    [pairs |-> [cp \in CurrencyPair |-> [id |-> 0, nonce |-> 0, price |-> 2]],
     nextId |-> 1]
OnePairQuotes == [CurrencyPair -> {1, 3}]

\* With fewer choices, but an oracle that may also not answer.
RoundQuotes == [CurrencyPair -> {1}] \cup {NoAnswer}
FewByzExts == {Says({0}, 2)}
NoMsgs == {<<>>}

\* Two pairs at prices that cannot be taken for each other; eth has no price
\* yet.  An oracle knows both, or only one of them.
TwoPairGenesis ==
    [pairs |-> [cp \in CurrencyPair |->
                   IF cp = btc THEN [id |-> 0, nonce |-> 0, price |-> 2]
                   ELSE [id |-> 1, nonce |-> 0, price |-> NoPrice]],
     nextId |-> 2]
TwoPairQuotes ==
    {[cp \in CurrencyPair |-> IF cp = btc THEN 1 ELSE 5],
     [cp \in CurrencyPair |-> IF cp = btc THEN 2 ELSE NoPrice]}
TwoPairMsgs == {<<>>, <<Remove(eth), Remove(btc)>>, <<Remove(btc), Add(btc)>>}
=============================================================================

--------------------------- MODULE MCOracleModule ---------------------------
(***************************************************************************)
(* TLC instance of OracleModule.  Two genesis states: an empty one and one *)
(* with a priced pair, an unpriced pair and a gap in its ids.              *)
(***************************************************************************)
EXTENDS OracleModule

CONSTANTS btc, eth, sol, p1, p2

MCGeneses ==
    {[pairs |-> [cp \in CurrencyPair |-> NoPair], nextId |-> 0],
     [pairs |-> [cp \in CurrencyPair |->
                    CASE cp = btc -> [id |-> 2, nonce |-> 1, price |-> p1]
                      [] cp = eth -> [id |-> 0, nonce |-> 0, price |-> NoPrice]
                      [] OTHER -> NoPair],
      nextId |-> 3]}
=============================================================================

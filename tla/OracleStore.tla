----------------------------- MODULE OracleStore -----------------------------
(***************************************************************************)
(* The store of the x/oracle module and the keeper methods that read and   *)
(* write it (x/oracle/keeper/keeper.go, genesis.go).  A store is a record; *)
(* a keeper method is an operator from stores to stores, so that the same  *)
(* definitions serve the module on its own (OracleModule) and one store    *)
(* per node (OracleABCI).  A method that may return an error has its error *)
(* condition as a guard at the call: a handler that fails is rolled back   *)
(* by the SDK, which the callers model.                                    *)
(***************************************************************************)
EXTENDS Naturals, FiniteSets, Sequences

CONSTANTS
    CurrencyPair,   \* the currency pairs (by their string, the primary key)
    NoPair,         \* the state of a pair that the map has no entry for
    Price,          \* the prices that can be written
    NoPrice,        \* the nil price of a pair never priced
    MaxUint64       \* what an unsigned counter wraps to below zero

CurrencyPairState == [id : Nat, nonce : Nat, price : Price \cup {NoPrice}]

ASSUME StoreAssumption ==
    /\ NoPrice \notin Price
    /\ NoPair \notin CurrencyPairState
    /\ MaxUint64 \in Nat
    /\ IsFiniteSet(CurrencyPair)

PairMap == [CurrencyPair -> CurrencyPairState \cup {NoPair}]

Store == [currencyPairs : PairMap,
          nextCurrencyPairID : Nat,
          numRemoves : Nat,
          numCPs : Nat]

-----------------------------------------------------------------------------
(* Reads *)

GetAllCurrencyPairs(s) == {cp \in CurrencyPair : s.currencyPairs[cp] # NoPair}

HasCurrencyPair(s, cp) == cp \in GetAllCurrencyPairs(s)

GetIDForCurrencyPair(s, cp) == s.currencyPairs[cp].id

\* The pairs the id index holds under id (at most one, see IDIndexConsistent).
MatchExact(s, id) ==
    {cp \in GetAllCurrencyPairs(s) : s.currencyPairs[cp].id = id}

GetCurrencyPairFromID(s, id) == CHOOSE cp \in MatchExact(s, id) : TRUE

GetPriceForCurrencyPair(s, cp) == s.currencyPairs[cp].price

-----------------------------------------------------------------------------
(* Writes *)

\* val-- on a uint64
decrementCPCounter(n) == IF n = 0 THEN MaxUint64 ELSE n - 1

\* Mutant: the pair counter is not decremented.
RemoveUncounted(s, cp) ==
    [s EXCEPT !.currencyPairs = [@ EXCEPT ![cp] = NoPair], !.numRemoves = @ + 1]

\* Mutant: the removal is not counted.
RemoveUnnoticed(s, cp) ==
    [s EXCEPT !.currencyPairs = [@ EXCEPT ![cp] = NoPair],
              !.numCPs = decrementCPCounter(@)]

\* Called only when the pair exists, otherwise the method returns an error.
RemoveCurrencyPair(s, cp) ==
    [s EXCEPT !.currencyPairs = [@ EXCEPT ![cp] = NoPair],
              !.numRemoves = @ + 1,
              !.numCPs = decrementCPCounter(@)]

\* Mutant: the new pair starts with a zero price.
CreateWithPrice(s, cp) ==
    [s EXCEPT !.currencyPairs =
                  [@ EXCEPT ![cp] = [id |-> s.nextCurrencyPairID, nonce |-> 0,
                                     price |-> 0]],
              !.nextCurrencyPairID = @ + 1,
              !.numCPs = @ + 1]

\* Mutant: the id is the number of pairs, and so may be in use.
CreateWithCountAsID(s, cp) ==
    [s EXCEPT !.currencyPairs =
                  [@ EXCEPT ![cp] = [id |-> s.numCPs, nonce |-> 0, price |-> NoPrice]],
              !.nextCurrencyPairID = @ + 1,
              !.numCPs = @ + 1]

\* Mutant: the nonce of a new pair is one.
CreateWithNonce(s, cp) ==
    [s EXCEPT !.currencyPairs =
                  [@ EXCEPT ![cp] = [id |-> s.nextCurrencyPairID, nonce |-> 1,
                                     price |-> NoPrice]],
              !.nextCurrencyPairID = @ + 1,
              !.numCPs = @ + 1]

\* Called only when the pair does not exist, otherwise it returns an error.
CreateCurrencyPair(s, cp) ==
    [s EXCEPT !.currencyPairs =
                  [@ EXCEPT ![cp] = [id |-> s.nextCurrencyPairID, nonce |-> 0,
                                     price |-> NoPrice]],
              !.nextCurrencyPairID = @ + 1,
              !.numCPs = @ + 1]

\* Mutant: the nonce stays.
SetPriceSameNonce(s, cp, price) ==
    [s EXCEPT !.currencyPairs = [@ EXCEPT ![cp] = [@ EXCEPT !.price = price]]]

\* Note that the branch for a missing pair does not touch numCPs.
SetPriceForCurrencyPair(s, cp, price) ==
    IF HasCurrencyPair(s, cp)
    THEN [s EXCEPT !.currencyPairs =
              [@ EXCEPT ![cp] = [id |-> s.currencyPairs[cp].id,
                                 nonce |-> s.currencyPairs[cp].nonce + 1,
                                 price |-> price]]]
    ELSE [s EXCEPT !.currencyPairs =
              [@ EXCEPT ![cp] = [id |-> s.nextCurrencyPairID, nonce |-> 0,
                                 price |-> price]],
                   !.nextCurrencyPairID = @ + 1]

\* WritePrices of the oracle PreBlocker: SetPriceForCurrencyPair for every pair
\* in state that the aggregated prices have a price for (prices[cp] # NoPrice),
\* and for no other.  The loop writes each pair once, from its own state only.
WritePrices(s, prices) ==
    [s EXCEPT !.currencyPairs =
        [cp \in CurrencyPair |->
            IF HasCurrencyPair(s, cp) /\ prices[cp] # NoPrice
            THEN SetPriceForCurrencyPair(s, cp, prices[cp]).currencyPairs[cp]
            ELSE s.currencyPairs[cp]]]

\* BeginBlocker: forget the removals of the previous block.
BeginBlocker(s) == [s EXCEPT !.numRemoves = 0]

-----------------------------------------------------------------------------
(* Genesis.  The list of CurrencyPairGenesis is given as the map it fills   *)
(* (the repeated-pair check of Validate then holds by construction).        *)

Genesis == [pairs : PairMap, nextId : Nat]

GenesisPairs(g) == {cp \in CurrencyPair : g.pairs[cp] # NoPair}

ValidGenesis(g) ==
    /\ \A cp \in GenesisPairs(g) :
          /\ g.pairs[cp].price = NoPrice => g.pairs[cp].nonce = 0
          /\ g.pairs[cp].id < g.nextId
    /\ \A c, d \in GenesisPairs(g) : g.pairs[c].id = g.pairs[d].id => c = d

InitGenesis(g) ==
    [currencyPairs |-> g.pairs,
     nextCurrencyPairID |-> g.nextId,
     numRemoves |-> 0,
     numCPs |-> Cardinality(GenesisPairs(g))]

ExportGenesis(s) == [pairs |-> s.currencyPairs, nextId |-> s.nextCurrencyPairID]
=============================================================================

----------------------------- MODULE IndexPrice -----------------------------
(***************************************************************************)
(* The oracle loop (oracle/oracle.go) with the index price aggregator      *)
(* (pkg/math/oracle).  In every tick the loop resets the provider prices,  *)
(* fetches those of each provider in turn and aggregates them: the price   *)
(* of a provider is taken as it is or multiplied by the index price that   *)
(* the normalization market had in the tick before.  The orchestrator may  *)
(* change the aggregator's market map at any point.                        *)
(*                                                                         *)
(* A price is abstracted to its age: the number of ticks since the oldest  *)
(* provider price that it was made of was fetched.  A provider has a fresh *)
(* price for the config of a market or it has none; prices older than      *)
(* maxCacheAge count as none.                                              *)
(***************************************************************************)
EXTENDS Markets, FiniteSetsExt

CONSTANTS
    Provider,
    FreshSets,      \* what a provider may have in an outage: sets of tickers
    NoPrice,
    MaxAge          \* bound: a price of this age or more

ASSUME IndexPriceAssumption ==
    /\ MaxAge \in Nat
    /\ FreshSets \subseteq SUBSET Ticker
    /\ \A market \in Market : \A c \in market.providerConfigs : c.name \in Provider
    /\ NoPrice \notin Nat

VARIABLES
    cfg,            \* m.cfg: per ticker the market or NoMarket
    indexPrices,    \* m.indexPrices, and m.scaledPrices with them
    providerPrices, \* m.providerPrices: per provider and ticker
    toFetch,        \* the providers that the tick has yet to ask
    ticking,        \* is a tick under way?
    reliable,       \* have the providers all their prices?
    steady          \* history: ticks since cfg changed, up to MaxAge

loop == <<cfg, indexPrices, providerPrices, toFetch, ticking, reliable, steady>>

Older(age) == IF age < MaxAge THEN age + 1 ELSE MaxAge

NoPrices == [t \in Ticker |-> NoPrice]

-----------------------------------------------------------------------------
(* The aggregator *)

\* A market's config c: the provider's price, which may need an index price.
CalculateAdjustedPrice(t, c) ==
    LET price == providerPrices[c.name][t]
        index == IF c.normalizeBy = NoPair THEN NoPrice ELSE indexPrices[c.normalizeBy]
    IN  CASE price = NoPrice -> NoPrice
          [] price # NoPrice /\ c.normalizeBy = NoPair -> price
          [] price # NoPrice /\ c.normalizeBy # NoPair /\ index = NoPrice -> NoPrice
          [] OTHER -> Max({price, Older(index)})

\* The configs of the market at t that have a price, with that price.
CalculateConvertedPrices(t) ==
    {x \in {<<c, CalculateAdjustedPrice(t, c)>> : c \in cfg[t].providerConfigs} : x[2] # NoPrice}

\* The median of the converted prices is as old as the oldest of them may be.
MedianAge(converted) == Max({x[2] : x \in converted})

\* Does this tick give the market at t a price?
Priced(t) ==
    /\ cfg[t] # NoMarket /\ cfg[t].enabled
    /\ Cardinality(CalculateConvertedPrices(t)) >= cfg[t].minProviderCount

\* Mutant: a market without enough prices keeps its last one.
AggregateKeeping ==
    [t \in Ticker |-> IF Priced(t) THEN MedianAge(CalculateConvertedPrices(t))
                      ELSE IF indexPrices[t] = NoPrice THEN NoPrice
                      ELSE Older(indexPrices[t])]

\* Mutant: a market needs more than the minimum.
AggregateMore ==
    [t \in Ticker |->
        IF Priced(t) /\ Cardinality(CalculateConvertedPrices(t)) > cfg[t].minProviderCount
        THEN MedianAge(CalculateConvertedPrices(t)) ELSE NoPrice]

\* Both price maps are made anew.
Aggregate ==
    [t \in Ticker |-> IF Priced(t) THEN MedianAge(CalculateConvertedPrices(t)) ELSE NoPrice]

-----------------------------------------------------------------------------
(* The loop *)

LoopInit(m) ==
    /\ cfg = m
    /\ indexPrices = NoPrices
    /\ providerPrices = [p \in Provider |-> NoPrices]
    /\ toFetch = {} /\ ticking = FALSE
    /\ reliable = TRUE
    /\ steady = 0

\* Mutant: what was fetched in the last tick stays.
ResetNothing ==
    [p \in Provider |-> [t \in Ticker |->
        IF providerPrices[p][t] = NoPrice THEN NoPrice ELSE Older(providerPrices[p][t])]]

Reset == [p \in Provider |-> NoPrices]

\* A tick begins.
Tick ==
    /\ ~ticking
    /\ ticking' = TRUE
    /\ toFetch' = Provider
    /\ providerPrices' = Reset
    /\ UNCHANGED <<cfg, indexPrices, reliable, steady>>

\* fetchPrices of a provider that runs and has data; the others leave no prices.
FetchPrices(p) ==
    /\ ticking /\ p \in toFetch
    /\ toFetch' = toFetch \ {p}
    /\ \E fresh \in (IF reliable THEN {Ticker} ELSE FreshSets) :
          providerPrices' = [providerPrices EXCEPT ![p] =
              [t \in Ticker |-> IF t \in fresh THEN 0 ELSE providerPrices[p][t]]]
    /\ UNCHANGED <<cfg, indexPrices, ticking, reliable, steady>>

\* The tick ends.
AggregatePrices ==
    /\ ticking /\ toFetch = {}
    /\ indexPrices' = Aggregate
    /\ steady' = Older(steady)
    /\ ticking' = FALSE
    /\ UNCHANGED <<cfg, providerPrices, toFetch, reliable>>

\* The orchestrator gives the aggregator another market map.
UpdateMarketMap(m) ==
    /\ cfg' = m
    /\ steady' = 0
    /\ UNCHANGED <<indexPrices, providerPrices, toFetch, ticking, reliable>>

\* Providers lose some of their prices, or have them all again.
Outage ==
    /\ reliable' = ~reliable
    /\ UNCHANGED <<cfg, indexPrices, providerPrices, toFetch, ticking, steady>>

LoopStep == Tick \/ (\E p \in Provider : FetchPrices(p)) \/ AggregatePrices

-----------------------------------------------------------------------------
(* Properties *)

\* The tickers of m whose prices go back to provider prices alone within n
\* normalizations, for each n.  A market normalized in a cycle is in none.
Within(m) ==
    LET within[n \in 0..MaxAge] ==
            {t \in Ticker : m[t] # NoMarket /\ \A c \in m[t].providerConfigs :
                c.normalizeBy = NoPair \/ (n > 0 /\ c.normalizeBy \in within[n - 1])}
    IN  within

\* A price made through n normalizations is made of provider prices that are at
\* most n ticks old, after n ticks of any market map: whatever providers fail,
\* no index price is carried along (AggregatePrices makes the map anew, and
\* tick resets the provider prices), and nothing of an older market map is left.
AgeBounded ==
    \A n \in 0..(MaxAge - 1) : \A t \in Within(cfg)[n] :
        steady > n /\ indexPrices[t] # NoPrice => indexPrices[t] <= n
=============================================================================

--------------------------- MODULE SidecarProofs ---------------------------
(***************************************************************************)
(* x/marketmap and the oracle loop for any tickers, markets, providers,    *)
(* messages and authorities: the map keeps the markets that others are     *)
(* normalized by and one pair of x/oracle per market, lastUpdated tells    *)
(* every change of the map, and no index price is older than the           *)
(* normalizations it was made through.                                     *)
(***************************************************************************)
EXTENDS Sidecar, FiniteSetTheorems, SequenceTheorems, TLAPS

-----------------------------------------------------------------------------
(* Induction *)

\* A set of naturals that is not empty has a least element: the form in which
\* the proofs do induction, on the least counterexample.
LEMMA LeastNatural ==
    ASSUME NEW T, T \subseteq Nat, T # {}
    PROVE  \E n \in T : \A m \in T : n <= m
<1>1. PICK n \in T : \A m \in T : ~ (<<m, n>> \in OpToRel(<, Nat))
  BY NatLessThanWellFounded, WFMin, Zenon
<1>2. \A m \in T : ~(m < n)
  BY <1>1 DEF OpToRel
<1> QED
  BY <1>2

\* Induction up to N: a set that has 0, and i + 1 with every i below N, has all.
LEMMA UpTo ==
    ASSUME NEW N \in Nat, NEW T, 0 \in T, \A i \in 0..(N - 1) : i \in T => i + 1 \in T
    PROVE  \A i \in 0..N : i \in T
<1> DEFINE Out == {i \in 0..N : i \notin T}
<1> SUFFICES ASSUME Out # {} PROVE FALSE
  OBVIOUS
<1>1. Out \subseteq Nat
  OBVIOUS
<1>2. PICK n \in Out : \A m \in Out : n <= m
  BY <1>1, LeastNatural, Zenon
<1>3. n - 1 \in 0..(N - 1) /\ n - 1 \notin Out
  BY <1>2
<1> QED
  BY <1>2, <1>3

\* The runs of N steps from x in S, step i being the function F[i].
Runs(N, S, x, F) ==
    {g \in [0..N -> S] : g[0] = x /\ \A i \in 1..N : g[i] = F[i][g[i - 1]]}

\* There is one, however many steps.
LEMMA Iterate ==
    ASSUME NEW N \in Nat, NEW S, NEW x \in S, NEW F \in [1..N -> [S -> S]]
    PROVE  \E g : g \in Runs(N, S, x, F)
<1> DEFINE Good(n, g) == /\ g \in [0..n -> S]
                         /\ g[0] = x /\ \A i \in 1..n : g[i] = F[i][g[i - 1]]
           T == {n \in 0..N : \E g : Good(n, g)}
<1>1. 0 \in T
  <2>1. Good(0, [i \in 0..0 |-> x])
    OBVIOUS
  <2> HIDE DEF Good
  <2> QED
    BY <2>1
<1>2. ASSUME NEW n \in 0..(N - 1), n \in T
      PROVE  n + 1 \in T
  <2>1. PICK g : Good(n, g)
    <3> HIDE DEF Good
    <3> QED
      BY <1>2
  <2> DEFINE h == [i \in 0..(n + 1) |-> IF i = n + 1 THEN F[n + 1][g[n]] ELSE g[i]]
  <2>2. g[n] \in S /\ F[n + 1] \in [S -> S]
    BY <2>1
  <2>3. h \in [0..(n + 1) -> S]
    BY <2>1, <2>2
  <2>4. h[0] = x /\ h[n + 1] = F[n + 1][h[n]]
    BY <2>1
  <2>5. ASSUME NEW i \in 1..n
        PROVE  h[i] = F[i][h[i - 1]]
    <3>1. h[i] = g[i] /\ h[i - 1] = g[i - 1]
      OBVIOUS
    <3> QED
      BY <2>1, <3>1
  <2>6. Good(n + 1, h)
    <3> HIDE DEF h
    <3>1. \A i \in 1..(n + 1) : i = n + 1 \/ i \in 1..n
      OBVIOUS
    <3>2. \A i \in 1..(n + 1) : h[i] = F[i][h[i - 1]]
      <4> SUFFICES ASSUME NEW i \in 1..(n + 1) PROVE h[i] = F[i][h[i - 1]]
        OBVIOUS
      <4>1. CASE i = n + 1
        BY <2>4, <4>1
      <4> QED
        BY <2>5, <3>1, <4>1
    <3> QED
      BY <2>3, <2>4, <3>2
  <2> HIDE DEF Good
  <2> QED
    BY <2>6
<1>3. N \in T
  <2>1. \A n \in 0..(N - 1) : n \in T => n + 1 \in T
    BY <1>2
  <2> HIDE DEF T
  <2>2. \A i \in 0..N : i \in T
    BY <1>1, <2>1, UpTo, Zenon
  <2> QED
    BY <2>2
<1>4. PICK g : Good(N, g)
  <2> HIDE DEF Good
  <2> QED
    BY <1>3
<1> QED
  BY <1>4 DEF Runs

\* A set of naturals that is bounded and not empty has a greatest element.
LEMMA Greatest ==
    ASSUME NEW T, T \subseteq Nat, T # {}, NEW b \in Nat, \A n \in T : n <= b
    PROVE  \E n \in T : \A m \in T : m <= n
<1> DEFINE U == {b - n : n \in T}
<1>1. U \subseteq Nat /\ U # {}
  <2>1. \A n \in T : b - n \in Nat
    OBVIOUS
  <2>2. PICK n \in T : TRUE
    OBVIOUS
  <2>3. b - n \in U
    OBVIOUS
  <2> QED
    BY <2>1, <2>3
<1>2. PICK u \in U : \A v \in U : u <= v
  <2> HIDE DEF U
  <2> QED
    BY <1>1, LeastNatural
<1>3. PICK n \in T : u = b - n
  OBVIOUS
<1>4. ASSUME NEW m \in T
      PROVE  m <= n
  <2>1. b - m \in U
    OBVIOUS
  <2>2. u <= b - m
    BY <1>2, <2>1
  <2> QED
    BY <1>3, <2>2
<1> QED
  BY <1>4

-----------------------------------------------------------------------------
(* x/marketmap *)

\* Markets and the pairs that their hooks created.
MapInv ==
    /\ markets \in Maps
    /\ NormalizationExists
    /\ MarketsHavePairs

\* Between two commits the map differs from the committed one only if a message
\* of the open block has set lastUpdated, which is of an earlier block before
\* unless it is the genesis's own.
HeightInv ==
    /\ height \in Nat /\ lastUpdated \in Nat /\ committed.lastUpdated \in Nat
    /\ committed.lastUpdated < height \/ committed.lastUpdated \in GenesisUpdated
    /\ markets # committed.markets => lastUpdated = height
    /\ lastUpdated <= height \/ lastUpdated \in GenesisUpdated

\* The pairs that a market is normalized by are tickers.
LEMMA NormalizeByType ==
    ASSUME NEW market \in Market
    PROVE  NormalizeBy(market) \subseteq Ticker
BY MarketsAssumption DEF NormalizeBy

\* Putting the markets of a message in a map keeps its type and its markets.
LEMMA WithType ==
    ASSUME NEW m \in Maps, NEW msg \in Msgs
    PROVE  /\ With(m, msg) \in Maps
           /\ \A t \in Ticker : m[t] # NoMarket => With(m, msg)[t] # NoMarket
           /\ \A t \in DOMAIN msg : t \in Ticker /\ msg[t] \in Market /\ With(m, msg)[t] = msg[t]
           /\ \A t \in Ticker \ DOMAIN msg : With(m, msg)[t] = m[t]
BY MarketsAssumption, MarketMapAssumption DEF With, Maps

\* A message that ValidateState accepts keeps the normalization markets of the
\* whole map, those of markets that it does not touch included.
LEMMA WithNormalization ==
    ASSUME NormalizationExists, markets \in Maps, NEW msg \in Msgs,
           markets' = With(markets, msg), ValidateState(markets', msg)
    PROVE  NormalizationExists'
<1> SUFFICES ASSUME NEW t \in Ticker, markets'[t] # NoMarket,
                    NEW n \in NormalizeBy(markets'[t])
             PROVE  markets'[n] # NoMarket
  BY DEF NormalizationExists
<1>1. CASE t \in DOMAIN msg
  <2>1. markets'[t] = msg[t]
    BY <1>1, WithType
  <2> QED
    BY <1>1, <2>1 DEF ValidateState
<1>2. CASE t \notin DOMAIN msg
  <2>1. markets'[t] = markets[t] /\ markets[t] \in Market
    BY <1>2, WithType DEF Maps
  <2>2. n \in Ticker /\ markets[n] # NoMarket
    BY <2>1, NormalizeByType DEF NormalizationExists
  <2> QED
    BY <2>2, WithType
<1> QED
  BY <1>1, <1>2

\* The map invariant holds in every state of the chain.
THEOREM MapInvariant == ChainSpec => []MapInv
<1>1. ChainInit => MapInv
  BY MarketMapAssumption
     DEF ChainInit, MapInv, NormalizationExists, MarketsHavePairs, ValidateBasic
<1>2. MapInv /\ [ChainNext]_chain => MapInv'
  <2> SUFFICES ASSUME MapInv, [ChainNext]_chain PROVE MapInv'
    OBVIOUS
  <2> USE DEF MapInv
  <2>1. ASSUME NEW a \in Account, NEW msg \in Msgs, CreateMarkets(a, msg)
        PROVE  MapInv'
    <3>1. markets' \in Maps
      BY <2>1, WithType DEF CreateMarkets
    <3>2. NormalizationExists'
      BY <2>1, WithNormalization DEF CreateMarkets
    <3>3. MarketsHavePairs'
      BY <2>1, WithType, MarketsAssumption DEF CreateMarkets, MarketsHavePairs
    <3> QED
      BY <3>1, <3>2, <3>3
  <2>2. ASSUME NEW a \in Account, NEW msg \in Msgs, UpdateMarkets(a, msg)
        PROVE  MapInv'
    <3>1. markets' \in Maps
      BY <2>2, WithType DEF UpdateMarkets
    <3>2. NormalizationExists'
      BY <2>2, WithNormalization DEF UpdateMarkets
    <3>3. \A t \in Ticker : markets'[t] # NoMarket <=> markets[t] # NoMarket
      BY <2>2, WithType DEF UpdateMarkets
    <3>4. MarketsHavePairs'
      BY <2>2, <3>3 DEF UpdateMarkets, MarketsHavePairs
    <3> QED
      BY <3>1, <3>2, <3>4
  <2>3. CASE UpdateParams
    BY <2>3 DEF UpdateParams, NormalizationExists, MarketsHavePairs
  <2>4. ASSUME NEW remove, RemoveMarketAuthorities(remove) PROVE MapInv'
    BY <2>4 DEF RemoveMarketAuthorities, NormalizationExists, MarketsHavePairs
  <2>5. CASE Commit
    BY <2>5 DEF Commit, NormalizationExists, MarketsHavePairs
  <2>6. CASE UNCHANGED chain
    BY <2>6 DEF chain, NormalizationExists, MarketsHavePairs
  <2> QED
    BY <2>1, <2>2, <2>3, <2>4, <2>5, <2>6 DEF ChainNext
<1> QED
  BY <1>1, <1>2, PTL DEF ChainSpec

\* Every market that another one is normalized by exists, although a message
\* is only validated for its own markets.
THEOREM NormalizationAlwaysExists == ChainSpec => []NormalizationExists
BY MapInvariant, PTL DEF MapInv

\* Markets and the pairs of x/oracle are always the same set.
THEOREM MarketsAlwaysHavePairs == ChainSpec => []MarketsHavePairs
BY MapInvariant, PTL DEF MapInv

\* lastUpdated is the open height whenever the open block has changed the map.
THEOREM HeightInvariant == ChainSpec => []HeightInv
<1>1. ChainInit => HeightInv
  <2> SUFFICES ASSUME ChainInit PROVE HeightInv
    OBVIOUS
  <2>1. lastUpdated \in GenesisUpdated /\ lastUpdated \in Nat
    BY MarketMapAssumption DEF ChainInit
  <2>2. committed.lastUpdated = lastUpdated /\ committed.markets = markets /\ height = 1
    BY DEF ChainInit
  <2> QED
    BY <2>1, <2>2 DEF HeightInv
<1>2. HeightInv /\ [ChainNext]_chain => HeightInv'
  <2> SUFFICES ASSUME HeightInv, [ChainNext]_chain PROVE HeightInv'
    OBVIOUS
  <2> USE DEF HeightInv
  <2>1. ASSUME NEW a \in Account, NEW msg \in Msgs,
               CreateMarkets(a, msg) \/ UpdateMarkets(a, msg)
        PROVE  HeightInv'
    BY <2>1 DEF CreateMarkets, UpdateMarkets
  <2>2. CASE UpdateParams
    BY <2>2 DEF UpdateParams
  <2>3. ASSUME NEW remove, RemoveMarketAuthorities(remove) PROVE HeightInv'
    BY <2>3 DEF RemoveMarketAuthorities
  <2>4. CASE Commit
    BY <2>4 DEF Commit
  <2>5. CASE UNCHANGED chain
    BY <2>5 DEF chain
  <2> QED
    BY <2>1, <2>2, <2>3, <2>4, <2>5 DEF ChainNext
<1> QED
  BY <1>1, <1>2, PTL DEF ChainSpec

\* A committed map that changes has a larger lastUpdated, whatever the genesis
\* said, unless that was not of an earlier block: a reader of the query MarketMap
\* that compares it misses no other change.
THEOREM LastUpdatedAlwaysTells == ChainSpec => LastUpdatedTells
<1>1. HeightInv /\ [ChainNext]_chain =>
        [committed'.markets # committed.markets =>
            \/ committed'.lastUpdated > committed.lastUpdated
            \/ committed.lastUpdated \in GenesisUpdated /\ committed.lastUpdated >= height]_chain
  <2> SUFFICES ASSUME HeightInv, ChainNext, committed'.markets # committed.markets
               PROVE  \/ committed'.lastUpdated > committed.lastUpdated
                      \/ /\ committed.lastUpdated \in GenesisUpdated
                         /\ committed.lastUpdated >= height
    BY DEF chain
  <2>1. Commit
    BY DEF ChainNext, CreateMarkets, UpdateMarkets, UpdateParams, RemoveMarketAuthorities
  <2> QED
    BY <2>1 DEF Commit, HeightInv
<1> QED
  BY <1>1, HeightInvariant, PTL DEF ChainSpec, LastUpdatedTells

-----------------------------------------------------------------------------
(* The oracle loop *)

\* The types of the loop.  What is fetched is fresh.
LoopTypes ==
    /\ cfg \in Maps
    /\ indexPrices \in [Ticker -> 0..MaxAge \cup {NoPrice}]
    /\ providerPrices \in [Provider -> [Ticker -> {0, NoPrice}]]
    /\ toFetch \subseteq Provider
    /\ ticking \in BOOLEAN /\ reliable \in BOOLEAN /\ steady \in 0..MaxAge

\* The maximum of a set of ages.
LEMMA MaxIs ==
    ASSUME NEW T, T # {}, T \subseteq 0..MaxAge
    PROVE  Max(T) \in T
<1>1. T \subseteq Nat /\ \A n \in T : n <= MaxAge
  OBVIOUS
<1>2. PICK n \in T : \A m \in T : m <= n
  BY <1>1, Greatest, IndexPriceAssumption
<1>3. \E x \in T : \A y \in T : x >= y
  BY <1>1, <1>2
<1> QED
  BY <1>3, Zenon DEF Max

\* What an age becomes.
LEMMA OlderType ==
    ASSUME NEW age \in 0..MaxAge
    PROVE  Older(age) \in 0..MaxAge /\ Older(age) <= age + 1
BY IndexPriceAssumption DEF Older

\* The price of a config: a fresh one, or as old as the index price that it was
\* multiplied by, and a tick.
LEMMA AdjustedPrice ==
    ASSUME LoopTypes, NEW t \in Ticker, cfg[t] # NoMarket, NEW c \in cfg[t].providerConfigs,
           NEW a, a = CalculateAdjustedPrice(t, c), a # NoPrice
    PROVE  /\ a \in 0..MaxAge
           /\ \/ a = 0
              \/ /\ c.normalizeBy \in Ticker /\ indexPrices[c.normalizeBy] \in 0..MaxAge
                 /\ a = Older(indexPrices[c.normalizeBy])
<1> DEFINE price == providerPrices[c.name][t]
           by == c.normalizeBy
           index == IF by = NoPair THEN NoPrice ELSE indexPrices[by]
<1>1. cfg[t] \in Market
  BY DEF LoopTypes, Maps
<1>2. c.name \in Provider /\ by \in Ticker \cup {NoPair}
  BY <1>1, MarketsAssumption, IndexPriceAssumption
<1>3. price \in {0, NoPrice} /\ (by # NoPair => indexPrices[by] \in 0..MaxAge \cup {NoPrice})
  BY <1>2 DEF LoopTypes
<1>4. a = CASE price = NoPrice -> NoPrice
            [] price # NoPrice /\ by = NoPair -> price
            [] price # NoPrice /\ by # NoPair /\ index = NoPrice -> NoPrice
            [] OTHER -> Max({price, Older(index)})
  BY Zenon DEF CalculateAdjustedPrice
<1> HIDE DEF price, by
<1>5. price = 0
  BY <1>3, <1>4
<1>6. CASE by = NoPair
  BY <1>4, <1>5, <1>6, IndexPriceAssumption
<1>7. CASE by # NoPair
  <2>1. index # NoPrice /\ index \in 0..MaxAge /\ index = indexPrices[by]
    BY <1>3, <1>4, <1>5, <1>7, IndexPriceAssumption
  <2> HIDE DEF index
  <2>2. a = Max({0, Older(index)})
    BY <1>4, <1>5, <1>7, <2>1, IndexPriceAssumption
  <2>3. {0, Older(index)} \subseteq 0..MaxAge
    BY <2>1, OlderType, IndexPriceAssumption
  <2>4. a \in {0, Older(index)}
    BY <2>2, <2>3, MaxIs
  <2> QED
    BY <1>2, <1>7, <2>1, <2>3, <2>4 DEF by
<1> QED
  BY <1>6, <1>7

\* The index price of a market that gets one is as old as that of one of its configs.
LEMMA MedianIs ==
    ASSUME LoopTypes, NEW t \in Ticker, Priced(t)
    PROVE  \E c \in cfg[t].providerConfigs :
              /\ CalculateAdjustedPrice(t, c) # NoPrice
              /\ MedianAge(CalculateConvertedPrices(t)) = CalculateAdjustedPrice(t, c)
<1> DEFINE C == CalculateConvertedPrices(t)
           T == {x[2] : x \in C}
<1>1. cfg[t] # NoMarket /\ cfg[t] \in Market /\ Cardinality(C) >= cfg[t].minProviderCount
  BY DEF Priced, LoopTypes, Maps
<1>2. C # {}
  <2> SUFFICES ASSUME C = {} PROVE FALSE
    OBVIOUS
  <2>1. Cardinality(C) = 0
    BY FS_EmptySet
  <2>2. cfg[t].minProviderCount >= 1
    <3>1. cfg[t].minProviderCount \in 1..Cardinality(cfg[t].providerConfigs)
      BY <1>1, MarketsAssumption
    <3> QED
      BY <3>1
  <2>3. cfg[t].minProviderCount \in Int
    BY <1>1, MarketsAssumption
  <2> HIDE DEF C
  <2> QED
    BY <1>1, <2>1, <2>2, <2>3
<1>3. ASSUME NEW n \in T
      PROVE  \E c \in cfg[t].providerConfigs :
                n = CalculateAdjustedPrice(t, c) /\ n # NoPrice
  <2>1. PICK x \in C : n = x[2]
    OBVIOUS
  <2>2. PICK c \in cfg[t].providerConfigs :
           x = <<c, CalculateAdjustedPrice(t, c)>> /\ x[2] # NoPrice
    BY DEF CalculateConvertedPrices
  <2> QED
    BY <2>1, <2>2
<1> HIDE DEF C
<1>4. T # {}
  BY <1>2
<1>5. T \subseteq 0..MaxAge
  <2> SUFFICES ASSUME NEW n \in T PROVE n \in 0..MaxAge
    OBVIOUS
  <2>1. PICK c \in cfg[t].providerConfigs : n = CalculateAdjustedPrice(t, c) /\ n # NoPrice
    BY <1>3
  <2> HIDE DEF T
  <2> QED
    BY <1>1, <2>1, AdjustedPrice
<1> HIDE DEF T
<1>6. Max(T) \in T
  BY <1>4, <1>5, MaxIs
<1>7. MedianAge(C) = Max(T)
  BY DEF MedianAge, T
<1> QED
  BY <1>3, <1>6, <1>7 DEF C

\* What Within computes.
LEMMA WithinIs ==
    ASSUME NEW m
    PROVE  Within(m) = [n \in 0..MaxAge |->
              {t \in Ticker : m[t] # NoMarket /\ \A c \in m[t].providerConfigs :
                  c.normalizeBy = NoPair \/ (n > 0 /\ c.normalizeBy \in Within(m)[n - 1])}]
<1> DEFINE next(s) == {t \in Ticker : m[t] # NoMarket /\ \A c \in m[t].providerConfigs :
                          c.normalizeBy = NoPair \/ c.normalizeBy \in s}
           step(n, s) == {t \in Ticker : m[t] # NoMarket /\ \A c \in m[t].providerConfigs :
                             c.normalizeBy = NoPair \/ (n > 0 /\ c.normalizeBy \in s)}
           within[n \in 0..MaxAge] ==
             {t \in Ticker : m[t] # NoMarket /\ \A c \in m[t].providerConfigs :
                 c.normalizeBy = NoPair \/ (n > 0 /\ c.normalizeBy \in within[n - 1])}
           S == SUBSET Ticker
           F == [i \in 1..MaxAge |-> [s \in S |-> next(s)]]
<1>1. Within(m) = within
  BY Zenon DEF Within
<1>2. PICK g : g \in Runs(MaxAge, S, next({}), F)
  <2>1. F \in [1..MaxAge -> [S -> S]] /\ next({}) \in S
    OBVIOUS
  <2> HIDE DEF F, S, next
  <2> QED
    BY <2>1, Iterate, IndexPriceAssumption
<1>3. ASSUME NEW n \in 0..MaxAge
      PROVE  g[n] = step(n, g[n - 1])
  <2>1. CASE n = 0
    <3>1. g[n] = next({})
      BY <1>2, <2>1 DEF Runs
    <3>2. ASSUME NEW s PROVE next({}) = step(0, s)
      OBVIOUS
    <3> HIDE DEF next, step
    <3> QED
      BY <2>1, <3>1, <3>2
  <2>2. CASE n # 0
    <3>1. n \in 1..MaxAge /\ n - 1 \in 0..MaxAge /\ n > 0
      BY <2>2, IndexPriceAssumption
    <3>2. g[n - 1] \in S /\ g[n] = F[n][g[n - 1]]
      BY <1>2, <3>1 DEF Runs
    <3>3. g[n] = next(g[n - 1])
      BY <3>1, <3>2
    <3>4. ASSUME NEW s PROVE next(s) = step(n, s)
      BY <3>1
    <3> HIDE DEF next, step
    <3> QED
      BY <3>3, <3>4
  <2> QED
    BY <2>1, <2>2
<1>4. g = [n \in 0..MaxAge |-> step(n, g[n - 1])]
  <2> HIDE DEF step
  <2> QED
    BY <1>2, <1>3 DEF Runs
<1>5. within = [n \in 0..MaxAge |->
              {t \in Ticker : m[t] # NoMarket /\ \A c \in m[t].providerConfigs :
                 c.normalizeBy = NoPair \/ (n > 0 /\ c.normalizeBy \in within[n - 1])}]
  BY <1>4, Zenon
<1> HIDE DEF within
<1> QED
  BY <1>1, <1>5

\* The types of the loop are preserved by every step of it.
LEMMA LoopTypesStep ==
    ASSUME LoopTypes, LoopStep \/ Outage \/ UNCHANGED loop
    PROVE  LoopTypes'
<1>1. CASE Tick
  BY <1>1 DEF Tick, LoopTypes, Reset, NoPrices
<1>2. ASSUME NEW p \in Provider, FetchPrices(p) PROVE LoopTypes'
  <2>1. PICK fresh \in (IF reliable THEN {Ticker} ELSE FreshSets) :
           providerPrices' = [providerPrices EXCEPT ![p] =
              [t \in Ticker |-> IF t \in fresh THEN 0 ELSE providerPrices[p][t]]]
    BY <1>2 DEF FetchPrices
  <2>2. [t \in Ticker |-> IF t \in fresh THEN 0 ELSE providerPrices[p][t]]
           \in [Ticker -> {0, NoPrice}]
    BY DEF LoopTypes
  <2>3. providerPrices' \in [Provider -> [Ticker -> {0, NoPrice}]]
    BY <2>1, <2>2 DEF LoopTypes
  <2> QED
    BY <1>2, <2>3 DEF FetchPrices, LoopTypes
<1>3. CASE AggregatePrices
  <2>1. Aggregate \in [Ticker -> 0..MaxAge \cup {NoPrice}]
    <3> SUFFICES ASSUME NEW t \in Ticker, Priced(t)
                 PROVE  MedianAge(CalculateConvertedPrices(t)) \in 0..MaxAge
      BY DEF Aggregate
    <3>1. PICK c \in cfg[t].providerConfigs :
             /\ CalculateAdjustedPrice(t, c) # NoPrice
             /\ MedianAge(CalculateConvertedPrices(t)) = CalculateAdjustedPrice(t, c)
      BY MedianIs
    <3>2. cfg[t] # NoMarket
      BY DEF Priced
    <3> QED
      BY <3>1, <3>2, AdjustedPrice
  <2>2. Older(steady) \in 0..MaxAge
    BY OlderType DEF LoopTypes
  <2> QED
    BY <1>3, <2>1, <2>2 DEF AggregatePrices, LoopTypes
<1>4. CASE Outage
  BY <1>4 DEF Outage, LoopTypes
<1>5. CASE UNCHANGED loop
  BY <1>5 DEF loop, LoopTypes
<1> QED
  BY <1>1, <1>2, <1>3, <1>4, <1>5 DEF LoopStep

\* A tick that ends makes a price within n normalizations of index prices that
\* are within n - 1, and these are of the tick before.
LEMMA AggregateAge ==
    ASSUME LoopTypes, AgeBounded, NEW n \in 0..(MaxAge - 1), NEW t \in Within(cfg)[n],
           Older(steady) > n, Aggregate[t] # NoPrice
    PROVE  Aggregate[t] <= n
<1>1. n \in 0..MaxAge /\ n \in Nat
  BY IndexPriceAssumption
<1>2. /\ t \in Ticker /\ cfg[t] # NoMarket
      /\ \A c \in cfg[t].providerConfigs :
            c.normalizeBy = NoPair \/ (n > 0 /\ c.normalizeBy \in Within(cfg)[n - 1])
  <2>1. PICK m : m = cfg
    OBVIOUS
  <2>2. t \in Within(m)[n]
    BY <2>1
  <2>3. Within(m)[n] =
          {u \in Ticker : m[u] # NoMarket /\ \A c \in m[u].providerConfigs :
              c.normalizeBy = NoPair \/ (n > 0 /\ c.normalizeBy \in Within(m)[n - 1])}
    <3>1. Within(m) = [k \in 0..MaxAge |->
              {u \in Ticker : m[u] # NoMarket /\ \A c \in m[u].providerConfigs :
                  c.normalizeBy = NoPair \/ (k > 0 /\ c.normalizeBy \in Within(m)[k - 1])}]
      BY WithinIs, Zenon
    <3>2. PICK w : w = Within(m)
      OBVIOUS
    <3>3. w = [k \in 0..MaxAge |->
                 {u \in Ticker : m[u] # NoMarket /\ \A c \in m[u].providerConfigs :
                    c.normalizeBy = NoPair \/ (k > 0 /\ c.normalizeBy \in w[k - 1])}]
      BY <3>1, <3>2
    <3>4. w[n] = {u \in Ticker : m[u] # NoMarket /\ \A c \in m[u].providerConfigs :
                    c.normalizeBy = NoPair \/ (n > 0 /\ c.normalizeBy \in w[n - 1])}
      BY <1>1, <3>3, Zenon
    <3> QED
      BY <3>2, <3>4
  <2> QED
    BY <2>1, <2>2, <2>3
<1>3. Priced(t) /\ Aggregate[t] = MedianAge(CalculateConvertedPrices(t))
  BY <1>2 DEF Aggregate
<1>4. PICK c \in cfg[t].providerConfigs :
         /\ CalculateAdjustedPrice(t, c) # NoPrice
         /\ MedianAge(CalculateConvertedPrices(t)) = CalculateAdjustedPrice(t, c)
  BY <1>2, <1>3, MedianIs
<1>5. PICK a : a = CalculateAdjustedPrice(t, c) /\ a = Aggregate[t]
  BY <1>3, <1>4
<1>6. \/ a = 0
      \/ /\ c.normalizeBy \in Ticker /\ indexPrices[c.normalizeBy] \in 0..MaxAge
         /\ a = Older(indexPrices[c.normalizeBy])
  BY <1>2, <1>4, <1>5, AdjustedPrice
<1>7. ASSUME a # 0 PROVE a <= n
  <2>1. /\ c.normalizeBy \in Ticker /\ indexPrices[c.normalizeBy] \in 0..MaxAge
        /\ a = Older(indexPrices[c.normalizeBy])
    BY <1>6, <1>7
  <2>2. n > 0 /\ c.normalizeBy \in Within(cfg)[n - 1]
    BY <1>2, <2>1, MarketsAssumption
  <2>3. n - 1 \in 0..(MaxAge - 1) /\ steady > n - 1
    BY <1>1, <2>2, IndexPriceAssumption DEF Older, LoopTypes
  <2>4. indexPrices[c.normalizeBy] # NoPrice
    BY <2>1, IndexPriceAssumption
  <2>5. indexPrices[c.normalizeBy] <= n - 1
    BY <2>2, <2>3, <2>4 DEF AgeBounded
  <2>6. a <= indexPrices[c.normalizeBy] + 1
    BY <2>1, OlderType
  <2>7. a \in Int
    BY <2>1, OlderType
  <2> QED
    BY <1>1, <2>1, <2>5, <2>6, <2>7
<1> QED
  BY <1>1, <1>5, <1>7

\* AgeBounded is preserved by every step of the loop.
LEMMA AgeBoundedStep ==
    ASSUME LoopTypes, AgeBounded, LoopStep \/ Outage \/ UNCHANGED loop
    PROVE  AgeBounded'
<1>1. cfg' = cfg
  BY DEF LoopStep, Tick, FetchPrices, AggregatePrices, Outage, loop
<1>2. CASE AggregatePrices
  <2> SUFFICES ASSUME NEW n \in 0..(MaxAge - 1), NEW t \in Within(cfg')[n],
                      steady' > n, indexPrices'[t] # NoPrice
               PROVE  indexPrices'[t] <= n
    BY Zenon DEF AgeBounded
  <2>1. t \in Within(cfg)[n]
    BY <1>1
  <2>2. steady' = Older(steady) /\ indexPrices' = Aggregate
    BY <1>2 DEF AggregatePrices
  <2> QED
    BY <2>1, <2>2, AggregateAge
<1>3. CASE ~AggregatePrices
  <2>1. indexPrices' = indexPrices /\ steady' = steady
    BY <1>3 DEF LoopStep, Tick, FetchPrices, Outage, loop
  <2> QED
    BY <1>1, <2>1 DEF AgeBounded
<1> QED
  BY <1>2, <1>3

-----------------------------------------------------------------------------
(* The listener: the chain and the loop together *)

\* A list of accounts without one of its elements.
LEMMA DeleteAtType ==
    ASSUME NEW S, NEW l \in Seq(S), NEW i \in 1..Len(l)
    PROVE  DeleteAt(l, i) \in Seq(S)
<1>1. Len(l) \in Nat /\ \A j \in 1..Len(l) : l[j] \in S
  OBVIOUS
<1>2. SubSeq(l, 1, i - 1) \in Seq(S)
  BY <1>1, SubSeqProperties
<1>3. SubSeq(l, i + 1, Len(l)) \in Seq(S)
  BY <1>1, SubSeqProperties
<1> QED
  BY <1>2, <1>3 DEF DeleteAt

\* Removing authorities from the list that is ranged over leaves a list of
\* accounts, whatever elements are skipped.
LEMMA AfterRemovalType ==
    ASSUME NEW l \in Seq(Account), NEW remove
    PROVE  AfterRemoval(l, remove) \in Seq(Account)
<1> DEFINE step(i, s) == IF i <= Len(s) /\ s[i] \in remove THEN DeleteAt(s, i) ELSE s
           at[i \in 0..Len(l)] ==
             IF i = 0 THEN l
             ELSE IF i <= Len(at[i - 1]) /\ at[i - 1][i] \in remove
                  THEN DeleteAt(at[i - 1], i)
                  ELSE at[i - 1]
           S == Seq(Account)
           F == [i \in 1..Len(l) |-> [s \in S |-> step(i, s)]]
<1>1. AfterRemoval(l, remove) = at[Len(l)]
  BY Zenon DEF AfterRemoval
<1>2. Len(l) \in Nat
  OBVIOUS
<1>3. PICK g : g \in Runs(Len(l), S, l, F)
  <2>1. ASSUME NEW i \in 1..Len(l), NEW s \in S PROVE step(i, s) \in S
    <3>1. ASSUME i <= Len(s) PROVE DeleteAt(s, i) \in S
      <4>1. i \in 1..Len(s)
        BY <1>2, <3>1
      <4> QED
        BY <4>1, DeleteAtType
    <3> QED
      BY <3>1
  <2>2. F \in [1..Len(l) -> [S -> S]]
    <3> HIDE DEF step, S
    <3> QED
      BY <2>1
  <2> HIDE DEF F, S
  <2> QED
    BY <1>2, <2>2, Iterate DEF S
<1>4. ASSUME NEW i \in 0..Len(l)
      PROVE  g[i] = IF i = 0 THEN l ELSE step(i, g[i - 1])
  <2>1. CASE i = 0
    BY <1>3, <2>1 DEF Runs
  <2>2. CASE i # 0
    <3>1. i \in 1..Len(l) /\ i - 1 \in 0..Len(l)
      BY <1>2, <2>2
    <3>2. g[i - 1] \in S /\ g[i] = F[i][g[i - 1]]
      BY <1>3, <3>1 DEF Runs
    <3> HIDE DEF step, S
    <3> QED
      BY <2>2, <3>1, <3>2
  <2> QED
    BY <2>1, <2>2
<1>5. g = [i \in 0..Len(l) |-> IF i = 0 THEN l ELSE step(i, g[i - 1])]
  <2> HIDE DEF step
  <2> QED
    BY <1>3, <1>4 DEF Runs
<1>6. at = [i \in 0..Len(l) |->
             IF i = 0 THEN l
             ELSE IF i <= Len(at[i - 1]) /\ at[i - 1][i] \in remove
                  THEN DeleteAt(at[i - 1], i)
                  ELSE at[i - 1]]
  BY <1>5, Zenon
<1> DEFINE T == {i \in 0..Len(l) : at[i] \in Seq(Account)}
<1>7. 0 \in T
  <2> HIDE DEF at
  <2> QED
    BY <1>2, <1>6
<1>8. ASSUME NEW i \in 0..(Len(l) - 1), i \in T
      PROVE  i + 1 \in T
  <2>1. PICK s : s = at[i]
    OBVIOUS
  <2>2. i + 1 \in 0..Len(l) /\ i + 1 # 0 /\ (i + 1) - 1 = i /\ i + 1 \in Nat
    BY <1>2
  <2> HIDE DEF at
  <2>3. s \in Seq(Account)
    BY <1>8, <2>1
  <2>4. at[i + 1] = IF i + 1 <= Len(s) /\ s[i + 1] \in remove
                    THEN DeleteAt(s, i + 1) ELSE s
    BY <1>6, <2>1, <2>2
  <2>5. ASSUME i + 1 <= Len(s) PROVE DeleteAt(s, i + 1) \in Seq(Account)
    <3>1. i + 1 \in 1..Len(s)
      BY <2>2, <2>3, <2>5
    <3> QED
      BY <2>3, <3>1, DeleteAtType
  <2> QED
    BY <2>2, <2>3, <2>4, <2>5
<1> HIDE DEF T, at
<1>9. \A i \in 0..Len(l) : i \in T
  BY <1>2, <1>7, <1>8, UpTo, Zenon
<1> QED
  BY <1>1, <1>2, <1>9 DEF T

\* The types of the chain.
ChainTypes ==
    /\ height \in 1..MaxHeight /\ lastUpdated \in 0..height \cup GenesisUpdated
    /\ markets \in Maps /\ committed.markets \in Maps
    /\ authorities \in Seq(Account)
    /\ pairs \subseteq Ticker

\* They hold in every state of the chain.
THEOREM ChainTypesHold == ChainSpec => []ChainTypes
<1>1. ChainInit => ChainTypes
  BY MarketMapAssumption DEF ChainInit, ChainTypes
<1>2. ChainTypes /\ [ChainNext]_chain => ChainTypes'
  <2> SUFFICES ASSUME ChainTypes, [ChainNext]_chain PROVE ChainTypes'
    OBVIOUS
  <2> USE DEF ChainTypes
  <2>1. ASSUME NEW a \in Account, NEW msg \in Msgs,
               CreateMarkets(a, msg) \/ UpdateMarkets(a, msg)
        PROVE  ChainTypes'
    <3>1. markets' \in Maps
      BY <2>1, WithType DEF CreateMarkets, UpdateMarkets
    <3>2. DOMAIN msg \subseteq Ticker
      BY MarketMapAssumption
    <3>3. pairs' \subseteq Ticker
      BY <2>1, <3>2 DEF CreateMarkets, UpdateMarkets
    <3> QED
      BY <2>1, <3>1, <3>3, MarketMapAssumption DEF CreateMarkets, UpdateMarkets
  <2>2. CASE UpdateParams
    BY <2>2, MarketMapAssumption DEF UpdateParams
  <2>3. ASSUME NEW remove, RemoveMarketAuthorities(remove) PROVE ChainTypes'
    <3>1. authorities' \in Seq(Account)
      BY <2>3, AfterRemovalType DEF RemoveMarketAuthorities
    <3> QED
      BY <2>3, <3>1 DEF RemoveMarketAuthorities
  <2>4. CASE Commit
    BY <2>4, MarketMapAssumption DEF Commit
  <2>5. CASE UNCHANGED chain
    BY <2>5 DEF chain
  <2> QED
    BY <2>1, <2>2, <2>3, <2>4, <2>5 DEF ChainNext
<1> QED
  BY <1>1, <1>2, PTL DEF ChainSpec

\* The sidecar does not touch the chain: what holds of the chain alone holds of both.
THEOREM ChainWithSidecar == Spec => ChainSpec
<1>1. Init => ChainInit
  BY DEF Init
<1>2. [Next]_vars => [ChainNext]_chain
  BY DEF Next, vars, chain
<1> QED
  BY <1>1, <1>2, PTL DEF Spec, ChainSpec

\* The invariant of the sidecar: the types of the loop and the ages of its prices.
LoopInv == LoopTypes /\ AgeBounded

\* It holds in every state.
THEOREM LoopInvariant == Spec => []LoopInv
<1>1. Init => LoopInv
  <2> SUFFICES ASSUME NEW m \in Geneses, LoopInit(m) PROVE LoopInv
    BY DEF Init
  <2>1. LoopTypes
    <3>1. NoPrices \in [Ticker -> {0, NoPrice}]
      BY DEF NoPrices
    <3>2. NoPrices \in [Ticker -> 0..MaxAge \cup {NoPrice}]
      BY DEF NoPrices
    <3>3. 0 \in 0..MaxAge /\ m \in Maps
      BY MarketMapAssumption, IndexPriceAssumption
    <3> QED
      BY <3>1, <3>2, <3>3 DEF LoopInit, LoopTypes
  <2>2. AgeBounded
    BY IndexPriceAssumption DEF LoopInit, AgeBounded
  <2> QED
    BY <2>1, <2>2 DEF LoopInv
<1>2. LoopInv /\ ChainTypes /\ [Next]_vars => LoopInv'
  <2> SUFFICES ASSUME LoopInv, ChainTypes, [Next]_vars PROVE LoopInv'
    OBVIOUS
  <2>1. CASE Listen
    <3>1. cfg' = committed.markets /\ steady' = 0
      BY <2>1 DEF Listen, UpdateMarketMap
    <3>2. LoopTypes'
      BY <2>1, <3>1, IndexPriceAssumption
      DEF Listen, UpdateMarketMap, LoopInv, LoopTypes, ChainTypes
    <3>3. AgeBounded'
      BY <3>1 DEF AgeBounded
    <3> QED
      BY <3>2, <3>3 DEF LoopInv
  <2>2. CASE LoopStep \/ Outage \/ UNCHANGED loop
    BY <2>2, LoopTypesStep, AgeBoundedStep DEF LoopInv
  <2> QED
    BY <2>1, <2>2 DEF Next, vars
<1> QED
  BY <1>1, <1>2, ChainWithSidecar, ChainTypesHold, PTL DEF Spec

\* No index price is older than the normalizations it was made through, once
\* there were as many ticks of the market map.
THEOREM AgeAlwaysBounded == Spec => []AgeBounded
BY LoopInvariant, PTL DEF LoopInv

\* Type correctness of the chain with the sidecar.
THEOREM SidecarTypes == Spec => []TypeOK
<1>1. ChainTypes /\ LoopInv => TypeOK
  <2> SUFFICES ASSUME ChainTypes, LoopInv PROVE TypeOK
    OBVIOUS
  <2>1. providerPrices \in [Provider -> [Ticker -> 0..MaxAge \cup {NoPrice}]]
    BY IndexPriceAssumption DEF LoopInv, LoopTypes
  <2> QED
    BY <2>1, MarketMapAssumption DEF TypeOK, ChainTypes, LoopInv, LoopTypes
<1> QED
  BY <1>1, LoopInvariant, ChainWithSidecar, ChainTypesHold, PTL
=============================================================================

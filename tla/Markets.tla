------------------------------ MODULE Markets ------------------------------
(***************************************************************************)
(* Markets and market maps (x/marketmap/types).  A market is a record:     *)
(* whether it is enabled, the number of providers its price needs, and its *)
(* provider configs, each the provider's name and the pair it is           *)
(* normalized by, if any.  A market map has a market or none per ticker.   *)
(***************************************************************************)
EXTENDS Naturals, FiniteSets

CONSTANTS
    Ticker,         \* the currency pairs that name markets
    Market,         \* the markets, as messages and files describe them
    NoMarket, NoPair

\* What Market.ValidateBasic checks of a market alone, of every market.
ASSUME MarketsAssumption ==
    /\ NoMarket \notin Market
    /\ NoPair \notin Ticker
    /\ \A market \in Market :
          /\ market.minProviderCount \in 1..Cardinality(market.providerConfigs)
          /\ \A c \in market.providerConfigs : c.normalizeBy \in Ticker \cup {NoPair}

Maps == [Ticker -> Market \cup {NoMarket}]

\* The markets that a market is normalized by.
NormalizeBy(market) == {c.normalizeBy : c \in market.providerConfigs} \ {NoPair}

\* MarketMap.ValidateBasic: the markets that others are normalized by exist and,
\* for the enabled ones, are enabled.
ValidateBasic(m) ==
    \A t \in Ticker : m[t] # NoMarket =>
        \A n \in NormalizeBy(m[t]) : m[n] # NoMarket /\ (m[t].enabled => m[n].enabled)
=============================================================================

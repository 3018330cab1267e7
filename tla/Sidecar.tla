------------------------------ MODULE Sidecar ------------------------------
(***************************************************************************)
(* The market map on its way from the chain to the prices: x/marketmap,    *)
(* the orchestrator's listener (oracle/orchestrator/market_mapper.go) that *)
(* polls it, and the oracle loop.  What the market map provider fetched is *)
(* applied in the step that fetches it: the chain does not see the         *)
(* sidecar, so that a map applied late is as good as a chain that is late. *)
(***************************************************************************)
EXTENDS MarketMap, IndexPrice

vars == <<chain, loop>>

Init == ChainInit /\ \E m \in Geneses : ValidateBasic(m) /\ LoopInit(m)

\* A poll of the listener: a map that changed and that UpdateWithMarketMap finds
\* valid is given to the providers and to the aggregator.
Listen ==
    /\ committed.markets # cfg
    /\ ValidateBasic(committed.markets)
    /\ UpdateMarketMap(committed.markets)

Next ==
    \/ ChainNext /\ UNCHANGED loop
    \/ (Listen \/ LoopStep \/ Outage) /\ UNCHANGED chain

\* The tickers of the loop and the listener go on.  Nobody has to send messages,
\* and the chain may stop.
Fairness == WF_vars(LoopStep /\ UNCHANGED chain) /\ WF_vars(Listen /\ UNCHANGED chain)

Spec == Init /\ [][Next]_vars /\ Fairness
-----------------------------------------------------------------------------
(* Properties *)

\* The tickers, markets and prices of the chain, the listener and the loop.
TypeOK ==
    /\ height \in 1..MaxHeight /\ lastUpdated \in 0..height \cup GenesisUpdated
    /\ markets \in Maps
    /\ authorities \in Seq(Account)
    /\ pairs \subseteq Ticker
    /\ committed.markets \in Maps
    /\ cfg \in Maps
    /\ indexPrices \in [Ticker -> 0..MaxAge \cup {NoPrice}]
    /\ providerPrices \in [Provider -> [Ticker -> 0..MaxAge \cup {NoPrice}]]
    /\ toFetch \subseteq Provider
    /\ ticking \in BOOLEAN /\ reliable \in BOOLEAN /\ steady \in 0..MaxAge

\* Once the providers have their prices, every enabled market of the chain's
\* last map that is not normalized in a cycle gets a price and keeps it, through
\* the listener and one tick per normalization; for a map that is not valid the
\* sidecar keeps the one it has (x/marketmap accepts such maps: ValidateState
\* does not look at what is enabled).
EnabledMarketsPriced ==
    <>[]reliable =>
        <>[](ValidateBasic(committed.markets) =>
                /\ cfg = committed.markets
                /\ \A t \in Within(cfg)[MaxAge] : cfg[t].enabled => indexPrices[t] # NoPrice)
=============================================================================

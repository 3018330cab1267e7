----------------------------- MODULE MCSidecar -----------------------------
(***************************************************************************)
(* TLC instance of Sidecar: usdt has prices of its own, btc is normalized  *)
(* by usdt (or not), and eth by btc or, with two providers, by both.  The  *)
(* chain starts with usdt alone.  Disabling usdt makes the map invalid.    *)
(***************************************************************************)
EXTENDS Sidecar, TLC

CONSTANTS usdt, btc, eth, p, q, gov, ann

Direct(name) == [name |-> name, normalizeBy |-> NoPair]
By(name, n) == [name |-> name, normalizeBy |-> n]
Needs(k, configs) == [enabled |-> TRUE, minProviderCount |-> k, providerConfigs |-> configs]
Off(market) == [market EXCEPT !.enabled = FALSE]

Plain == Needs(1, {Direct(p)})
ByUsdt == Needs(1, {By(p, usdt)})
ByBoth == Needs(2, {By(p, btc), By(q, usdt)})

MCMarket == {Plain, Off(Plain), ByUsdt, ByBoth}
MCMsgs ==
    {usdt :> Off(Plain), usdt :> Plain, btc :> ByUsdt, btc :> Plain,
     eth :> ByBoth, (btc :> ByUsdt) @@ (eth :> ByBoth)}
MCGeneses == {[t \in Ticker |-> IF t = usdt THEN Plain ELSE NoMarket]}
MCAuthorities == {<<gov, ann>>}
MCFreshSets == {{btc, eth}, Ticker}
=============================================================================

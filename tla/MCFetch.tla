------------------------------ MODULE MCFetch ------------------------------
(***************************************************************************)
(* TLC instance of Fetch with two ids: an API provider that asks for one   *)
(* id at a time, one that asks twice for both of them in every tick, and a *)
(* websocket provider with one connection and a buffer of one.             *)
(***************************************************************************)
EXTENDS Fetch

CONSTANTS a, b

API(atomic, n) == [type |-> "api", atomic |-> atomic, maxQueries |-> n, batchSize |-> 0]

MCIDs == <<a, b>>
MCConfigs ==
    {API(FALSE, 1), API(TRUE, 2),
     [type |-> "websocket", maxSubscriptionsPerConnection |-> 0, maxBufferSize |-> 1,
      maxReadErrorCount |-> 1]}
=============================================================================

---------------------------- MODULE Orchestrator ----------------------------
(***************************************************************************)
(* A provider in the hands of the orchestrator (oracle/orchestrator).  For *)
(* every new market map UpdateProviderState sets the provider's tickers,   *)
(* stops it if there are none and spawns a call of Start if there are and  *)
(* IsRunning says that it does not run.  It does not wait for the call it  *)
(* stopped, nor for the one it spawned, so that calls of Start may overlap. *)
(* Market maps are applied one after the other (by the lock of             *)
(* UpdateWithMarketMap, and Start's own pass comes before the listener).   *)
(* One provider is enough: providers share nothing.                        *)
(***************************************************************************)
EXTENDS Provider

\* The orchestrator's Start applies the market map it was given to the provider.
OInit == NewProvider("getFetchCtx")

\* A new market map gives the provider the tickers S.
UpdateProviderState(S) == ~root /\ SetIDs(S)

\* The switch after Update: Stop without tickers, a new Start if not running.  It
\* waits for no other call; Calls bounds how many there are together.
Decide ==
    /\ Alive /\ caller = "decide" /\ ids # {}
    /\ caller' = "idle"
    /\ IF IsRunning
       THEN UNCHANGED <<pc, overlapped>>
       ELSE /\ \E t \in Calls : pc[t] = "idle" /\ GoTo(t, "start")
            /\ overlapped' = (overlapped \/ UnderWay # {})
    /\ UNCHANGED <<fields, root, cancelled, cancelledFetch, goroutines, heldCtx, heldMain,
                   crashed>>

DecideStop == ids = {} /\ StopGet("decide")

\* Stop cancels the context of all providers, then waits for the calls of Start.
Stop == CancelRoot

ONext ==
    \/ \E t \in Calls : LoopStep(t) \/ FetchStep(t) \/ QueryStep(t) \/ RecvDone(t)
    \/ \E S \in IDSets : UpdateProviderState(S)
    \/ GetFetchCtx
    \/ CancelFetch("decide")
    \/ Decide
    \/ DecideStop
    \/ StopCancel
    \/ Stop

OFairness ==
    /\ GoroutineFairness
    /\ WF_vars(GetFetchCtx \/ CancelFetch("decide") \/ Decide \/ DecideStop \/ StopCancel)

OSpec == OInit /\ [][ONext]_vars /\ OFairness
=============================================================================

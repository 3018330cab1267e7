------------------------- MODULE OrchestratorProofs -------------------------
(***************************************************************************)
(* Proofs about a provider in the hands of the orchestrator, for any       *)
(* number of calls of Start that are spawned at any time: its state is     *)
(* well typed, and unless calls of Start have overlapped no channel is     *)
(* closed twice and every query is heard.  OrchCrash.cfg has the run in    *)
(* which they do and the provider panics.                                  *)
(***************************************************************************)
EXTENDS Orchestrator, TLAPS

-----------------------------------------------------------------------------
(* Types *)

\* The steps of the loop of Start.
LEMMA StartKeepsType ==
    ASSUME TypeOK, NEW t \in Calls, LoopStep(t)
    PROVE  TypeOK'
<1>1. CASE SetMainCtx(t)
  BY <1>1 DEF TypeOK, SetMainCtx, GoTo, goroutines
<1>2. CASE CheckIDs(t) \/ Wait(t) \/ Again(t)
  BY <1>2 DEF TypeOK, CheckIDs, Wait, Again, GoTo, fields, goroutines, call
<1>3. CASE CreateResponseCh(t)
  BY <1>3 DEF TypeOK, CreateResponseCh, GoTo, call
<1>4. CASE SetFetchCtx(t)
  BY <1>4 DEF TypeOK, SetFetchCtx, GoTo
<1>5. CASE Return(t)
  BY <1>5 DEF TypeOK, Return, GoTo, fields, goroutines, call
<1> QED
  BY <1>1, <1>2, <1>3, <1>4, <1>5 DEF LoopStep

\* The steps of its two goroutines.
LEMMA GoroutineKeepsType ==
    ASSUME TypeOK, NEW t \in Calls, FetchStep(t) \/ QueryStep(t) \/ RecvDone(t)
    PROVE  TypeOK'
<1>1. CASE FetchIDs(t)
  BY <1>1 DEF TypeOK, FetchIDs, FetchUnchanged, call
<1>2. CASE FetchLoop(t)
  BY <1>2, ZenonT(30) DEF TypeOK, FetchLoop, FetchUnchanged, call
<1>3. CASE QueryReturns(t)
  BY <1>3, ZenonT(30) DEF TypeOK, QueryReturns, FetchUnchanged, call
<1>4. CASE FetchCancel(t)
  BY <1>4, ZenonT(30) DEF TypeOK, FetchCancel, FetchUnchanged, call
<1>5. CASE FetchClose(t)
  BY <1>5, ZenonT(30) DEF TypeOK, FetchClose, FetchUnchanged, call
<1>6. CASE RecvDone(t)
  BY <1>6 DEF TypeOK, RecvDone, fields, call
<1>7. CASE QueryBlocks(t) \/ QueryUnblocks(t)
  BY <1>7, ZenonT(30) DEF TypeOK, QueryBlocks, QueryUnblocks, FetchUnchanged, call
<1> QED
  BY <1>1, <1>2, <1>3, <1>4, <1>5, <1>6, <1>7 DEF FetchStep, QueryStep

\* The steps of Update and Stop.
LEMMA CallerKeepsType ==
    ASSUME TypeOK,
           \/ \E S \in IDSets : UpdateProviderState(S)
           \/ GetFetchCtx \/ CancelFetch("decide") \/ Decide \/ DecideStop
           \/ StopCancel \/ Stop
    PROVE  TypeOK'
<1>1. CASE \E S \in IDSets : UpdateProviderState(S)
  BY <1>1 DEF TypeOK, UpdateProviderState, SetIDs, CallUnchanged, goroutines
<1>2. CASE GetFetchCtx \/ CancelFetch("decide") \/ StopCancel
  BY <1>2 DEF TypeOK, GetFetchCtx, CancelFetch, StopCancel, CallUnchanged, goroutines
<1>3. CASE Decide
  BY <1>3 DEF TypeOK, Decide, GoTo, fields, goroutines
<1>4. CASE DecideStop
  BY <1>4 DEF TypeOK, DecideStop, StopGet, CallUnchanged, goroutines
<1>5. CASE Stop
  BY <1>5 DEF TypeOK, Stop, CancelRoot, fields, goroutines, call
<1> QED
  BY <1>1, <1>2, <1>3, <1>4, <1>5

\* Whatever the calls of Start, Update and Stop do together, the fields hold only
\* contexts that a call of Start made, and every loop and goroutine is at a step
\* of the code.
THEOREM ProviderTypes == OSpec => []TypeOK
<1>1. OInit => TypeOK
  BY DEF OInit, NewProvider, TypeOK
<1>2. TypeOK /\ [ONext]_vars => TypeOK'
  <2>1. ASSUME TypeOK, UNCHANGED vars
        PROVE  TypeOK'
    BY <2>1 DEF TypeOK, vars, fields, goroutines, call
  <2> QED
    BY <2>1, StartKeepsType, GoroutineKeepsType, CallerKeepsType DEF ONext
<1> QED
  BY <1>1, <1>2, PTL DEF OSpec

-----------------------------------------------------------------------------
(* Goroutines *)

\* The goroutines of a call only run while its loop waits for them.
GoroutinesWait ==
    \A t \in Calls : fetcher[t] # "off" \/ recver[t] => pc[t] = "wait"

\* Every step keeps it: they are started with the wait and are over at its end.
LEMMA StepKeepsWait ==
    ASSUME TypeOK, GoroutinesWait, [ONext]_vars
    PROVE  GoroutinesWait'
<1>1. ASSUME NEW t \in Calls, LoopStep(t)
      PROVE  GoroutinesWait'
  <2>1. CASE SetFetchCtx(t)
    BY <2>1 DEF TypeOK, GoroutinesWait, SetFetchCtx, GoTo
  <2>2. CASE Wait(t)
    BY <2>2 DEF TypeOK, GoroutinesWait, Wait, GoTo, goroutines
  <2>3. CASE \/ SetMainCtx(t) \/ CheckIDs(t) \/ CreateResponseCh(t)
             \/ Again(t) \/ Return(t)
    BY <2>3 DEF TypeOK, GoroutinesWait, SetMainCtx, CheckIDs, CreateResponseCh, Again,
                Return, GoTo, goroutines
  <2> QED
    BY <1>1, <2>1, <2>2, <2>3 DEF LoopStep
<1>2. ASSUME NEW t \in Calls, FetchStep(t) \/ QueryStep(t)
      PROVE  GoroutinesWait'
  <2>1. /\ pc' = pc /\ recver' = recver /\ fetcher[t] # "off"
        /\ \A u \in Calls : u # t => fetcher'[u] = fetcher[u]
    BY <1>2 DEF TypeOK, FetchStep, QueryStep, FetchIDs, FetchLoop, FetchCancel, FetchClose,
                QueryReturns, QueryBlocks, QueryUnblocks, FetchUnchanged
  <2> QED
    BY <2>1 DEF GoroutinesWait
<1>3. ASSUME NEW t \in Calls, RecvDone(t)
      PROVE  GoroutinesWait'
  BY <1>3 DEF TypeOK, GoroutinesWait, RecvDone
<1>4. CASE Decide
  BY <1>4 DEF TypeOK, GoroutinesWait, Decide, GoTo, goroutines
<1>5. CASE \/ \E S \in IDSets : UpdateProviderState(S)
           \/ GetFetchCtx \/ CancelFetch("decide") \/ DecideStop \/ StopCancel \/ Stop
           \/ UNCHANGED vars
  <2>1. UNCHANGED <<pc, fetcher, recver>>
    BY <1>5 DEF UpdateProviderState, SetIDs, GetFetchCtx, CancelFetch, DecideStop, StopGet,
                StopCancel, Stop, CancelRoot, CallUnchanged, vars, goroutines
  <2> QED
    BY <2>1 DEF GoroutinesWait
<1> QED
  BY <1>1, <1>2, <1>3, <1>4, <1>5 DEF ONext

-----------------------------------------------------------------------------
(* Calls that do not overlap *)

\* At most one call of Start is under way; while its fetch goroutine runs, and
\* from the moment that a channel was made for it, the channel is open; a query
\* has that channel.
CallsApart ==
    /\ ~crashed
    /\ \A s, t \in UnderWay : s = t
    /\ \A t \in Calls :
          /\ fetcher[t] # "off" \/ pc[t] = "context" => responseCh = "open"
          /\ fetcher[t] \in {"query", "blocked"} => heard[t]

\* The inductive invariant: calls are apart unless they have overlapped.
ProviderInv ==
    /\ TypeOK
    /\ GoroutinesWait
    /\ ~overlapped => CallsApart

\* The steps of the loop.  A new channel is made when no goroutine runs, and when
\* the last of overlapping calls returns none is under way.
LEMMA StartKeepsApart ==
    ASSUME ProviderInv, NEW t \in Calls, LoopStep(t), ~overlapped'
    PROVE  CallsApart'
<1> USE DEF UnderWay
<1>1. CASE SetMainCtx(t) \/ CheckIDs(t) \/ Wait(t) \/ Again(t)
  BY <1>1 DEF ProviderInv, TypeOK, CallsApart, SetMainCtx, CheckIDs, Wait, Again, GoTo,
              fields, goroutines
<1>2. CASE CreateResponseCh(t)
  <2>1. \A u \in Calls : fetcher[u] = "off"
    BY <1>2 DEF ProviderInv, TypeOK, GoroutinesWait, CallsApart, CreateResponseCh
  <2> QED
    BY <1>2, <2>1 DEF ProviderInv, TypeOK, CallsApart, CreateResponseCh, GoTo
<1>3. CASE SetFetchCtx(t)
  BY <1>3 DEF ProviderInv, TypeOK, CallsApart, SetFetchCtx, GoTo
<1>4. CASE Return(t)
  <2>1. \A u \in Calls : u # t => pc[u] = "idle"
    BY <1>4 DEF ProviderInv, TypeOK, CallsApart, Return
  <2>2. \A u \in Calls : fetcher[u] = "off" /\ pc'[u] = "idle"
    BY <1>4, <2>1 DEF ProviderInv, TypeOK, GoroutinesWait, Return, GoTo
  <2> QED
    BY <1>4, <2>2 DEF CallsApart, Return, Alive, goroutines
<1> QED
  BY <1>1, <1>2, <1>3, <1>4 DEF LoopStep

\* The steps of the goroutines.  When the channel is closed nobody else uses it.
LEMMA GoroutineKeepsApart ==
    ASSUME ProviderInv, NEW t \in Calls, ~overlapped',
           FetchStep(t) \/ QueryStep(t) \/ RecvDone(t)
    PROVE  CallsApart'
<1> USE DEF UnderWay
<1>1. CASE FetchIDs(t)
  BY <1>1 DEF ProviderInv, TypeOK, CallsApart, FetchIDs, FetchUnchanged
<1>2. CASE FetchLoop(t)
  BY <1>2 DEF ProviderInv, TypeOK, CallsApart, FetchLoop, FetchUnchanged
<1>3. CASE QueryStep(t)
  BY <1>3 DEF ProviderInv, TypeOK, CallsApart, QueryStep, QueryReturns, QueryBlocks,
              QueryUnblocks, FetchUnchanged
<1>4. CASE FetchCancel(t)
  BY <1>4 DEF ProviderInv, TypeOK, CallsApart, FetchCancel, FetchUnchanged
<1>5. CASE FetchClose(t)
  <2>1. \A u \in Calls : u # t => pc[u] = "idle" /\ fetcher[u] = "off"
    BY <1>5 DEF ProviderInv, TypeOK, GoroutinesWait, CallsApart, FetchClose, FetchUnchanged
  <2>2. pc[t] = "wait" /\ responseCh = "open"
    BY <1>5 DEF ProviderInv, GoroutinesWait, CallsApart, FetchClose, FetchUnchanged
  <2> QED
    BY <1>5, <2>1, <2>2 DEF ProviderInv, TypeOK, CallsApart, FetchClose, FetchUnchanged
<1>6. CASE RecvDone(t)
  BY <1>6 DEF ProviderInv, TypeOK, CallsApart, RecvDone, fields
<1> QED
  BY <1>1, <1>2, <1>3, <1>4, <1>5, <1>6 DEF FetchStep

\* The steps of Update and Stop, which leave the goroutines and the channel alone,
\* and the one that spawns a call: it overlaps with any other.
LEMMA CallerKeepsApart ==
    ASSUME ProviderInv, ~overlapped',
           \/ \E S \in IDSets : UpdateProviderState(S)
           \/ GetFetchCtx \/ CancelFetch("decide") \/ Decide \/ DecideStop
           \/ StopCancel \/ Stop
    PROVE  CallsApart'
<1> USE DEF UnderWay
<1>1. CASE Decide
  <2>1. CASE IsRunning
    BY <1>1, <2>1 DEF ProviderInv, CallsApart, Decide, fields, goroutines
  <2>2. CASE ~IsRunning
    <3>1. PICK t \in Calls : pc' = [pc EXCEPT ![t] = "start"]
      BY <1>1, <2>2 DEF Decide, GoTo
    <3>2. \A u \in Calls : pc[u] = "idle" /\ ~overlapped
      BY <1>1, <2>2 DEF Decide
    <3> QED
      BY <1>1, <3>1, <3>2 DEF ProviderInv, TypeOK, CallsApart, Decide, fields, goroutines
  <2> QED
    BY <2>1, <2>2
<1>2. CASE \/ \E S \in IDSets : UpdateProviderState(S)
           \/ GetFetchCtx \/ CancelFetch("decide") \/ DecideStop \/ StopCancel \/ Stop
  <2>1. UNCHANGED <<pc, responseCh, fetcher, heard, crashed, overlapped>>
    BY <1>2 DEF UpdateProviderState, SetIDs, GetFetchCtx, CancelFetch, DecideStop, StopGet,
                StopCancel, Stop, CancelRoot, CallUnchanged, fields, goroutines
  <2> QED
    BY <2>1 DEF ProviderInv, CallsApart
<1> QED
  BY <1>1, <1>2

\* The invariant holds of every state.
LEMMA ProviderInvariant == OSpec => []ProviderInv
<1>1. OInit => ProviderInv
  <2> SUFFICES ASSUME OInit PROVE ProviderInv
    OBVIOUS
  <2>1. TypeOK
    BY DEF OInit, NewProvider, TypeOK
  <2>2. GoroutinesWait /\ CallsApart
    BY DEF OInit, NewProvider, GoroutinesWait, CallsApart, UnderWay
  <2> QED
    BY <2>1, <2>2 DEF ProviderInv
<1>2. ProviderInv /\ TypeOK' /\ [ONext]_vars => ProviderInv'
  <2> SUFFICES ASSUME ProviderInv, TypeOK', [ONext]_vars
               PROVE  ProviderInv'
    OBVIOUS
  <2>1. GoroutinesWait'
    BY StepKeepsWait DEF ProviderInv
  <2>2. ASSUME ~overlapped', UNCHANGED vars
        PROVE  CallsApart'
    BY <2>2 DEF ProviderInv, CallsApart, UnderWay, vars, fields, goroutines
  <2>3. ~overlapped' => CallsApart'
    BY <2>2, StartKeepsApart, GoroutineKeepsApart, CallerKeepsApart DEF ONext
  <2> QED
    BY <2>1, <2>3 DEF ProviderInv
<1> QED
  BY <1>1, <1>2, ProviderTypes, PTL DEF OSpec

\* However many calls of Start there are, no goroutine of the provider panics
\* unless one was spawned while another had not returned: each response channel
\* is closed once, by the fetch goroutine it was made for.
THEOREM CrashAlwaysNeedsOverlap == OSpec => []CrashNeedsOverlap
<1>1. ProviderInv => CrashNeedsOverlap
  BY DEF ProviderInv, CallsApart, CrashNeedsOverlap
<1> QED
  BY <1>1, ProviderInvariant, PTL

\* Unless calls of Start have overlapped, a query that is under way, stuck with
\* its error or not, is the only one, and has the open channel of the provider.
THEOREM QueryAlwaysHeard == OSpec => []QueryIsHeard
<1>1. ProviderInv => QueryIsHeard
  <2> SUFFICES ASSUME ProviderInv, NEW t \in Calls,
                      fetcher[t] \in {"query", "blocked"}, ~overlapped
               PROVE  /\ heard[t] /\ responseCh = "open"
                      /\ \A u \in Calls \ {t} : fetcher[u] = "off"
    BY DEF QueryIsHeard
  <2>1. heard[t] /\ responseCh = "open"
    BY DEF ProviderInv, CallsApart
  <2>2. pc[t] = "wait"
    BY DEF ProviderInv, GoroutinesWait
  <2>3. \A u \in Calls \ {t} : fetcher[u] = "off"
    BY <2>2 DEF ProviderInv, GoroutinesWait, CallsApart, UnderWay
  <2> QED
    BY <2>1, <2>3
<1> QED
  BY <1>1, ProviderInvariant, PTL
=============================================================================

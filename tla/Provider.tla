------------------------------ MODULE Provider ------------------------------
(***************************************************************************)
(* The life cycle of a base provider (providers/base): Start runs a loop   *)
(* that spawns a fetch and a recv goroutine, waits for both and goes       *)
(* around again until its main context is cancelled; Update changes the    *)
(* ids and cancels the fetch context so that the loop goes around; Stop    *)
(* cancels the main context.  All of them share the fields of the          *)
(* provider, and a step of the model is what happens between two accesses. *)
(*                                                                         *)
(* A context is named by the call of Start that made it.  A call's fetch   *)
(* context and channel are the last ones it made: the goroutines of older  *)
(* ones are over, and cancelling an older context has no effect.  What     *)
(* travels over the channel is left out, but not whether it can: a         *)
(* websocket handler that could not connect sends the error without a look *)
(* at its context, and stays when nobody receives it.                      *)
(***************************************************************************)
EXTENDS Naturals

CONSTANTS
    Calls,      \* the calls of Start under way; one that returned may be reused
    IDSets,     \* the sets of ids that Update may set; {} among them
    None

ASSUME ProviderAssumption == None \notin Calls

VARIABLES
    ids,            \* p.ids
    mainCtx,        \* p.mainCtx: the call of Start that made it, or None
    fetchCtx,       \* p.fetchCtx: likewise
    responseCh,     \* p.responseCh: None, "open" or "closed"
    root,           \* is the context given to Start cancelled?
    cancelled,      \* the calls whose main context is cancelled
    cancelledFetch, \* the calls whose fetch context is cancelled
    pc,             \* per call: the step of Start's loop
    fetcher,        \* per call: the step of its fetch goroutine
    fetchIDs,       \* per call: the ids it fetches
    heard,          \* per call: is the channel that its Query writes to the
                    \* one of the provider?
    recver,         \* per call: does its recv goroutine run?
    caller,         \* the step of the caller of Update and Stop
    heldCtx,        \* the fetch context the caller is about to cancel
    heldMain,       \* the main context the caller is about to cancel
    crashed,        \* has a goroutine panicked without a recover?
    overlapped      \* history: since no call of Start was under way, has one
                    \* been spawned beside another?

fields == <<ids, mainCtx, fetchCtx, responseCh>>
goroutines == <<fetcher, fetchIDs, heard, recver>>
call == <<caller, heldCtx, heldMain>>
vars == <<fields, root, cancelled, cancelledFetch, pc, goroutines, call, crashed,
          overlapped>>

-----------------------------------------------------------------------------
(* Contexts *)

\* The process has not died of a panic.
Alive == ~crashed

mainDone(t) == root \/ t \in cancelled

\* Mutant: the fetch context does not derive from the main context.
fetchDoneAlone(t) == t \in cancelledFetch

\* Is the fetch context of a call done?  It derives from the call's main context.
fetchDone(t) == t \in cancelledFetch \/ mainDone(t)

-----------------------------------------------------------------------------
(* Start *)

\* A new provider, with the ids of WithIDs, and the caller's next step.
NewProvider(step) ==
    /\ ids \in IDSets
    /\ mainCtx = None /\ fetchCtx = None /\ responseCh = None
    /\ root = FALSE
    /\ cancelled = {} /\ cancelledFetch = {}
    /\ pc = [t \in Calls |-> "idle"]
    /\ fetcher = [t \in Calls |-> "off"]
    /\ fetchIDs = [t \in Calls |-> {}]
    /\ heard = [t \in Calls |-> FALSE]
    /\ recver = [t \in Calls |-> FALSE]
    /\ caller = step /\ heldCtx = None /\ heldMain = None
    /\ crashed = FALSE /\ overlapped = FALSE

\* The calls of Start that were spawned and have not returned.
UnderWay == {t \in Calls : pc[t] # "idle"}

GoTo(t, step) == pc' = [pc EXCEPT ![t] = step]

\* setMainCtx
SetMainCtx(t) ==
    /\ Alive /\ pc[t] = "start"
    /\ mainCtx' = t
    /\ cancelled' = cancelled \ {t}
    /\ heldMain' = IF heldMain = t THEN None ELSE heldMain
    /\ GoTo(t, "ids")
    /\ UNCHANGED <<ids, fetchCtx, responseCh, root, cancelledFetch, goroutines,
                   caller, heldCtx, crashed, overlapped>>

\* The head of the loop: without ids Start returns.
CheckIDs(t) ==
    /\ Alive /\ pc[t] = "ids"
    /\ GoTo(t, IF ids = {} THEN "return" ELSE "channel")
    /\ UNCHANGED <<fields, root, cancelled, cancelledFetch, goroutines, call, crashed,
                   overlapped>>

\* Mutant: a channel is only made once.
CreateResponseChOnce(t) ==
    /\ Alive /\ pc[t] = "channel"
    /\ responseCh' = IF responseCh = None THEN "open" ELSE responseCh
    /\ GoTo(t, "context")
    /\ UNCHANGED <<ids, mainCtx, fetchCtx, root, cancelled, cancelledFetch,
                   goroutines, call, crashed, overlapped>>

CreateResponseCh(t) ==
    /\ Alive /\ pc[t] = "channel"
    /\ responseCh' = "open"
    /\ heard' = [u \in Calls |-> FALSE]
    /\ GoTo(t, "context")
    /\ UNCHANGED <<ids, mainCtx, fetchCtx, root, cancelled, cancelledFetch, fetcher,
                   fetchIDs, recver, call, crashed, overlapped>>

\* setFetchCtx(mainCtx), mainCtx being the one this call has made; then the two
\* goroutines are started.
SetFetchCtx(t) ==
    /\ Alive /\ pc[t] = "context"
    /\ fetchCtx' = t
    /\ cancelledFetch' = cancelledFetch \ {t}
    /\ heldCtx' = IF heldCtx = t THEN None ELSE heldCtx
    /\ fetcher' = [fetcher EXCEPT ![t] = "ids"]
    /\ recver' = [recver EXCEPT ![t] = TRUE]
    /\ GoTo(t, "wait")
    /\ UNCHANGED <<ids, mainCtx, responseCh, root, cancelled, fetchIDs, heard,
                   caller, heldMain, crashed, overlapped>>

\* Mutant: the loop does not wait for the fetch goroutine.
WaitForRecv(t) ==
    /\ Alive /\ pc[t] = "wait"
    /\ ~recver[t]
    /\ GoTo(t, "again")
    /\ UNCHANGED <<fields, root, cancelled, cancelledFetch, goroutines, call, crashed,
                   overlapped>>

\* wg.Wait
Wait(t) ==
    /\ Alive /\ pc[t] = "wait"
    /\ fetcher[t] = "off" /\ ~recver[t]
    /\ GoTo(t, "again")
    /\ UNCHANGED <<fields, root, cancelled, cancelledFetch, goroutines, call, crashed,
                   overlapped>>

\* The loop ends if the main context is done: the one that the field holds now.
Again(t) ==
    /\ Alive /\ pc[t] = "again"
    /\ GoTo(t, IF mainDone(mainCtx) THEN "return" ELSE "ids")
    /\ UNCHANGED <<fields, root, cancelled, cancelledFetch, goroutines, call, crashed,
                   overlapped>>

\* Start returns: the deferred mainCancel.
Return(t) ==
    /\ Alive /\ pc[t] = "return"
    /\ cancelled' = cancelled \cup {t}
    /\ GoTo(t, "idle")
    /\ overlapped' = (overlapped /\ UnderWay \ {t} # {})
    /\ UNCHANGED <<fields, root, cancelledFetch, goroutines, call, crashed>>

-----------------------------------------------------------------------------
(* The goroutines of a call of Start *)

FetchUnchanged ==
    UNCHANGED <<ids, mainCtx, fetchCtx, root, cancelled, pc, recver, call, overlapped>>

\* startAPI or startMultiplexWebsocket reads the ids.  Ids that were taken away
\* since CheckIDs may make no websocket task at all: fetch then returns at once.
FetchIDs(t) ==
    /\ Alive /\ fetcher[t] = "ids"
    /\ \E step \in {"loop"} \cup (IF ids = {} THEN {"cancel"} ELSE {}) :
          fetcher' = [fetcher EXCEPT ![t] = step]
    /\ fetchIDs' = [fetchIDs EXCEPT ![t] = ids]
    /\ FetchUnchanged /\ UNCHANGED <<responseCh, cancelledFetch, heard, crashed>>

\* A turn of its loop: Query (or the websocket handler's Start) is called with
\* the channel that the field holds now, unless the context is done.
FetchLoop(t) ==
    /\ Alive /\ fetcher[t] = "loop"
    /\ IF fetchDone(t)
       THEN /\ fetcher' = [fetcher EXCEPT ![t] = "cancel"]
            /\ fetchIDs' = [fetchIDs EXCEPT ![t] = {}]
            /\ UNCHANGED heard
       ELSE /\ fetcher' = [fetcher EXCEPT ![t] = "query"]
            /\ heard' = [heard EXCEPT ![t] = TRUE]
            /\ UNCHANGED fetchIDs
    /\ FetchUnchanged /\ UNCHANGED <<responseCh, cancelledFetch, crashed>>

\* Query returns when its context is done; a lost connection, an error that was
\* sent and a recovered panic may end it before.
QueryReturns(t) ==
    /\ Alive /\ fetcher[t] = "query"
    /\ fetcher' = [fetcher EXCEPT ![t] = "loop"]
    /\ heard' = [heard EXCEPT ![t] = FALSE]
    /\ FetchUnchanged /\ UNCHANGED <<responseCh, cancelledFetch, fetchIDs, crashed>>

\* Does somebody take what the query of a call sends?  Of a channel that the
\* provider no longer has it is not known.
Received(t) == responseCh = "closed" \/ \E u \in Calls : recver[u]

\* The websocket handler could not start its connection, and waits to send the
\* error whether its context is done or not.
QueryBlocks(t) ==
    /\ Alive /\ fetcher[t] = "query"
    /\ heard[t] => ~Received(t)
    /\ fetcher' = [fetcher EXCEPT ![t] = "blocked"]
    /\ FetchUnchanged /\ UNCHANGED <<responseCh, cancelledFetch, fetchIDs, heard, crashed>>

\* The error is received, or the channel is closed and the panic recovered.
QueryUnblocks(t) ==
    /\ Alive /\ fetcher[t] = "blocked"
    /\ heard[t] => Received(t)
    /\ fetcher' = [fetcher EXCEPT ![t] = "loop"]
    /\ heard' = [heard EXCEPT ![t] = FALSE]
    /\ FetchUnchanged /\ UNCHANGED <<responseCh, cancelledFetch, fetchIDs, crashed>>

\* fetchCancel
FetchCancel(t) ==
    /\ Alive /\ fetcher[t] = "cancel"
    /\ cancelledFetch' = cancelledFetch \cup {t}
    /\ fetcher' = [fetcher EXCEPT ![t] = "close"]
    /\ FetchUnchanged /\ UNCHANGED <<responseCh, fetchIDs, heard, crashed>>

\* close(p.responseCh).  Nothing recovers the panic of closing a closed channel.
FetchClose(t) ==
    /\ Alive /\ fetcher[t] = "close"
    /\ responseCh' = "closed"
    /\ crashed' = (responseCh = "closed")
    /\ fetcher' = [fetcher EXCEPT ![t] = "off"]
    /\ FetchUnchanged /\ UNCHANGED <<cancelledFetch, fetchIDs, heard>>

\* recv ends when its context is done.
RecvDone(t) ==
    /\ Alive /\ recver[t] /\ fetchDone(t)
    /\ recver' = [recver EXCEPT ![t] = FALSE]
    /\ UNCHANGED <<fields, root, cancelled, cancelledFetch, pc, fetcher, fetchIDs, heard,
                   call, crashed, overlapped>>

-----------------------------------------------------------------------------
(* Update and Stop.  Each step ends where the caller takes the lock again. *)

CallUnchanged ==
    UNCHANGED <<mainCtx, fetchCtx, responseCh, root, pc, goroutines, crashed,
                overlapped>>

\* Update: setIDs
SetIDs(S) ==
    /\ Alive /\ caller = "idle"
    /\ ids' = S
    /\ caller' = "getFetchCtx"
    /\ CallUnchanged /\ UNCHANGED <<cancelled, cancelledFetch, heldCtx, heldMain>>

\* Update: getFetchCtx
GetFetchCtx ==
    /\ Alive /\ caller = "getFetchCtx"
    /\ heldCtx' = fetchCtx
    /\ caller' = "cancelFetch"
    /\ CallUnchanged /\ UNCHANGED <<ids, cancelled, cancelledFetch, heldMain>>

\* Mutant: the fetch loop is not restarted.
CancelNothing(next) ==
    /\ Alive /\ caller = "cancelFetch"
    /\ heldCtx' = None
    /\ caller' = next
    /\ CallUnchanged /\ UNCHANGED <<ids, cancelled, cancelledFetch, heldMain>>

\* Mutant: the cancel function is called though there may be none.
CancelUnchecked(next) ==
    /\ Alive /\ caller = "cancelFetch"
    /\ cancelledFetch' = cancelledFetch \cup {heldCtx}
    /\ heldCtx' = None
    /\ caller' = next
    /\ CallUnchanged /\ UNCHANGED <<ids, cancelled, heldMain>>

\* Update: cancel the fetch context, if there was one; next is what follows.
CancelFetch(next) ==
    /\ Alive /\ caller = "cancelFetch"
    /\ cancelledFetch' = cancelledFetch \cup ({heldCtx} \ {None})
    /\ heldCtx' = None
    /\ caller' = next
    /\ CallUnchanged /\ UNCHANGED <<ids, cancelled, heldMain>>

IsRunning == mainCtx # None /\ ~mainDone(mainCtx)

\* Stop: getMainCtx, and the check that it is not done.
StopGet(from) ==
    /\ Alive /\ caller = from
    /\ IF IsRunning
       THEN caller' = "cancelMain" /\ heldMain' = mainCtx
       ELSE caller' = "idle" /\ UNCHANGED heldMain
    /\ CallUnchanged /\ UNCHANGED <<ids, cancelled, cancelledFetch, heldCtx>>

\* Stop: cancelMain
StopCancel ==
    /\ Alive /\ caller = "cancelMain"
    /\ cancelled' = cancelled \cup ({heldMain} \ {None})
    /\ heldMain' = None
    /\ caller' = "idle"
    /\ CallUnchanged /\ UNCHANGED <<ids, cancelledFetch, heldCtx>>

-----------------------------------------------------------------------------
(* The steps of the goroutines, for the module that composes them *)

\* The caller cancels the context it gave to Start, for good.
CancelRoot ==
    /\ Alive /\ ~root
    /\ root' = TRUE
    /\ UNCHANGED <<fields, cancelled, cancelledFetch, pc, goroutines, call, crashed,
                   overlapped>>

LoopStep(t) ==
    \/ SetMainCtx(t) \/ CheckIDs(t) \/ CreateResponseCh(t) \/ SetFetchCtx(t)
    \/ Wait(t) \/ Again(t) \/ Return(t)

FetchStep(t) == FetchIDs(t) \/ FetchLoop(t) \/ FetchCancel(t) \/ FetchClose(t)

QueryStep(t) == QueryReturns(t) \/ QueryBlocks(t) \/ QueryUnblocks(t)

\* What the loop of a call or its fetch goroutine must do: one waits while the
\* other runs.  Query heeds its context unless it blocks, and nothing says that a
\* query that blocks goes on.
CallStep(t) ==
    \/ LoopStep(t)
    \/ FetchStep(t)
    \/ fetchDone(t) /\ (QueryReturns(t) \/ QueryBlocks(t))

\* The Go scheduler runs every goroutine that can run.  Nobody has to call Start,
\* Update or Stop.
GoroutineFairness ==
    \A t \in Calls :
        /\ WF_vars(CallStep(t))
        /\ WF_vars(RecvDone(t))

-----------------------------------------------------------------------------
(* Properties *)

\* The fields of the provider only hold contexts that Start has made, and its
\* loop and goroutines are at one of the steps of the code.
TypeOK ==
    /\ ids \in SUBSET UNION IDSets
    /\ mainCtx \in Calls \cup {None}
    /\ fetchCtx \in Calls \cup {None}
    /\ responseCh \in {None, "open", "closed"}
    /\ root \in BOOLEAN /\ crashed \in BOOLEAN /\ overlapped \in BOOLEAN
    /\ cancelled \subseteq Calls /\ cancelledFetch \subseteq Calls
    /\ pc \in [Calls -> {"idle", "start", "ids", "channel", "context", "wait", "again", "return"}]
    /\ fetcher \in [Calls -> {"off", "ids", "loop", "query", "blocked", "cancel", "close"}]
    /\ fetchIDs \in [Calls -> SUBSET UNION IDSets]
    /\ heard \in [Calls -> BOOLEAN]
    /\ recver \in [Calls -> BOOLEAN]
    /\ caller \in {"idle", "getFetchCtx", "cancelFetch", "decide", "cancelMain"}
    /\ heldCtx \in Calls \cup {None}
    /\ heldMain \in Calls \cup {None}

\* No goroutine of a provider panics (execProviderFn's recover only covers the
\* goroutine that calls Start): a response channel is never closed twice.
NeverCrashes == ~crashed

\* A goroutine of a provider panics only when a call of Start was spawned while
\* another had not returned: a channel is closed once by the fetch goroutine that
\* it was made for, and only a second call can come between.
CrashNeedsOverlap == crashed => overlapped

\* While a query is under way and calls of Start have not overlapped, it writes
\* to the channel that recv reads, which is open, and it is the only query: no
\* response is sent into a void or panics.
QueryIsHeard ==
    \A t \in Calls : fetcher[t] \in {"query", "blocked"} /\ ~overlapped =>
        /\ heard[t] /\ responseCh = "open"
        /\ \A u \in Calls \ {t} : fetcher[u] = "off"

\* Once the ids stay the same and calls of Start do not overlap, every query that
\* goes on is for exactly those ids, wherever the loop was when Update set them.
\* The exception is a websocket handler that is stuck with its error.
QueriesUseLatestIDs ==
    \A S \in IDSets :
        <>[](ids = S /\ Alive /\ ~overlapped) =>
            <>[](\A t \in Calls : fetcher[t] = "query" => fetchIDs[t] = S)

\* A call of Start that is about to end: the context it was given is cancelled,
\* or its own main context is and no other call has put another in its place,
\* which is the one that the loop would look at.  A websocket handler that is stuck
\* with its error keeps its call; nothing else does.
Ending(t) ==
    /\ Alive /\ t \in UnderWay /\ fetcher[t] # "blocked"
    /\ root \/ (t \in cancelled /\ mainCtx = t /\ pc[t] # "start")

\* A call of Start that was stopped returns, overlapping calls too: none goes on
\* for ever, so that the orchestrator's Stop, which waits for them, returns unless
\* a websocket handler is stuck.
StopEndsStart == \A t \in Calls : []<>~Ending(t)
=============================================================================

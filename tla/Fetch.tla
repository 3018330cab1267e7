------------------------------- MODULE Fetch -------------------------------
(***************************************************************************)
(* How the prices of an exchange get into a provider's data: the API query *)
(* handler with its pool of tasks, or a websocket handler per connection   *)
(* (providers/base/api/handlers, providers/base/websocket/handlers), the   *)
(* response channel, and recv (providers/base/fetch.go).  All of it lives  *)
(* in a fetch context; when that is cancelled everything ends and the      *)
(* provider begins anew (module Provider) with the data it has.            *)
(*                                                                         *)
(* A price is named by the trade that made it, and trades are numbered in  *)
(* order.  Websocket messages are those of Coinbase, whose heartbeats may  *)
(* only confirm the last price.  Messages of a connection may be reordered *)
(* by the exchange, but none is older than the connection.                 *)
(***************************************************************************)
EXTENDS Naturals, Sequences, FiniteSets, FiniteSetsExt, SequencesExt

CONSTANTS
    IDs,        \* the ids of the provider, a sequence
    Configs,    \* the configurations it may have
    Worker,     \* the tasks or connections at a time, 1..n
    None,
    MaxTrade, MaxTime   \* bounds: trades, and different timestamps

ID == ToSet(IDs)

\* The fields of APIConfig or of WebSocketConfig that matter.
APIConfig == [type : {"api"}, atomic : BOOLEAN, maxQueries : Nat \ {0}, batchSize : Nat]
WebSocketConfig ==
    [type : {"websocket"}, maxSubscriptionsPerConnection : Nat, maxBufferSize : Nat \ {0},
     maxReadErrorCount : Nat \ {0}]

ASSUME FetchAssumption ==
    /\ IDs \in Seq(ID) /\ IDs # <<>> /\ IsInjective(IDs)
    /\ Configs \subseteq APIConfig \cup WebSocketConfig
    /\ Worker \subseteq Nat \ {0}
    /\ None \notin [trade : Nat, said : Nat, time : Nat]
    /\ MaxTrade \in Nat \ {0} /\ MaxTime \in Nat

VARIABLES
    config,         \* the configuration of the provider
    trade, clock,   \* the last trade of the exchange, and the time
    done,           \* is the fetch context cancelled?
    main,           \* the step of fetch: Query's loop, or the wait for connections
    toStart,        \* the tasks that the tick has yet to start
    index,          \* the next of the tasks
    pc,             \* per worker: the step of the task or connection
    job,            \* per worker: the ids it asks for
    resp,           \* per worker: the response it is about to write
    handler,        \* per worker and id: the sequence number and trade id seen
    since,          \* per worker: the trade its connection began with
    readErrCount,   \* per worker
    responseCh,     \* the buffer of the channel
    receiving,      \* does recv run?
    data            \* p.data: per id the price, its timestamp and, as history,
                    \* the trade the exchange had named at that time; or None

query == <<main, toStart, index>>
connections == <<handler, since, readErrCount>>
workers == <<pc, job, resp, connections>>
vars == <<config, trade, clock, done, query, workers, responseCh, receiving, data>>

Result(ids, code, k, time) == [ids |-> ids, code |-> code, trade |-> k, time |-> time]
Failed == Result({}, "error", 0, 0)

IsAPI == config.type = "api"

\* createResponseCh: the buffer has a place per id, or MaxBufferSize of them.
Capacity == IF IsAPI THEN Len(IDs) ELSE config.maxBufferSize

Full == Len(responseCh) >= Capacity

\* ids in pieces of n; the last one may be shorter.
Split(n) ==
    [i \in 1..((Len(IDs) + n - 1) \div n) |->
        ToSet(SubSeq(IDs, (i - 1) * n + 1, Min({Len(IDs), i * n})))]

\* Query: the tasks, the tasks that may run at a time, and those of a tick.
Tasks == IF config.atomic THEN <<ID>> ELSE Split(Max({1, config.batchSize}))
Slots == Min({config.maxQueries, Len(IDs)})
Limit == IF config.atomic THEN Slots ELSE Min({Slots, Len(Tasks)})

\* startMultiplexWebsocket: the ids of every connection.
SubTasks ==
    IF config.maxSubscriptionsPerConnection > 0
    THEN Split(config.maxSubscriptionsPerConnection)
    ELSE <<ID>>

-----------------------------------------------------------------------------
(* A fetch context begins: a new channel, recv, and Query's loop or a      *)
(* goroutine per connection with a handler of its own.                     *)

NothingSeen == [w \in Worker |-> [id \in ID |-> [sequence |-> 0, tradeID |-> 0]]]

\* Mutant: a copy of the handler goes on with what was seen.
CopyShared == handler

\* Every connection of a fetch context gets a copy of the handler.
Copy == NothingSeen

FirstStep == IF IsAPI THEN "loop" ELSE "connections"
FirstJob == [w \in Worker |-> IF IsAPI \/ w > Len(SubTasks) THEN {} ELSE SubTasks[w]]
FirstPC == [w \in Worker |-> IF FirstJob[w] = {} THEN "idle" ELSE "loop"]
Nothing == [w \in Worker |-> None]
Zero == [w \in Worker |-> 0]

Init ==
    /\ config \in Configs
    /\ trade = 1 /\ clock = 0
    /\ main = FirstStep /\ toStart = 0 /\ index = 1
    /\ pc = FirstPC /\ job = FirstJob /\ resp = Nothing
    /\ handler = NothingSeen /\ since = Zero /\ readErrCount = Zero
    /\ responseCh = <<>> /\ receiving = TRUE /\ done = FALSE
    /\ data = [id \in ID |-> None]

\* The loop of Provider.Start has waited for fetch and recv and goes around.
Again ==
    /\ main = "closed" /\ ~receiving
    /\ main' = FirstStep /\ toStart' = 0 /\ index' = 1
    /\ pc' = FirstPC /\ job' = FirstJob /\ resp' = Nothing
    /\ handler' = Copy /\ since' = Zero /\ readErrCount' = Zero
    /\ responseCh' = <<>> /\ receiving' = TRUE /\ done' = FALSE
    /\ UNCHANGED <<config, trade, clock, data>>

\* Update, Stop or the main context cancels the fetch context.
Cancel ==
    /\ ~done
    /\ done' = TRUE
    /\ UNCHANGED <<config, trade, clock, query, workers, responseCh, receiving, data>>

Trade ==
    /\ trade < MaxTrade
    /\ trade' = trade + 1
    /\ UNCHANGED <<config, clock, done, query, workers, responseCh, receiving, data>>

\* The goroutines are over: fetch returns, and its context is cancelled before
\* the channel is closed.
FetchReturns ==
    /\ \/ main = "returned"
       \/ main = "connections" /\ \A w \in Worker : pc[w] = "idle"
    /\ main' = "closed"
    /\ done' = TRUE
    /\ UNCHANGED <<config, trade, clock, toStart, index, workers, responseCh, receiving, data>>

-----------------------------------------------------------------------------
(* The API query handler *)

QueryUnchanged == UNCHANGED <<config, trade, clock, done, responseCh, receiving, data>>

\* A tick of Query's loop; select may prefer it to the end of the context.
QueryTick ==
    /\ main = "loop"
    /\ main' = "start" /\ toStart' = Limit
    /\ QueryUnchanged /\ UNCHANGED <<index, workers>>

\* Mutant: every tick begins with the first task.
StartTaskFromFirst(w) ==
    /\ main = "start" /\ toStart > 0
    /\ w <= Slots /\ pc[w] = "idle"
    /\ pc' = [pc EXCEPT ![w] = "fetch"]
    /\ job' = [job EXCEPT ![w] = Tasks[((Limit - toStart) % Len(Tasks)) + 1]]
    /\ toStart' = toStart - 1
    /\ main' = IF toStart = 1 THEN "loop" ELSE "start"
    /\ QueryUnchanged /\ UNCHANGED <<index, resp, connections>>

\* wg.Go blocks until a slot is free.
StartTask(w) ==
    /\ main = "start" /\ toStart > 0
    /\ w <= Slots /\ pc[w] = "idle"
    /\ pc' = [pc EXCEPT ![w] = "fetch"]
    /\ job' = [job EXCEPT ![w] = Tasks[index]]
    /\ index' = (index % Len(Tasks)) + 1
    /\ toStart' = toStart - 1
    /\ main' = IF toStart = 1 THEN "loop" ELSE "start"
    /\ QueryUnchanged /\ UNCHANGED <<resp, connections>>

QueryDone ==
    /\ main = "loop" /\ done
    /\ main' = "wait"
    /\ QueryUnchanged /\ UNCHANGED <<toStart, index, workers>>

\* Mutant: Query does not wait for its tasks.
QueryReturnsAtOnce ==
    /\ main = "wait"
    /\ main' = "returned"
    /\ QueryUnchanged /\ UNCHANGED <<toStart, index, workers>>

\* wg.Wait.  startAPI's loop then sees that the context is done.
QueryReturns ==
    /\ main = "wait" /\ \A w \in Worker : pc[w] = "idle"
    /\ main' = "returned"
    /\ QueryUnchanged /\ UNCHANGED <<toStart, index, workers>>

\* The fetcher answers: with a price that may be old, stamped when it is parsed,
\* or with an error.
FetchAnswers(w) ==
    /\ pc[w] = "fetch"
    /\ clock' \in {clock, clock + 1} /\ clock' <= MaxTime
    /\ \E r \in {Failed} \cup {Result(job[w], "ok", k, clock') : k \in 1..trade} :
          resp' = [resp EXCEPT ![w] = r]
    /\ pc' = [pc EXCEPT ![w] = "write"]
    /\ UNCHANGED <<config, trade, done, query, job, connections, responseCh, receiving, data>>

-----------------------------------------------------------------------------
(* Writing to the channel: writeResponse, and recv of the websocket handler *)

\* After a response is written, or the context was found done, a task is over and
\* a connection goes on as given.
EndWrite(w, step) ==
    /\ pc' = [pc EXCEPT ![w] = IF IsAPI THEN "idle" ELSE step]
    /\ job' = [job EXCEPT ![w] = IF IsAPI THEN {} ELSE @]
    /\ resp' = [resp EXCEPT ![w] = None]
    /\ UNCHANGED <<config, trade, clock, done, query, connections, receiving, data>>

\* Mutant: the buffer is taken to be endless.
WriteUnbounded(w) ==
    /\ pc[w] = "write"
    /\ responseCh' = Append(responseCh, resp[w])
    /\ EndWrite(w, "read")

Write(w) ==
    /\ pc[w] = "write" /\ ~Full
    /\ responseCh' = Append(responseCh, resp[w])
    /\ EndWrite(w, "read")

\* Mutant: a response that cannot be written is waited for, context or not.
WriteStubbornly(w) ==
    /\ pc[w] = "write" /\ done /\ ~Full
    /\ UNCHANGED responseCh
    /\ EndWrite(w, "loop")

WriteDone(w) ==
    /\ pc[w] = "write" /\ done
    /\ UNCHANGED responseCh
    /\ EndWrite(w, "loop")

-----------------------------------------------------------------------------
(* The websocket query handler *)

SocketUnchanged == UNCHANGED <<config, trade, done, query, job, receiving, data>>

\* startWebSocket's loop: return, or start the handler (again).
ConnectionLoop(w) ==
    /\ pc[w] = "loop"
    /\ pc' = [pc EXCEPT ![w] = IF done THEN "idle" ELSE "dial"]
    /\ readErrCount' = [readErrCount EXCEPT ![w] = 0]
    /\ since' = [since EXCEPT ![w] = 0]
    /\ SocketUnchanged /\ UNCHANGED <<clock, resp, handler, responseCh>>

\* start: the connection is there and subscribed to, or not.
Dial(w) ==
    /\ pc[w] = "dial"
    /\ \E step \in {"read", "failed"} : pc' = [pc EXCEPT ![w] = step]
    /\ since' = [since EXCEPT ![w] = trade]
    /\ SocketUnchanged /\ UNCHANGED <<clock, resp, handler, readErrCount, responseCh>>

\* The error of a failed start is sent without a look at the context.
SendFailure(w) ==
    /\ pc[w] = "failed" /\ ~Full
    /\ responseCh' = Append(responseCh, Failed)
    /\ pc' = [pc EXCEPT ![w] = "loop"]
    /\ SocketUnchanged /\ UNCHANGED <<clock, resp, connections>>

\* recv of the handler finds its context done and closes the connection.
ReadDone(w) ==
    /\ pc[w] = "read" /\ done
    /\ pc' = [pc EXCEPT ![w] = "loop"]
    /\ SocketUnchanged /\ UNCHANGED <<clock, resp, connections, responseCh>>

\* A read that fails; after MaxReadErrorCount of them the handler returns.
ReadFails(w) ==
    /\ pc[w] = "read" /\ ~done
    /\ readErrCount' = [readErrCount EXCEPT ![w] = @ + 1]
    /\ pc' = [pc EXCEPT ![w] =
                 IF readErrCount[w] + 1 < config.maxReadErrorCount THEN "read" ELSE "loop"]
    /\ SocketUnchanged /\ UNCHANGED <<clock, resp, handler, since, responseCh>>

\* Mutant: messages that come late are taken for new ones.
AnySequence(seen, k) == TRUE

\* checkSequenceNumber.  A message about trade k is taken to have number k.
checkSequenceNumber(seen, k) == seen.sequence <= k

\* A message about the trade k of an id is handled; h is what the handler has
\* seen afterwards, r the response.  (A message whose read ends after the context
\* might as well have come before: the write heeds the context again.)  One that
\* fails checkSequenceNumber makes no response.
Handle(w, id, k, h, r) ==
    /\ pc[w] = "read" /\ ~done
    /\ id \in job[w] /\ k >= since[w]
    /\ checkSequenceNumber(handler[w][id], k)
    /\ handler' = [handler EXCEPT ![w][id] = h]
    /\ resp' = [resp EXCEPT ![w] = r]
    /\ pc' = [pc EXCEPT ![w] = "write"]
    /\ SocketUnchanged /\ UNCHANGED <<since, readErrCount, responseCh>>

\* parseTickerResponseMessage
TickerMessage(w, id, k) ==
    /\ clock' \in {clock, clock + 1} /\ clock' <= MaxTime
    /\ Handle(w, id, k, [sequence |-> k, tradeID |-> k], Result({id}, "ok", k, clock'))

\* parseHeartbeatResponseMessage: the price is unchanged, or there is none.
HeartbeatMessage(w, id, k) ==
    /\ clock' \in {clock, clock + 1} /\ clock' <= MaxTime
    /\ Handle(w, id, k, [handler[w][id] EXCEPT !.sequence = k],
              IF handler[w][id].tradeID = k THEN Result({id}, "unchanged", k, clock')
              ELSE Failed)

-----------------------------------------------------------------------------
(* recv and updateData of the provider *)

Stored(r) ==
    [trade |-> IF r.code = "unchanged" THEN 0 ELSE r.trade, said |-> r.trade, time |-> r.time]

\* Mutant: a result is stored whatever its timestamp.
updateAlways(current, r) ==
    IF current # None /\ r.code = "unchanged"
    THEN [current EXCEPT !.said = r.trade, !.time = r.time]
    ELSE Stored(r)

\* The data of an id after the result r.  An unchanged result has the value 0.
updateData(current, r) ==
    IF current = None THEN Stored(r)
    ELSE IF r.time < current.time THEN current
    ELSE IF r.code = "unchanged" THEN [current EXCEPT !.said = r.trade, !.time = r.time]
    ELSE Stored(r)

Receive ==
    /\ receiving /\ responseCh # <<>>
    /\ responseCh' = Tail(responseCh)
    /\ LET r == Head(responseCh)
       IN  data' = [id \in ID |-> IF id \in r.ids THEN updateData(data[id], r) ELSE data[id]]
    /\ UNCHANGED <<config, trade, clock, done, query, workers, receiving>>

ReceiveDone ==
    /\ receiving /\ done
    /\ receiving' = FALSE
    /\ UNCHANGED <<config, trade, clock, done, query, workers, responseCh, data>>

-----------------------------------------------------------------------------

WorkerStep(w) ==
    \/ StartTask(w) \/ FetchAnswers(w) \/ Write(w) \/ WriteDone(w)
    \/ ConnectionLoop(w) \/ Dial(w) \/ SendFailure(w) \/ ReadDone(w)

Next ==
    \/ \E w \in Worker :
          \/ WorkerStep(w)
          \/ ReadFails(w)
          \/ \E id \in ID, k \in 1..trade :
                TickerMessage(w, id, k) \/ HeartbeatMessage(w, id, k)
    \/ QueryTick \/ QueryDone \/ QueryReturns \/ FetchReturns
    \/ Receive \/ ReceiveDone
    \/ Again \/ Cancel \/ Trade

\* Goroutines that can run do run, requests and reads have timeouts, and select
\* chooses at random between a tick and the end of the context (hence SF).
Fairness ==
    /\ \A w \in Worker : WF_vars(WorkerStep(w))
    /\ WF_vars(QueryTick) /\ SF_vars(QueryDone) /\ WF_vars(QueryReturns)
    /\ WF_vars(FetchReturns) /\ WF_vars(Receive) /\ WF_vars(ReceiveDone)

Spec == Init /\ [][Next]_vars /\ Fairness
-----------------------------------------------------------------------------
(* Properties *)

\* The steps of the goroutines, the channel within its capacity and the data.
TypeOK ==
    /\ config \in Configs
    /\ trade \in 1..MaxTrade /\ clock \in 0..MaxTime
    /\ done \in BOOLEAN /\ receiving \in BOOLEAN
    /\ main \in {"loop", "start", "wait", "connections", "returned", "closed"}
    /\ pc \in [Worker -> {"idle", "fetch", "write", "loop", "dial", "failed", "read"}]
    /\ \A w \in Worker : job[w] \subseteq ID /\ readErrCount[w] \in Nat
    /\ Len(responseCh) <= Capacity
    /\ \A id \in ID : data[id] # None => data[id].trade \in 0..MaxTrade

\* A price whose timestamp a heartbeat has moved is still the price of the trade
\* that the heartbeat named, although the message with that price went through
\* the channel of a context that may have been cancelled, and the provider kept
\* older data (parseHeartbeatResponseMessage, Copy, updateData).
UnchangedIsTrue == \A id \in ID : data[id] # None => data[id].trade = data[id].said

\* Responses of concurrent requests are applied in the order of their timestamps,
\* and a websocket never puts back the price of an earlier trade, through
\* reordered messages, reconnects and new fetch contexts.
PricesNeverGoBack ==
    [][\A id \in ID : data[id] # None =>
          /\ data'[id].time >= data[id].time
          /\ ~IsAPI => data'[id].trade >= data[id].trade]_vars

\* When the channel is closed no task or connection is left that could write to
\* it (a send on a closed channel panics).
NoWriterAfterClose == main = "closed" => \A w \in Worker : pc[w] = "idle"

\* When the context is cancelled fetch returns, with responses still unwritten
\* and nobody to read them.  The one exception is a connection that could not
\* be started: it sends its error without a look at the context, and stays for
\* ever, Provider.Start and the orchestrator's Stop with it, if the buffer is
\* full.
CancelEndsFetch ==
    done ~> \/ main = "closed"
            \/ Full /\ \E w \in Worker : pc[w] = "failed"

\* While the context lasts an API provider asks for every id again and again,
\* when a tick has fewer tasks than there are batches too.
EveryIDAsked ==
    IsAPI /\ <>[]~done =>
        \A id \in ID : []<>(\E w \in Worker : pc[w] = "fetch" /\ id \in job[w])
=============================================================================

---------------------------- MODULE FetchProofs ----------------------------
(***************************************************************************)
(* The fetch of prices for any number of ids, tasks and connections, and   *)
(* every configuration: nothing writes to a response channel that fetch    *)
(* has closed, the channel keeps within its capacity, a confirmed price is *)
(* the one that was confirmed, and no price is put back.                   *)
(***************************************************************************)
EXTENDS Fetch, TLAPS

\* The steps of the tasks and connections.
Steps == {"idle", "fetch", "write", "loop", "dial", "failed", "read"}

\* The inductive invariant: from the moment that Query has waited for its tasks,
\* or fetch for its connections, there is nobody left to start or go on.
AllIdle ==
    /\ pc \in [Worker -> Steps]
    /\ main \in {"returned", "closed"} => \A w \in Worker : pc[w] = "idle"

\* The steps of one task or connection.
LEMMA WorkerKeepsIdle ==
    ASSUME AllIdle, NEW w \in Worker, WorkerStep(w) \/ ReadFails(w)
    PROVE  AllIdle'
<1>1. CASE StartTask(w)
  BY <1>1 DEF AllIdle, StartTask, Steps
<1>2. CASE FetchAnswers(w)
  BY <1>2 DEF AllIdle, FetchAnswers, query, Steps
<1>3. CASE Write(w) \/ WriteDone(w)
  BY <1>3 DEF AllIdle, Write, WriteDone, EndWrite, query, Steps
<1>4. CASE ConnectionLoop(w)
  BY <1>4 DEF AllIdle, ConnectionLoop, SocketUnchanged, query, Steps
<1>5. CASE Dial(w)
  BY <1>5 DEF AllIdle, Dial, SocketUnchanged, query, Steps
<1>6. CASE SendFailure(w) \/ ReadDone(w)
  BY <1>6 DEF AllIdle, SendFailure, ReadDone, SocketUnchanged, query, Steps
<1>7. CASE ReadFails(w)
  BY <1>7 DEF AllIdle, ReadFails, SocketUnchanged, query, Steps
<1> QED
  BY <1>1, <1>2, <1>3, <1>4, <1>5, <1>6, <1>7 DEF WorkerStep

\* Messages only come to connections that read.
LEMMA MessageKeepsIdle ==
    ASSUME AllIdle, NEW w \in Worker, NEW id \in ID, NEW k \in 1..trade,
           TickerMessage(w, id, k) \/ HeartbeatMessage(w, id, k)
    PROVE  AllIdle'
<1>1. /\ pc[w] = "read" /\ pc' = [pc EXCEPT ![w] = "write"]
      /\ UNCHANGED main
  BY DEF TickerMessage, HeartbeatMessage, Handle, SocketUnchanged, query
<1> QED
  BY <1>1 DEF AllIdle, Steps

\* AllIdle is inductive.
LEMMA StepKeepsIdle ==
    ASSUME AllIdle, [Next]_vars
    PROVE  AllIdle'
<1>1. ASSUME NEW w \in Worker, WorkerStep(w) \/ ReadFails(w)
      PROVE  AllIdle'
  BY <1>1, WorkerKeepsIdle
<1>2. ASSUME NEW w \in Worker, NEW id \in ID, NEW k \in 1..trade,
             TickerMessage(w, id, k) \/ HeartbeatMessage(w, id, k)
      PROVE  AllIdle'
  BY <1>2, MessageKeepsIdle
<1>3. CASE QueryTick \/ QueryDone \/ QueryReturns
  BY <1>3 DEF AllIdle, QueryTick, QueryDone, QueryReturns, workers
<1>4. CASE FetchReturns
  BY <1>4 DEF AllIdle, FetchReturns, workers
<1>5. CASE Again
  <2>1. pc' \in [Worker -> Steps] /\ main' \in {"loop", "connections"}
    BY <1>5 DEF Again, FirstPC, FirstStep, Steps
  <2> QED
    BY <2>1 DEF AllIdle
<1>6. CASE Receive \/ ReceiveDone \/ Cancel \/ Trade \/ UNCHANGED vars
  BY <1>6 DEF AllIdle, Receive, ReceiveDone, Cancel, Trade, vars, query, workers
<1> QED
  BY <1>1, <1>2, <1>3, <1>4, <1>5, <1>6 DEF Next

\* When fetch closes the response channel every task and connection has ended,
\* so that none can send on a closed channel (Query's wg.Wait, and that of
\* startMultiplexWebsocket, come before close).
THEOREM NeverAWriterAfterClose == Spec => []NoWriterAfterClose
<1>1. Init => AllIdle
  BY DEF Init, AllIdle, FirstPC, FirstStep, Steps
<1>2. AllIdle /\ [Next]_vars => AllIdle'
  BY StepKeepsIdle
<1>3. AllIdle => NoWriterAfterClose
  BY DEF AllIdle, NoWriterAfterClose
<1> QED
  BY <1>1, <1>2, <1>3, PTL DEF Spec

-----------------------------------------------------------------------------
(* The prices of a websocket *)

\* The responses of the handlers.
Response ==
    [ids : SUBSET ID, code : {"ok", "unchanged", "error"}, trade : Nat, time : Nat]

\* The prices of the provider, with the trade that the exchange named.
Price == [trade : Nat, said : Nat, time : Nat]

\* What a response may say: trades and times that there were, for a failure
\* nothing, and from an API never that a price is unchanged.
Possible ==
    {r \in Response :
        /\ r.trade <= trade /\ r.time <= clock
        /\ r.ids # {} => r.code # "error"
        /\ IsAPI => r.code # "unchanged"}

\* The types of the exchange, the contexts and Query's loop, which a websocket
\* does not have.
QueryTypes ==
    /\ config \in Configs
    /\ trade \in 1..MaxTrade /\ clock \in 0..MaxTime
    /\ done \in BOOLEAN /\ receiving \in BOOLEAN
    /\ main \in {"loop", "start", "wait", "connections", "returned", "closed"}
    /\ IsAPI => index \in 1..Len(Tasks)
    /\ ~IsAPI => main \in {"connections", "closed"}

\* The types of the tasks and connections.  A connection keeps its ids.
WorkerTypes ==
    /\ pc \in [Worker -> Steps]
    /\ job \in [Worker -> SUBSET ID]
    /\ readErrCount \in [Worker -> Nat]
    /\ since \in [Worker -> Nat]
    /\ handler \in [Worker -> [ID -> [sequence : Nat, tradeID : Nat]]]
    /\ IsAPI => \A w \in Worker : pc[w] \in {"idle", "fetch", "write"}
    /\ ~IsAPI => job = FirstJob /\ \A w \in Worker : pc[w] # "fetch"

\* The types of the responses that are written, and of those in the channel.
ResponseTypes ==
    /\ resp \in [Worker -> Response \cup {None}]
    /\ \A w \in Worker : pc[w] = "write" => resp[w] \in Possible
    /\ responseCh \in Seq(Response) /\ Len(responseCh) <= Capacity
    /\ \A i \in DOMAIN responseCh : responseCh[i] \in Possible

\* The types of the provider's data.
DataTypes ==
    /\ data \in [ID -> [trade : Nat, said : Nat, time : Nat] \cup {None}]
    /\ \A id \in ID : data[id] # None => data[id].trade <= trade /\ data[id].time <= clock

\* The types of all variables.
FetchTypes == QueryTypes /\ WorkerTypes /\ ResponseTypes /\ DataTypes

\* The responses of the channel that are about an id, and the connections that
\* are about to write one.
About(id) == {i \in DOMAIN responseCh : id \in responseCh[i].ids}
Writing(id) == {w \in Worker : pc[w] = "write" /\ id \in resp[w].ids}

\* The provider has the price of the trade k, or of a later one.
Had(id, k) == data[id] # None /\ data[id].trade >= k

\* The next message of the connection w about an id is not before the trade k.
Passed(w, id, k) == k <= since[w] \/ k <= handler[w][id].sequence

\* Data and responses about an id are in the order of their trades and times.
InOrder(id) ==
    /\ \A i \in About(id) : data[id] # None =>
          data[id].trade <= responseCh[i].trade /\ data[id].time <= responseCh[i].time
    /\ \A i, j \in About(id) : i < j =>
          responseCh[i].trade <= responseCh[j].trade /\ responseCh[i].time <= responseCh[j].time
    /\ \A w \in Writing(id) :
          /\ id \in job[w]
          /\ data[id] # None => data[id].trade <= resp[w].trade /\ data[id].time <= resp[w].time
          /\ \A i \in About(id) :
                responseCh[i].trade <= resp[w].trade /\ responseCh[i].time <= resp[w].time

\* Before every response that a price is unchanged comes the price.
Confirmed(id) ==
    /\ data[id] # None => data[id].trade = data[id].said
    /\ \A i \in About(id) : responseCh[i].code = "unchanged" =>
          \/ Had(id, responseCh[i].trade)
          \/ \E j \in About(id) : j < i /\ responseCh[j].trade >= responseCh[i].trade
    /\ \A w \in Writing(id) : resp[w].code = "unchanged" =>
          \/ Had(id, resp[w].trade)
          \/ \E j \in About(id) : responseCh[j].trade >= resp[w].trade

\* A connection that reads is past every trade of the data and the responses.
Ahead(w, id) ==
    pc[w] \in {"read", "write"} =>
        /\ data[id] # None => Passed(w, id, data[id].trade)
        /\ \A i \in About(id) : Passed(w, id, responseCh[i].trade)
        /\ w \in Writing(id) => Passed(w, id, resp[w].trade)

\* The price of the trade that a handler has seen is not lost while the context
\* lasts.
Kept(w, id) ==
    ~done /\ handler[w][id].tradeID > 0 =>
        \/ Had(id, handler[w][id].tradeID)
        \/ \E i \in About(id) : responseCh[i].trade >= handler[w][id].tradeID
        \/ w \in Writing(id) /\ resp[w].trade >= handler[w][id].tradeID

\* All of it for an id.
PriceAt(id) ==
    /\ InOrder(id) /\ Confirmed(id)
    /\ \A w \in Worker : id \in job[w] => Ahead(w, id) /\ Kept(w, id)

\* The inductive invariant of the websocket's prices.
PriceInv == ~IsAPI => \A id \in ID : PriceAt(id)

-----------------------------------------------------------------------------
(* The tasks *)

\* The smaller and the larger of two numbers.
LEMMA MinMax ==
    ASSUME NEW a \in Int, NEW b \in Int
    PROVE  /\ Min({a, b}) = IF a <= b THEN a ELSE b
           /\ Max({a, b}) = IF a >= b THEN a ELSE b
<1> DEFINE low == IF a <= b THEN a ELSE b
           high == IF a >= b THEN a ELSE b
           isLow(x) == x \in {a, b} /\ \A y \in {a, b} : x <= y
           isHigh(x) == x \in {a, b} /\ \A y \in {a, b} : x >= y
<1>1. isLow(low) /\ \A x : isLow(x) => x = low
  OBVIOUS
<1>2. isHigh(high) /\ \A x : isHigh(x) => x = high
  OBVIOUS
<1>3. Min({a, b}) = CHOOSE x \in {a, b} : \A y \in {a, b} : x <= y
  BY DEF Min
<1>4. Max({a, b}) = CHOOSE x \in {a, b} : \A y \in {a, b} : x >= y
  BY DEF Max
<1>5. \E x \in {a, b} : \A y \in {a, b} : x <= y
  BY <1>1
<1>6. \E x \in {a, b} : \A y \in {a, b} : x >= y
  BY <1>2
<1>7. isLow(Min({a, b}))
  BY <1>3, <1>5, Zenon
<1>8. isHigh(Max({a, b}))
  BY <1>4, <1>6, Zenon
<1> HIDE DEF isLow, isHigh, low, high
<1>9. Min({a, b}) = low /\ Max({a, b}) = high
  BY <1>1, <1>2, <1>7, <1>8
<1> QED
  BY <1>9 DEF low, high

\* The pieces of the ids: there is one, and no two have an id in common.
LEMMA SplitIs ==
    ASSUME NEW n \in Nat \ {0}
    PROVE  /\ Split(n) \in Seq(SUBSET ID) /\ Len(Split(n)) >= 1
           /\ \A i, j \in 1..Len(Split(n)) : i # j => Split(n)[i] \cap Split(n)[j] = {}
<1> DEFINE L == Len(IDs)
           N == (L + n - 1) \div n
           to(i) == Min({L, i * n})
           piece(i) == ToSet(SubSeq(IDs, (i - 1) * n + 1, to(i)))
<1>1. L \in Nat /\ L >= 1 /\ DOMAIN IDs = 1..L
  BY FetchAssumption
<1>2. N \in Nat /\ N >= 1
  <2>1. L + n - 1 >= n /\ L + n - 1 \in Nat
    BY <1>1
  <2> HIDE DEF L
  <2> QED
    BY <2>1
<1>3. ASSUME NEW i \in 1..N
      PROVE  /\ (i - 1) * n \in Nat /\ i * n \in Nat
             /\ to(i) = IF L <= i * n THEN L ELSE i * n
  BY <1>1, <1>2, MinMax
<1>4. ASSUME NEW i \in 1..N, NEW x \in piece(i)
      PROVE  \E k \in 1..L : x = IDs[k] /\ (i - 1) * n < k /\ k <= i * n
  <2>1. PICK from : from = (i - 1) * n + 1
    OBVIOUS
  <2>2. PICK last : last = to(i)
    OBVIOUS
  <2>3. from \in Nat /\ from >= 1 /\ last \in Nat /\ last <= L /\ last <= i * n
    <3>1. PICK m : m = i * n
      OBVIOUS
    <3>2. (i - 1) * n \in Nat /\ m \in Nat /\ last = IF L <= m THEN L ELSE m
      BY <1>3, <2>2, <3>1, Zenon
    <3> HIDE DEF to, piece, N
    <3>3. from \in Nat /\ from >= 1 /\ last \in Nat /\ last <= L /\ last <= m
      BY <1>1, <2>1, <3>2
    <3> QED
      BY <3>1, <3>3
  <2>4. x \in ToSet(SubSeq(IDs, from, last))
    BY <1>4, <2>1, <2>2
  <2>5. PICK k \in DOMAIN SubSeq(IDs, from, last) : x = SubSeq(IDs, from, last)[k]
    BY <2>4 DEF ToSet
  <2> HIDE DEF to, piece
  <2>6. k \in 1..(last - from + 1) /\ x = IDs[from + k - 1]
    BY <1>1, <2>3, <2>5, FetchAssumption
  <2>7. from + k - 1 \in 1..L /\ (i - 1) * n < from + k - 1 /\ from + k - 1 <= i * n
    <3>1. (i - 1) * n \in Nat /\ i * n \in Nat
      BY <1>3
    <3> QED
      BY <1>1, <2>1, <2>3, <2>6, <3>1
  <2> QED
    BY <2>6, <2>7
<1>5. ASSUME NEW i \in 1..N PROVE piece(i) \subseteq ID
  <2> SUFFICES ASSUME NEW x \in piece(i) PROVE x \in ID
    OBVIOUS
  <2>1. PICK k \in 1..L : x = IDs[k]
    BY <1>4
  <2> QED
    BY <1>1, <2>1 DEF ID, ToSet
<1>6. ASSUME NEW i \in 1..N, NEW j \in 1..N, i < j
      PROVE  piece(i) \cap piece(j) = {}
  <2> SUFFICES ASSUME NEW x \in piece(i), x \in piece(j) PROVE FALSE
    OBVIOUS
  <2>1. PICK k \in 1..L : x = IDs[k] /\ k <= i * n
    BY <1>4
  <2>2. PICK l \in 1..L : x = IDs[l] /\ (j - 1) * n < l
    BY <1>4
  <2>3. k = l
    BY <1>1, <2>1, <2>2, FetchAssumption DEF IsInjective
  <2>4. i * n <= (j - 1) * n
    <3>1. PICK d \in Nat : j - 1 = i + d
      <4>1. (j - 1) - i \in Nat
        BY <1>2, <1>6
      <4> QED
        BY <1>2, <4>1
    <3>2. (j - 1) * n = i * n + d * n /\ d * n \in Nat /\ i * n \in Nat
      BY <1>2, <3>1
    <3> QED
      BY <3>1, <3>2
  <2>5. i * n \in Nat /\ (j - 1) * n \in Nat
    BY <1>3
  <2> QED
    BY <1>1, <2>1, <2>2, <2>3, <2>4, <2>5
<1>7. Split(n) = [i \in 1..N |-> piece(i)]
  BY Zenon DEF Split
<1> HIDE DEF piece, N
<1>8. Split(n) \in Seq(SUBSET ID) /\ Len(Split(n)) = N
  BY <1>2, <1>5, <1>7
<1>9. ASSUME NEW i \in 1..N, NEW j \in 1..N, i # j
      PROVE  piece(i) \cap piece(j) = {}
  <2>1. i < j \/ j < i
    BY <1>2, <1>9
  <2> QED
    BY <1>6, <2>1
<1> QED
  BY <1>2, <1>7, <1>8, <1>9

\* What a configuration has.
LEMMA ConfigIs ==
    ASSUME config \in Configs
    PROVE  /\ IsAPI => config.batchSize \in Nat /\ config.maxQueries \in Nat \ {0}
           /\ ~IsAPI => /\ config.maxSubscriptionsPerConnection \in Nat
                        /\ config.maxBufferSize \in Nat \ {0}
                        /\ config.maxReadErrorCount \in Nat \ {0}
           /\ Capacity \in Nat \ {0}
<1>1. config \in APIConfig \/ config \in WebSocketConfig
  BY FetchAssumption
<1>2. CASE config \in APIConfig
  BY <1>2, FetchAssumption DEF APIConfig, IsAPI, Capacity
<1>3. CASE config \in WebSocketConfig
  BY <1>3 DEF WebSocketConfig, IsAPI, Capacity
<1> QED
  BY <1>1, <1>2, <1>3

\* The tasks of an API.
LEMMA TasksAre ==
    ASSUME config \in Configs, IsAPI
    PROVE  Tasks \in Seq(SUBSET ID) /\ Len(Tasks) >= 1
<1>1. <<ID>> \in Seq(SUBSET ID) /\ Len(<<ID>>) = 1
  OBVIOUS
<1>2. PICK n : n = Max({1, config.batchSize})
  OBVIOUS
<1>3. n \in Nat \ {0}
  <2>1. PICK size \in Nat : size = config.batchSize
    BY ConfigIs
  <2>2. n = Max({1, size})
    BY <1>2, <2>1, Zenon
  <2>3. Max({1, size}) = IF 1 >= size THEN 1 ELSE size
    BY MinMax
  <2> QED
    BY <2>2, <2>3
<1>4. Split(n) \in Seq(SUBSET ID) /\ Len(Split(n)) >= 1
  BY <1>3, SplitIs
<1>5. Tasks = IF config.atomic THEN <<ID>> ELSE Split(n)
  BY <1>2, Zenon DEF Tasks
<1>6. CASE config.atomic
  BY <1>1, <1>5, <1>6
<1>7. CASE ~config.atomic
  BY <1>4, <1>5, <1>7
<1> QED
  BY <1>6, <1>7

\* The ids of the connections: none is in two.
LEMMA JobsAre ==
    ASSUME config \in Configs
    PROVE  /\ FirstJob \in [Worker -> SUBSET ID]
           /\ IsAPI => \A w \in Worker : FirstJob[w] = {}
           /\ ~IsAPI => \A v, w \in Worker : v # w => FirstJob[v] \cap FirstJob[w] = {}
<1>1. CASE IsAPI
  BY <1>1 DEF FirstJob
<1>2. CASE ~IsAPI
  <2>1. PICK tasks : tasks = SubTasks
    OBVIOUS
  <2>2. /\ tasks \in Seq(SUBSET ID)
        /\ \A i, j \in 1..Len(tasks) : i # j => tasks[i] \cap tasks[j] = {}
    <3>1. CASE config.maxSubscriptionsPerConnection > 0
      <4>1. PICK n : n = config.maxSubscriptionsPerConnection
        OBVIOUS
      <4>2. n \in Nat \ {0} /\ tasks = Split(n)
        BY <1>2, <2>1, <3>1, <4>1, ConfigIs DEF SubTasks
      <4> QED
        BY <4>2, SplitIs
    <3>2. CASE ~(config.maxSubscriptionsPerConnection > 0)
      <4>1. tasks = <<ID>>
        BY <2>1, <3>2 DEF SubTasks
      <4> QED
        BY <4>1
    <3> QED
      BY <3>1, <3>2
  <2>3. FirstJob = [w \in Worker |-> IF w > Len(tasks) THEN {} ELSE tasks[w]]
    BY <1>2, <2>1 DEF FirstJob
  <2>4. Len(tasks) \in Nat /\ \A w \in Worker : w > Len(tasks) \/ w \in 1..Len(tasks)
    BY <2>2, FetchAssumption
  <2> QED
    BY <1>2, <2>2, <2>3, <2>4
<1> QED
  BY <1>1, <1>2

-----------------------------------------------------------------------------
(* The types *)

\* A fetch context begins.
LEMMA TypesBegin ==
    ASSUME config \in Configs
    PROVE  /\ FirstPC \in [Worker -> Steps] /\ FirstJob \in [Worker -> SUBSET ID]
           /\ \A w \in Worker : FirstPC[w] \in {"idle", "loop"}
           /\ IsAPI => \A w \in Worker : FirstPC[w] = "idle"
           /\ NothingSeen \in [Worker -> [ID -> [sequence : Nat, tradeID : Nat]]]
           /\ Zero \in [Worker -> Nat] /\ Nothing \in [Worker -> Response \cup {None}]
           /\ FirstStep \in {"loop", "connections"} /\ (~IsAPI => FirstStep = "connections")
           /\ IsAPI => 1 \in 1..Len(Tasks)
<1>1. FirstJob \in [Worker -> SUBSET ID] /\ (IsAPI => \A w \in Worker : FirstJob[w] = {})
  BY JobsAre
<1>2. /\ FirstPC \in [Worker -> Steps]
      /\ \A w \in Worker : FirstPC[w] \in {"idle", "loop"}
      /\ IsAPI => \A w \in Worker : FirstPC[w] = "idle"
  BY <1>1 DEF FirstPC, Steps
<1>3. IsAPI => 1 \in 1..Len(Tasks)
  <2> SUFFICES ASSUME IsAPI PROVE 1 \in 1..Len(Tasks)
    OBVIOUS
  <2>1. PICK tasks : tasks = Tasks
    OBVIOUS
  <2>2. tasks \in Seq(SUBSET ID) /\ Len(tasks) >= 1
    BY <2>1, TasksAre
  <2> QED
    BY <2>1, <2>2
<1>4. NothingSeen \in [Worker -> [ID -> [sequence : Nat, tradeID : Nat]]]
  BY DEF NothingSeen
<1>5. Zero \in [Worker -> Nat] /\ Nothing \in [Worker -> Response \cup {None}]
  BY DEF Zero, Nothing
<1>6. FirstStep \in {"loop", "connections"} /\ (~IsAPI => FirstStep = "connections")
  BY DEF FirstStep
<1> QED
  BY <1>1, <1>2, <1>3, <1>4, <1>5, <1>6

\* The first fetch context.
LEMMA TypesInit ==
    ASSUME Init
    PROVE  FetchTypes
<1>1. config \in Configs
  BY DEF Init
<1>2. Capacity \in Nat \ {0}
  BY <1>1, ConfigIs
<1>3. <<>> \in Seq(Response) /\ Len(<<>>) = 0 /\ DOMAIN <<>> = {}
  OBVIOUS
<1>4. /\ data \in [ID -> [trade : Nat, said : Nat, time : Nat] \cup {None}]
      /\ \A id \in ID : data[id] = None
  BY DEF Init
<1>5. responseCh = <<>> /\ Len(responseCh) <= Capacity
  BY <1>2, <1>3 DEF Init
<1>6. trade \in 1..MaxTrade /\ clock \in 0..MaxTime
  BY FetchAssumption DEF Init
<1>7. /\ pc = FirstPC /\ job = FirstJob /\ resp = Nothing /\ main = FirstStep /\ index = 1
      /\ handler = NothingSeen /\ since = Zero /\ readErrCount = Zero
      /\ done = FALSE /\ receiving = TRUE
  BY DEF Init
<1>8. \A w \in Worker : pc[w] \notin {"write", "fetch"}
  BY <1>1, <1>7, TypesBegin
<1> HIDE DEF Init
<1>9. QueryTypes
  BY <1>1, <1>6, <1>7, TypesBegin DEF QueryTypes
<1>10. WorkerTypes
  BY <1>1, <1>7, <1>8, TypesBegin DEF WorkerTypes
<1>11. ResponseTypes
  BY <1>1, <1>3, <1>5, <1>7, <1>8, TypesBegin DEF ResponseTypes
<1> QED
  BY <1>4, <1>9, <1>10, <1>11 DEF FetchTypes, DataTypes

\* The configuration stays, and trades and time go on.
LEMMA TimeGoesOn ==
    ASSUME QueryTypes, [Next]_vars
    PROVE  /\ config' = config
           /\ trade' \in 1..MaxTrade /\ trade <= trade'
           /\ clock' \in 0..MaxTime /\ clock <= clock'
<1> USE DEF QueryTypes
<1>1. ASSUME NEW w \in Worker, WorkerStep(w) \/ ReadFails(w)
      PROVE  config' = config /\ trade' = trade /\ clock' \in {clock, clock + 1} /\ clock' <= MaxTime
  BY <1>1, FetchAssumption
  DEF WorkerStep, ReadFails, StartTask, FetchAnswers, Write, WriteDone, EndWrite, ConnectionLoop,
      Dial, SendFailure, ReadDone, QueryUnchanged, SocketUnchanged
<1>2. ASSUME NEW w \in Worker, NEW id \in ID, NEW k \in 1..trade,
             TickerMessage(w, id, k) \/ HeartbeatMessage(w, id, k)
      PROVE  config' = config /\ trade' = trade /\ clock' \in {clock, clock + 1} /\ clock' <= MaxTime
  BY <1>2 DEF TickerMessage, HeartbeatMessage, Handle, SocketUnchanged
<1>3. CASE QueryTick \/ QueryDone \/ QueryReturns \/ FetchReturns \/ Receive \/ ReceiveDone
           \/ Again \/ Cancel
  BY <1>3 DEF QueryTick, QueryDone, QueryReturns, FetchReturns, Receive, ReceiveDone,
              Again, Cancel, QueryUnchanged
<1>4. CASE Trade
  BY <1>4, FetchAssumption DEF Trade
<1>5. CASE UNCHANGED vars
  BY <1>5 DEF vars
<1> QED
  BY <1>1, <1>2, <1>3, <1>4, <1>5, FetchAssumption DEF Next

\* Only Query's loop, the end of fetch and a new context change where Query is.
LEMMA QueryTypesStep ==
    ASSUME FetchTypes, [Next]_vars
    PROVE  QueryTypes'
<1> USE DEF FetchTypes, QueryTypes
<1>1. /\ config' = config
      /\ trade' \in 1..MaxTrade /\ clock' \in 0..MaxTime
  BY TimeGoesOn
<1>2. IsAPI' = IsAPI /\ Tasks' = Tasks
  BY <1>1 DEF IsAPI, Tasks, Split
<1>3. ASSUME NEW w \in Worker, WorkerStep(w) \/ ReadFails(w), ~StartTask(w)
      PROVE  UNCHANGED <<main, index, done, receiving>>
  BY <1>3 DEF WorkerStep, ReadFails, FetchAnswers, Write, WriteDone, EndWrite, ConnectionLoop,
              Dial, SendFailure, ReadDone, SocketUnchanged, query
<1>4. ASSUME NEW w \in Worker, StartTask(w)
      PROVE  QueryTypes'
  <2>1. /\ main = "start" /\ main' \in {"loop", "start"} /\ index' = (index % Len(Tasks)) + 1
        /\ UNCHANGED <<done, receiving>>
    BY <1>4 DEF StartTask, QueryUnchanged
  <2>2. IsAPI
    BY <2>1
  <2>3. PICK n : n = Len(Tasks)
    OBVIOUS
  <2>4. n \in Nat \ {0}
    BY <2>2, <2>3, TasksAre
  <2>5. index' \in 1..n
    BY <2>1, <2>2, <2>3, <2>4
  <2> QED
    BY <1>1, <1>2, <2>1, <2>2, <2>3, <2>5
<1>5. ASSUME NEW w \in Worker, NEW id \in ID, NEW k \in 1..trade,
             TickerMessage(w, id, k) \/ HeartbeatMessage(w, id, k)
      PROVE  UNCHANGED <<main, index, done, receiving>>
  BY <1>5 DEF TickerMessage, HeartbeatMessage, Handle, SocketUnchanged, query
<1>6. CASE QueryTick \/ QueryDone \/ QueryReturns
  BY <1>1, <1>2, <1>6 DEF QueryTick, QueryDone, QueryReturns, QueryUnchanged
<1>7. CASE FetchReturns
  BY <1>1, <1>2, <1>7 DEF FetchReturns
<1>8. CASE Again
  BY <1>1, <1>2, <1>8, TypesBegin DEF Again
<1>9. CASE Receive \/ ReceiveDone \/ Cancel \/ Trade \/ UNCHANGED vars
  <2>1. UNCHANGED <<main, index>> /\ done' \in BOOLEAN /\ receiving' \in BOOLEAN
    BY <1>9 DEF Receive, ReceiveDone, Cancel, Trade, vars, query
  <2> QED
    BY <1>1, <1>2, <2>1
<1>10. CASE UNCHANGED <<main, index, done, receiving>>
  BY <1>1, <1>2, <1>10
<1> QED
  BY <1>3, <1>4, <1>5, <1>6, <1>7, <1>8, <1>9, <1>10 DEF Next

\* The handler of w has seen the sequence number k of a message about an id, and a
\* ticker's trade; the response names that trade, confirms it, or says nothing.
Heard(w, id, k) ==
    \E h \in [sequence : Nat, tradeID : Nat], r \in Response :
        /\ handler' = [handler EXCEPT ![w][id] = h] /\ h.sequence = k
        /\ resp' = [resp EXCEPT ![w] = r]
        /\ \/ h.tradeID = k /\ r = Result({id}, "ok", k, clock')
           \/ /\ h.tradeID = handler[w][id].tradeID
              /\ \/ r = Failed
                 \/ h.tradeID = k /\ r = Result({id}, "unchanged", k, clock')

\* What a message does.
LEMMA MessageIs ==
    ASSUME FetchTypes, NEW w \in Worker, NEW id \in ID, NEW k \in 1..trade,
           TickerMessage(w, id, k) \/ HeartbeatMessage(w, id, k)
    PROVE  /\ pc[w] = "read" /\ ~done /\ id \in job[w] /\ k >= since[w]
           /\ handler[w][id].sequence <= k
           /\ pc' = [pc EXCEPT ![w] = "write"]
           /\ UNCHANGED <<done, job, since, readErrCount, responseCh, data>>
           /\ Heard(w, id, k)
<1>1. k \in Nat /\ handler[w][id] \in [sequence : Nat, tradeID : Nat] /\ clock' \in Nat
  BY DEF FetchTypes, QueryTypes, WorkerTypes, TickerMessage, HeartbeatMessage
<1>2. Failed \in Response
  BY DEF Failed, Result, Response
<1>3. CASE TickerMessage(w, id, k)
  <2> DEFINE h == [sequence |-> k, tradeID |-> k]
             r == Result({id}, "ok", k, clock')
  <2>1. h \in [sequence : Nat, tradeID : Nat] /\ h.sequence = k /\ h.tradeID = k
    BY <1>1
  <2>2. r \in Response
    BY <1>1 DEF Result, Response
  <2>3. Handle(w, id, k, h, r)
    BY <1>3 DEF TickerMessage
  <2>4. /\ pc[w] = "read" /\ ~done /\ id \in job[w] /\ k >= since[w]
        /\ handler[w][id].sequence <= k
        /\ pc' = [pc EXCEPT ![w] = "write"]
        /\ UNCHANGED <<done, job, since, readErrCount, responseCh, data>>
        /\ handler' = [handler EXCEPT ![w][id] = h] /\ resp' = [resp EXCEPT ![w] = r]
    BY <2>3 DEF Handle, SocketUnchanged, checkSequenceNumber
  <2>5. Heard(w, id, k)
    <3> HIDE DEF h
    <3> QED
      BY <2>1, <2>2, <2>4 DEF Heard
  <2> QED
    BY <2>4, <2>5
<1>4. CASE HeartbeatMessage(w, id, k)
  <2> DEFINE h == [handler[w][id] EXCEPT !.sequence = k]
             s == Result({id}, "unchanged", k, clock')
             r == IF handler[w][id].tradeID = k THEN s ELSE Failed
  <2>1. /\ h \in [sequence : Nat, tradeID : Nat]
        /\ h.sequence = k /\ h.tradeID = handler[w][id].tradeID
    BY <1>1
  <2>2. r \in Response /\ (r = Failed \/ (h.tradeID = k /\ r = s))
    BY <1>1, <1>2, <2>1 DEF Result, Response
  <2>3. Handle(w, id, k, h, r)
    BY <1>4, Zenon DEF HeartbeatMessage
  <2>4. /\ pc[w] = "read" /\ ~done /\ id \in job[w] /\ k >= since[w]
        /\ handler[w][id].sequence <= k
        /\ pc' = [pc EXCEPT ![w] = "write"]
        /\ UNCHANGED <<done, job, since, readErrCount, responseCh, data>>
        /\ handler' = [handler EXCEPT ![w][id] = h] /\ resp' = [resp EXCEPT ![w] = r]
    BY <2>3 DEF Handle, SocketUnchanged, checkSequenceNumber
  <2>5. Heard(w, id, k)
    <3> HIDE DEF h, r
    <3> QED
      BY <2>1, <2>2, <2>4 DEF Heard
  <2> QED
    BY <2>4, <2>5
<1> QED
  BY <1>3, <1>4

\* The jobs and steps of tasks and connections.
LEMMA WorkerTypesStep ==
    ASSUME FetchTypes, [Next]_vars
    PROVE  WorkerTypes'
<1> USE DEF FetchTypes, WorkerTypes, Steps
<1>1. config' = config /\ config \in Configs
  BY TimeGoesOn DEF QueryTypes
<1>2. IsAPI' = IsAPI /\ FirstJob' = FirstJob
  BY <1>1 DEF IsAPI, FirstJob, SubTasks, Split
<1>3. ASSUME NEW w \in Worker, StartTask(w)
      PROVE  WorkerTypes'
  <2>1. IsAPI
    BY <1>3 DEF StartTask, QueryTypes
  <2>2. PICK task : task = Tasks[index]
    OBVIOUS
  <2>3. task \subseteq ID
    <3>1. PICK tasks : tasks = Tasks
      OBVIOUS
    <3>2. tasks \in Seq(SUBSET ID) /\ index \in 1..Len(tasks)
      BY <1>1, <2>1, <3>1, TasksAre DEF QueryTypes
    <3> QED
      BY <2>2, <3>1, <3>2
  <2>4. /\ pc' = [pc EXCEPT ![w] = "fetch"] /\ job' = [job EXCEPT ![w] = task]
        /\ UNCHANGED connections
    BY <1>3, <2>2 DEF StartTask
  <2> QED
    BY <1>2, <2>1, <2>3, <2>4 DEF connections
<1>4. ASSUME NEW w \in Worker, FetchAnswers(w)
      PROVE  WorkerTypes'
  <2>1. /\ pc[w] = "fetch" /\ pc' = [pc EXCEPT ![w] = "write"] /\ UNCHANGED <<job, connections>>
    BY <1>4 DEF FetchAnswers
  <2> QED
    BY <1>2, <2>1 DEF connections
<1>5. ASSUME NEW w \in Worker, Write(w) \/ WriteDone(w)
      PROVE  WorkerTypes'
  <2>1. PICK step \in {"read", "loop"} : EndWrite(w, step)
    BY <1>5 DEF Write, WriteDone
  <2>2. /\ pc' = [pc EXCEPT ![w] = IF IsAPI THEN "idle" ELSE step]
        /\ job' = [job EXCEPT ![w] = IF IsAPI THEN {} ELSE job[w]]
        /\ UNCHANGED connections
    BY <2>1 DEF EndWrite
  <2>3. ~IsAPI => job' = job
    BY <2>2
  <2> QED
    BY <1>2, <2>2, <2>3 DEF connections
<1>6. ASSUME NEW w \in Worker, ConnectionLoop(w) \/ Dial(w) \/ SendFailure(w) \/ ReadDone(w)
      PROVE  WorkerTypes'
  <2>1. PICK step \in {"idle", "dial", "read", "failed", "loop"} :
           /\ pc' = [pc EXCEPT ![w] = step] /\ pc[w] \in {"loop", "dial", "failed", "read"}
           /\ UNCHANGED <<job, handler>>
    BY <1>6 DEF ConnectionLoop, Dial, SendFailure, ReadDone, SocketUnchanged, connections
  <2>2. ~IsAPI
    BY <2>1
  <2>3. readErrCount' \in [Worker -> Nat] /\ since' \in [Worker -> Nat]
    BY <1>6 DEF ConnectionLoop, Dial, SendFailure, ReadDone, SocketUnchanged, connections,
                QueryTypes
  <2> QED
    BY <1>2, <2>1, <2>2, <2>3
<1>7. ASSUME NEW w \in Worker, ReadFails(w)
      PROVE  WorkerTypes'
  <2>1. PICK step \in {"read", "loop"} :
           /\ pc' = [pc EXCEPT ![w] = step] /\ pc[w] = "read"
           /\ UNCHANGED <<job, handler, since>>
    BY <1>7 DEF ReadFails, SocketUnchanged
  <2>2. readErrCount' \in [Worker -> Nat]
    BY <1>7 DEF ReadFails
  <2> QED
    BY <1>2, <2>1, <2>2
<1>8. ASSUME NEW w \in Worker, NEW id \in ID, NEW k \in 1..trade,
             TickerMessage(w, id, k) \/ HeartbeatMessage(w, id, k)
      PROVE  WorkerTypes'
  <2> HIDE DEF FetchTypes, WorkerTypes, Steps
  <2>1. PICK h \in [sequence : Nat, tradeID : Nat] : handler' = [handler EXCEPT ![w][id] = h]
    <3>1. Heard(w, id, k)
      BY <1>8, MessageIs
    <3> QED
      BY <3>1 DEF Heard
  <2>2. /\ pc' = [pc EXCEPT ![w] = "write"] /\ pc[w] = "read"
        /\ UNCHANGED <<job, since, readErrCount>>
    BY <1>8, MessageIs
  <2> QED
    BY <1>2, <2>1, <2>2 DEF FetchTypes, WorkerTypes, Steps
<1>9. CASE Again
  BY <1>1, <1>2, <1>9, TypesBegin DEF Again, Copy
<1>10. CASE QueryTick \/ QueryDone \/ QueryReturns \/ FetchReturns \/ Receive \/ ReceiveDone
            \/ Cancel \/ Trade \/ UNCHANGED vars
  <2>1. UNCHANGED workers
    BY <1>10 DEF QueryTick, QueryDone, QueryReturns, FetchReturns, Receive, ReceiveDone, Cancel,
                 Trade, vars
  <2> QED
    BY <1>2, <2>1 DEF workers, connections
<1> QED
  BY <1>3, <1>4, <1>5, <1>6, <1>7, <1>8, <1>9, <1>10 DEF Next, WorkerStep

\* What was possible is possible later.
LEMMA StillPossible ==
    ASSUME FetchTypes, [Next]_vars
    PROVE  Possible \subseteq Possible' /\ Capacity' = Capacity
<1>1. /\ config' = config
      /\ trade' \in Nat /\ trade <= trade' /\ clock' \in Nat /\ clock <= clock'
  BY TimeGoesOn DEF FetchTypes
<1>2. trade \in Nat /\ clock \in Nat
  BY DEF FetchTypes, QueryTypes
<1>3. Capacity' = Capacity /\ IsAPI' = IsAPI
  BY <1>1 DEF Capacity, IsAPI
<1>4. \A r \in Response : r.trade \in Nat /\ r.time \in Nat
  BY DEF Response
<1>5. ASSUME NEW r \in Possible PROVE r \in Possible'
  BY <1>1, <1>2, <1>3, <1>4 DEF Possible
<1> QED
  BY <1>3, <1>5

\* The channel as it is, with one response more, or with one less.
LEMMA ChannelTypes ==
    ASSUME FetchTypes, [Next]_vars,
           \/ UNCHANGED responseCh
           \/ \E r \in Possible : responseCh' = Append(responseCh, r) /\ ~Full
           \/ responseCh # <<>> /\ responseCh' = Tail(responseCh)
           \/ responseCh' = <<>>
    PROVE  /\ responseCh' \in Seq(Response) /\ Len(responseCh') <= Capacity'
           /\ \A i \in DOMAIN responseCh' : responseCh'[i] \in Possible'
<1>1. Possible \subseteq Possible' /\ Possible \subseteq Response /\ Capacity' = Capacity
  BY StillPossible DEF Possible
<1>2. Capacity \in Nat \ {0}
  BY ConfigIs DEF FetchTypes, QueryTypes
<1>3. /\ responseCh \in Seq(Response) /\ Len(responseCh) <= Capacity
      /\ \A i \in DOMAIN responseCh : responseCh[i] \in Possible
  BY DEF FetchTypes, ResponseTypes
<1>4. CASE UNCHANGED responseCh
  BY <1>1, <1>3, <1>4
<1>5. ASSUME NEW r \in Possible, responseCh' = Append(responseCh, r), ~Full
      PROVE  /\ responseCh' \in Seq(Response) /\ Len(responseCh') <= Capacity
             /\ \A i \in DOMAIN responseCh' : responseCh'[i] \in Possible
  BY <1>1, <1>2, <1>3, <1>5 DEF Full
<1>6. ASSUME responseCh # <<>>, responseCh' = Tail(responseCh)
      PROVE  /\ responseCh' \in Seq(Response) /\ Len(responseCh') <= Capacity
             /\ \A i \in DOMAIN responseCh' : responseCh'[i] \in Possible
  BY <1>1, <1>2, <1>3, <1>6
<1>7. CASE responseCh' = <<>>
  BY <1>1, <1>2, <1>7
<1> QED
  BY <1>1, <1>4, <1>5, <1>6, <1>7

\* Every response that is written or in the channel is possible.
LEMMA ResponseTypesStep ==
    ASSUME FetchTypes, [Next]_vars
    PROVE  ResponseTypes'
<1>1. Possible \subseteq Possible' /\ Capacity' = Capacity
  BY StillPossible
<1>2. /\ pc \in [Worker -> Steps] /\ resp \in [Worker -> Response \cup {None}]
      /\ \A w \in Worker : pc[w] = "write" => resp[w] \in Possible
  BY DEF FetchTypes, ResponseTypes, WorkerTypes
<1>3. Failed \in Possible /\ Failed \in Possible'
  BY <1>1 DEF Failed, Result, Possible, Response, FetchTypes, QueryTypes
<1> DEFINE Channel ==
             \/ UNCHANGED responseCh
             \/ \E r \in Possible : responseCh' = Append(responseCh, r) /\ ~Full
             \/ responseCh # <<>> /\ responseCh' = Tail(responseCh)
             \/ responseCh' = <<>>
           Writers ==
             /\ resp' \in [Worker -> Response \cup {None}]
             /\ \A w \in Worker : pc'[w] = "write" => resp'[w] \in Possible'
<1>4. ASSUME Channel, Writers PROVE ResponseTypes'
  BY <1>4, ChannelTypes DEF ResponseTypes
<1>5. ASSUME UNCHANGED <<resp, responseCh>>, \A w \in Worker : pc'[w] = "write" => pc[w] = "write"
      PROVE  Channel /\ Writers
  BY <1>1, <1>2, <1>5
<1>6. ASSUME NEW w \in Worker, NEW r \in Possible', UNCHANGED responseCh,
             pc' = [pc EXCEPT ![w] = "write"], resp' = [resp EXCEPT ![w] = r]
      PROVE  Channel /\ Writers
  <2>1. r \in Response
    BY DEF Possible
  <2> QED
    BY <1>1, <1>2, <1>6, <2>1
<1>7. ASSUME NEW w \in Worker, StartTask(w)
      PROVE  Channel /\ Writers
  <2>1. UNCHANGED <<resp, responseCh>> /\ pc' = [pc EXCEPT ![w] = "fetch"]
    BY <1>7 DEF StartTask, QueryUnchanged
  <2> QED
    BY <1>2, <1>5, <2>1
<1>8. ASSUME NEW w \in Worker, FetchAnswers(w)
      PROVE  Channel /\ Writers
  <2>1. /\ UNCHANGED responseCh /\ pc' = [pc EXCEPT ![w] = "write"] /\ pc[w] = "fetch"
        /\ trade' = trade /\ config' = config
    BY <1>8 DEF FetchAnswers
  <2>2. PICK r \in {Failed} \cup {Result(job[w], "ok", k, clock') : k \in 1..trade} :
           resp' = [resp EXCEPT ![w] = r]
    BY <1>8 DEF FetchAnswers
  <2>3. r \in Possible'
    <3>1. clock' \in Nat /\ trade \in Nat /\ job[w] \subseteq ID
      BY TimeGoesOn DEF FetchTypes, QueryTypes, WorkerTypes
    <3>2. ASSUME NEW k \in 1..trade PROVE Result(job[w], "ok", k, clock') \in Possible'
      BY <2>1, <3>1 DEF Result, Possible, Response
    <3> QED
      BY <1>3, <3>2
  <2> QED
    BY <1>6, <2>1, <2>2, <2>3
<1>9. ASSUME NEW w \in Worker, Write(w) \/ WriteDone(w)
      PROVE  Channel /\ Writers
  <2>1. PICK step \in {"read", "loop"} : EndWrite(w, step)
    BY <1>9 DEF Write, WriteDone
  <2>2. /\ pc' = [pc EXCEPT ![w] = IF IsAPI THEN "idle" ELSE step]
        /\ resp' = [resp EXCEPT ![w] = None]
    BY <2>1 DEF EndWrite
  <2>3. Writers
    BY <1>1, <1>2, <2>2
  <2>4. Channel
    BY <1>2, <1>9 DEF Write, WriteDone
  <2> QED
    BY <2>3, <2>4
<1>10. ASSUME NEW w \in Worker, ConnectionLoop(w) \/ Dial(w) \/ ReadDone(w) \/ ReadFails(w)
      PROVE  Channel /\ Writers
  <2>1. /\ UNCHANGED <<resp, responseCh>>
        /\ \E step \in {"idle", "dial", "read", "failed", "loop"} : pc' = [pc EXCEPT ![w] = step]
    BY <1>10 DEF ConnectionLoop, Dial, ReadDone, ReadFails
  <2> QED
    BY <1>2, <1>5, <2>1
<1>11. ASSUME NEW w \in Worker, SendFailure(w)
      PROVE  Channel /\ Writers
  <2>1. /\ ~Full /\ responseCh' = Append(responseCh, Failed)
        /\ pc' = [pc EXCEPT ![w] = "loop"] /\ UNCHANGED resp
    BY <1>11 DEF SendFailure
  <2>2. Writers
    BY <1>1, <1>2, <2>1
  <2> QED
    BY <1>3, <2>1, <2>2
<1>12. ASSUME NEW w \in Worker, NEW id \in ID, NEW k \in 1..trade,
             TickerMessage(w, id, k) \/ HeartbeatMessage(w, id, k)
      PROVE  Channel /\ Writers
  <2>1. /\ UNCHANGED responseCh /\ pc' = [pc EXCEPT ![w] = "write"] /\ pc[w] = "read"
        /\ Heard(w, id, k)
    BY <1>12, MessageIs
  <2>2. /\ trade' = trade /\ config' = config /\ ~IsAPI
    BY <1>12, <2>1 DEF TickerMessage, HeartbeatMessage, Handle, SocketUnchanged, FetchTypes,
                       WorkerTypes
  <2>3. PICK r \in {Failed, Result({id}, "ok", k, clock'), Result({id}, "unchanged", k, clock')} :
           resp' = [resp EXCEPT ![w] = r]
    BY <2>1 DEF Heard
  <2>4. r \in Possible'
    <3>1. clock' \in Nat /\ trade \in Nat
      BY TimeGoesOn DEF FetchTypes, QueryTypes
    <3>2. ~IsAPI'
      BY <2>2 DEF IsAPI
    <3>3. /\ Result({id}, "ok", k, clock') \in Possible'
          /\ Result({id}, "unchanged", k, clock') \in Possible'
      BY <2>2, <3>1, <3>2 DEF Result, Possible, Response
    <3> QED
      BY <1>3, <3>3
  <2> QED
    BY <1>6, <2>1, <2>3, <2>4
<1>13. CASE Again
  <2>1. responseCh' = <<>> /\ pc' = FirstPC /\ resp' = Nothing
    BY <1>13 DEF Again
  <2>2. Writers
    BY <2>1, TypesBegin DEF FetchTypes, QueryTypes
  <2> QED
    BY <1>4, <2>1, <2>2
<1>14. CASE Receive
  <2>1. responseCh # <<>> /\ responseCh' = Tail(responseCh) /\ UNCHANGED <<pc, resp>>
    BY <1>14 DEF Receive, workers
  <2> QED
    BY <1>1, <1>2, <1>4, <2>1
<1>15. CASE QueryTick \/ QueryDone \/ QueryReturns \/ FetchReturns \/ ReceiveDone
            \/ Cancel \/ Trade \/ UNCHANGED vars
  <2>1. UNCHANGED <<pc, resp, responseCh>>
    BY <1>15 DEF QueryTick, QueryDone, QueryReturns, FetchReturns, ReceiveDone, Cancel,
                 Trade, vars, workers, QueryUnchanged
  <2> QED
    BY <1>4, <1>5, <2>1
<1> HIDE DEF Channel, Writers
<1> QED
  BY <1>4, <1>7, <1>8, <1>9, <1>10, <1>11, <1>12, <1>13, <1>14, <1>15 DEF Next, WorkerStep

\* What updateData leaves of a price and a response.
LEMMA UpdateIs ==
    ASSUME NEW current \in Price \cup {None}, NEW r \in Response,
           NEW new, new = updateData(current, r)
    PROVE  /\ new \in Price
           /\ new = current \/ (new.time = r.time /\ new.said = r.trade)
           /\ new.trade = r.trade \/ new.trade = 0 \/ (current # None /\ new.trade = current.trade)
           /\ current # None => new.time >= current.time
           /\ current # None /\ r.code = "unchanged" => new.trade = current.trade
           /\ r.code # "unchanged" /\ (current = None \/ r.time >= current.time) =>
                 new.trade = r.trade /\ new.said = r.trade /\ new.time = r.time
           /\ r.code = "unchanged" /\ current # None /\ r.time >= current.time =>
                 new.said = r.trade /\ new.time = r.time
<1>1. r.trade \in Nat /\ r.time \in Nat
  BY DEF Response
<1>2. /\ Stored(r) \in Price /\ Stored(r).said = r.trade /\ Stored(r).time = r.time
      /\ Stored(r).trade = IF r.code = "unchanged" THEN 0 ELSE r.trade
  BY <1>1 DEF Stored, Price
<1>3. CASE current = None
  BY <1>1, <1>2, <1>3 DEF updateData
<1>4. CASE current # None /\ r.time < current.time
  <2>1. new = current /\ current \in Price
    BY <1>4 DEF updateData
  <2> QED
    BY <1>1, <1>4, <2>1 DEF Price
<1>5. CASE current # None /\ ~(r.time < current.time) /\ r.code = "unchanged"
  <2>1. new = [current EXCEPT !.said = r.trade, !.time = r.time] /\ current \in Price
    BY <1>5 DEF updateData
  <2>2. /\ new \in Price /\ new.said = r.trade /\ new.time = r.time
        /\ new.trade = current.trade /\ current.time \in Nat
    BY <1>1, <2>1 DEF Price
  <2> QED
    BY <1>1, <1>5, <2>2
<1>6. CASE current # None /\ ~(r.time < current.time) /\ r.code # "unchanged"
  <2>1. new = Stored(r) /\ current \in Price
    BY <1>6 DEF updateData
  <2>2. current.time \in Nat
    BY <2>1 DEF Price
  <2> QED
    BY <1>1, <1>2, <1>6, <2>1, <2>2
<1> QED
  BY <1>3, <1>4, <1>5, <1>6

\* What recv takes from the channel.
LEMMA ReceiveIs ==
    ASSUME FetchTypes, Receive, NEW id \in ID
    PROVE  /\ Head(responseCh) = responseCh[1] /\ 1 \in DOMAIN responseCh
           /\ responseCh[1] \in Possible /\ responseCh[1] \in Response
           /\ data[id] \in Price \cup {None}
           /\ data'[id] = IF id \in responseCh[1].ids THEN updateData(data[id], responseCh[1])
                          ELSE data[id]
<1>1. responseCh \in Seq(Response) /\ responseCh # <<>>
  BY DEF FetchTypes, ResponseTypes, Receive
<1>2. Head(responseCh) = responseCh[1] /\ 1 \in DOMAIN responseCh
  BY <1>1
<1>3. responseCh[1] \in Possible /\ responseCh[1] \in Response
  BY <1>1, <1>2 DEF FetchTypes, ResponseTypes
<1>4. data[id] \in Price \cup {None}
  BY DEF FetchTypes, DataTypes, Price
<1>5. data'[id] = IF id \in Head(responseCh).ids THEN updateData(data[id], Head(responseCh))
                  ELSE data[id]
  BY DEF Receive
<1> QED
  BY <1>2, <1>3, <1>4, <1>5

\* Only recv changes the data.
LEMMA OnlyReceive ==
    ASSUME [Next]_vars, ~Receive
    PROVE  UNCHANGED data
<1>1. ASSUME NEW w \in Worker, WorkerStep(w) \/ ReadFails(w) PROVE UNCHANGED data
  BY <1>1 DEF WorkerStep, ReadFails, StartTask, FetchAnswers, Write, WriteDone, EndWrite,
              ConnectionLoop, Dial, SendFailure, ReadDone, QueryUnchanged, SocketUnchanged
<1>2. ASSUME NEW w \in Worker, NEW id \in ID, NEW k \in 1..trade,
             TickerMessage(w, id, k) \/ HeartbeatMessage(w, id, k)
      PROVE  UNCHANGED data
  BY <1>2 DEF TickerMessage, HeartbeatMessage, Handle, SocketUnchanged
<1>3. CASE QueryTick \/ QueryDone \/ QueryReturns \/ FetchReturns \/ ReceiveDone
           \/ Again \/ Cancel \/ Trade \/ UNCHANGED vars
  BY <1>3 DEF QueryTick, QueryDone, QueryReturns, FetchReturns, ReceiveDone, Again, Cancel,
              Trade, QueryUnchanged, vars
<1> QED
  BY <1>1, <1>2, <1>3 DEF Next

\* The data stays typed, and no younger than the exchange.
LEMMA DataTypesStep ==
    ASSUME FetchTypes, [Next]_vars
    PROVE  DataTypes'
<1>1. /\ trade' \in Nat /\ trade <= trade' /\ clock' \in Nat /\ clock <= clock'
      /\ trade \in Nat /\ clock \in Nat
  BY TimeGoesOn DEF FetchTypes, QueryTypes
<1>2. /\ data \in [ID -> Price \cup {None}]
      /\ \A id \in ID : data[id] # None =>
            /\ data[id].trade <= trade /\ data[id].time <= clock
            /\ data[id].trade \in Nat /\ data[id].time \in Nat
  BY DEF FetchTypes, DataTypes, Price
<1>3. CASE Receive
  <2>1. ASSUME NEW id \in ID
        PROVE  /\ data'[id] \in Price \cup {None}
               /\ data'[id] # None => data'[id].trade <= trade /\ data'[id].time <= clock
    <3>1. PICK r : r = responseCh[1]
      OBVIOUS
    <3>2. /\ r \in Possible /\ r \in Response /\ data[id] \in Price \cup {None}
          /\ data'[id] = IF id \in r.ids THEN updateData(data[id], r) ELSE data[id]
      BY <1>3, <3>1, ReceiveIs
    <3>3. r.trade <= trade /\ r.time <= clock
      BY <3>2 DEF Possible
    <3>4. CASE id \in r.ids
      <4>1. PICK current, new : current = data[id] /\ new = data'[id]
        OBVIOUS
      <4>2. new = updateData(current, r) /\ current \in Price \cup {None}
        BY <3>2, <3>4, <4>1
      <4>3. /\ new \in Price
            /\ new = current \/ (new.time = r.time /\ new.said = r.trade)
            /\ new.trade = r.trade \/ new.trade = 0 \/ (current # None /\ new.trade = current.trade)
        BY <3>2, <4>2, UpdateIs
      <4>4. current # None => current.trade <= trade /\ current.time <= clock
        BY <1>2, <4>1
      <4>5. current = None => new # current
        BY <4>3, FetchAssumption DEF Price
      <4> QED
        BY <1>1, <3>3, <4>1, <4>3, <4>4, <4>5
    <3>5. CASE id \notin r.ids
      BY <1>2, <3>2, <3>5
    <3> QED
      BY <3>4, <3>5
  <2>2. data' \in [ID -> Price \cup {None}]
    <3>1. DOMAIN data' = ID /\ data' = [id \in ID |-> data'[id]]
      BY <1>3 DEF Receive
    <3> QED
      BY <2>1, <3>1
  <2>3. trade' = trade /\ clock' = clock
    BY <1>3 DEF Receive
  <2> QED
    BY <2>1, <2>2, <2>3 DEF DataTypes, Price
<1>4. CASE ~Receive
  <2>1. UNCHANGED data
    BY <1>4, OnlyReceive
  <2>2. ASSUME NEW id \in ID, data'[id] # None
        PROVE  data'[id].trade <= trade' /\ data'[id].time <= clock'
    BY <1>1, <1>2, <2>1, <2>2
  <2> QED
    BY <1>2, <2>1, <2>2 DEF DataTypes, Price
<1> QED
  BY <1>3, <1>4

\* The types hold in every state.
THEOREM TypesInvariant == Spec => []FetchTypes
<1>1. Init => FetchTypes
  BY TypesInit
<1>2. FetchTypes /\ [Next]_vars => FetchTypes'
  BY QueryTypesStep, WorkerTypesStep, ResponseTypesStep, DataTypesStep DEF FetchTypes
<1> QED
  BY <1>1, <1>2, PTL DEF Spec

\* Type correctness: in particular the response channel never has more than its
\* capacity, and every task asks for ids of the provider.
THEOREM TypesHold == Spec => []TypeOK
<1>1. FetchTypes => TypeOK
  <2> SUFFICES ASSUME FetchTypes PROVE TypeOK
    OBVIOUS
  <2>1. \A w \in Worker : job[w] \subseteq ID /\ readErrCount[w] \in Nat
    BY DEF FetchTypes, WorkerTypes
  <2>2. \A id \in ID : data[id] # None => data[id].trade \in 0..MaxTrade
    <3> SUFFICES ASSUME NEW id \in ID, data[id] # None PROVE data[id].trade \in 0..MaxTrade
      OBVIOUS
    <3>1. data[id].trade \in Nat /\ data[id].trade <= trade
      BY DEF FetchTypes, DataTypes
    <3>2. trade \in 1..MaxTrade
      BY DEF FetchTypes, QueryTypes
    <3> QED
      BY <3>1, <3>2, FetchAssumption
  <2> QED
    BY <2>1, <2>2 DEF TypeOK, FetchTypes, QueryTypes, WorkerTypes, ResponseTypes, Steps
<1> QED
  BY <1>1, TypesInvariant, PTL

-----------------------------------------------------------------------------
(* The order of a websocket's prices *)

\* The numbers that the order compares.
LEMMA Numbers ==
    ASSUME FetchTypes, NEW id \in ID
    PROVE  /\ trade \in Nat /\ clock \in Nat
           /\ data[id] # None => data[id].trade \in Nat /\ data[id].time \in Nat
                                 /\ data[id].trade <= trade /\ data[id].time <= clock
           /\ \A i \in About(id) : /\ responseCh[i].trade \in Nat /\ responseCh[i].time \in Nat
                                   /\ responseCh[i].trade <= trade /\ responseCh[i].time <= clock
                                   /\ i \in Nat
           /\ \A w \in Writing(id) : /\ resp[w].trade \in Nat /\ resp[w].time \in Nat
                                     /\ resp[w].trade <= trade /\ resp[w].time <= clock
           /\ \A w \in Worker : /\ since[w] \in Nat
                                /\ handler[w][id].sequence \in Nat
                                /\ handler[w][id].tradeID \in Nat
<1>1. trade \in Nat /\ clock \in Nat
  BY DEF FetchTypes, QueryTypes
<1>2. data[id] # None => data[id].trade \in Nat /\ data[id].time \in Nat
                         /\ data[id].trade <= trade /\ data[id].time <= clock
  BY DEF FetchTypes, DataTypes
<1>3. \A r \in Possible : r.trade \in Nat /\ r.time \in Nat /\ r.trade <= trade /\ r.time <= clock
  BY DEF Possible, Response
<1>4. responseCh \in Seq(Response) /\ \A i \in DOMAIN responseCh : responseCh[i] \in Possible
  BY DEF FetchTypes, ResponseTypes
<1>5. DOMAIN responseCh \subseteq Nat
  BY <1>4
<1>6. \A w \in Writing(id) : resp[w] \in Possible
  BY DEF Writing, FetchTypes, ResponseTypes
<1>7. \A w \in Worker : since[w] \in Nat /\ handler[w][id] \in [sequence : Nat, tradeID : Nat]
  BY DEF FetchTypes, WorkerTypes
<1> QED
  BY <1>1, <1>2, <1>3, <1>4, <1>5, <1>6, <1>7 DEF About

\* The steps that leave the data and the responses about an id alone, but may drop
\* the one that is to be written when the context is over, or begin a connection.
LEMMA Frame ==
    ASSUME FetchTypes, NEW id \in ID, PriceAt(id),
           data'[id] = data[id], job' = job,
           About(id)' = About(id), \A i \in About(id) : responseCh'[i] = responseCh[i],
           \A w \in Writing(id)' : w \in Writing(id) /\ resp'[w] = resp[w],
           \A w \in Worker : pc'[w] \in {"read", "write"} /\ id \in job[w] =>
              \/ trade <= since'[w] /\ since'[w] \in Nat
              \/ /\ pc[w] \in {"read", "write"} /\ since'[w] = since[w]
                 /\ handler'[w][id] = handler[w][id],
           \A w \in Worker : ~done' /\ id \in job[w] =>
              /\ ~done
              /\ handler'[w][id].tradeID \in {0, handler[w][id].tradeID}
              /\ w \in Writing(id) => w \in Writing(id)'
    PROVE  PriceAt(id)'
<1>1. InOrder(id)'
  BY DEF InOrder, PriceAt
<1>2. Confirmed(id)'
  <2>1. Confirmed(id)
    BY DEF PriceAt
  <2>2. \A k : Had(id, k)' <=> Had(id, k)
    BY DEF Had
  <2> QED
    BY <2>1, <2>2 DEF Confirmed
<1>3. ASSUME NEW w \in Worker, id \in job[w]
      PROVE  Ahead(w, id)'
  <2>1. CASE pc'[w] \notin {"read", "write"}
    BY <2>1 DEF Ahead
  <2>2. CASE trade <= since'[w] /\ since'[w] \in Nat
    <3>1. \A k \in Nat : k <= trade => Passed(w, id, k)'
      BY <2>2, Numbers DEF Passed
    <3>2. /\ data[id] # None => data[id].trade \in Nat /\ data[id].trade <= trade
          /\ \A i \in About(id) : responseCh[i].trade \in Nat /\ responseCh[i].trade <= trade
          /\ \A v \in Writing(id) : resp[v].trade \in Nat /\ resp[v].trade <= trade
      BY Numbers
    <3> QED
      BY <3>1, <3>2 DEF Ahead, Passed
  <2>3. CASE /\ pc[w] \in {"read", "write"} /\ since'[w] = since[w]
             /\ handler'[w][id] = handler[w][id]
    <3>1. Ahead(w, id)
      BY <1>3 DEF PriceAt
    <3> QED
      BY <2>3, <3>1 DEF Ahead, Passed
  <2> QED
    BY <1>3, <2>1, <2>2, <2>3
<1>4. ASSUME NEW w \in Worker, id \in job[w]
      PROVE  Kept(w, id)'
  <2> SUFFICES ASSUME ~done', handler'[w][id].tradeID > 0 PROVE Kept(w, id)'
    BY DEF Kept
  <2>1. handler'[w][id].tradeID = handler[w][id].tradeID /\ ~done
    BY <1>4
  <2>2. \/ Had(id, handler[w][id].tradeID)
        \/ \E i \in About(id) : responseCh[i].trade >= handler[w][id].tradeID
        \/ w \in Writing(id) /\ resp[w].trade >= handler[w][id].tradeID
    BY <1>4, <2>1 DEF PriceAt, Kept
  <2>3. w \in Writing(id) => w \in Writing(id)' /\ resp'[w] = resp[w]
    BY <1>4
  <2> QED
    BY <2>1, <2>2, <2>3 DEF Kept, Had
<1> QED
  BY <1>1, <1>2, <1>3, <1>4 DEF PriceAt

\* An id has one connection.
LEMMA OneConnection ==
    ASSUME FetchTypes, ~IsAPI, NEW v \in Worker, NEW w \in Worker,
           NEW id, id \in job[v], id \in job[w]
    PROVE  v = w
BY JobsAre DEF FetchTypes, QueryTypes, WorkerTypes

\* A message about another id.
LEMMA OtherMessage ==
    ASSUME FetchTypes, PriceInv, ~IsAPI, NEW w \in Worker, NEW other \in ID, NEW k \in 1..trade,
           TickerMessage(w, other, k) \/ HeartbeatMessage(w, other, k),
           NEW id \in ID, id # other
    PROVE  PriceAt(id)'
<1>1. /\ pc[w] = "read" /\ ~done /\ pc' = [pc EXCEPT ![w] = "write"]
      /\ UNCHANGED <<done, job, since, responseCh, data>> /\ Heard(w, other, k)
  BY MessageIs
<1>2. PICK h \in [sequence : Nat, tradeID : Nat], r \in Response :
         /\ handler' = [handler EXCEPT ![w][other] = h] /\ h.sequence = k
         /\ resp' = [resp EXCEPT ![w] = r]
         /\ \/ h.tradeID = k /\ r = Result({other}, "ok", k, clock')
            \/ /\ h.tradeID = handler[w][other].tradeID
               /\ \/ r = Failed
                  \/ h.tradeID = k /\ r = Result({other}, "unchanged", k, clock')
  BY <1>1 DEF Heard
<1>3. /\ pc \in [Worker -> Steps] /\ resp \in [Worker -> Response \cup {None}]
      /\ handler \in [Worker -> [ID -> [sequence : Nat, tradeID : Nat]]]
  BY DEF FetchTypes, WorkerTypes, ResponseTypes
<1>4. \A v \in Worker : handler'[v][id] = handler[v][id]
  BY <1>2, <1>3
<1>5. w \notin Writing(id) /\ w \notin Writing(id)'
  <2>1. id \notin r.ids
    BY <1>2 DEF Failed, Result
  <2> QED
    BY <1>1, <1>2, <1>3, <2>1 DEF Writing
<1>6. \A v \in Worker : v # w => pc'[v] = pc[v] /\ resp'[v] = resp[v]
  BY <1>1, <1>2, <1>3
<1>7. \A v \in Writing(id)' : v \in Writing(id) /\ resp'[v] = resp[v]
  BY <1>5, <1>6 DEF Writing
<1>8. \A v \in Writing(id) : v \in Writing(id)'
  BY <1>5, <1>6 DEF Writing
<1>9. \A v \in Worker : pc'[v] \in {"read", "write"} => pc[v] \in {"read", "write"}
  BY <1>1, <1>3
<1>10. About(id)' = About(id)
  BY <1>1 DEF About
<1>11. PriceAt(id)
  BY DEF PriceInv
<1> QED
  BY <1>1, <1>4, <1>7, <1>8, <1>9, <1>10, <1>11, Frame

\* A message about the id: the trade that it names is none before those of the
\* data and the responses, and a price that it confirms is among them.
LEMMA OwnMessage ==
    ASSUME FetchTypes, PriceInv, ~IsAPI, [Next]_vars,
           NEW w \in Worker, NEW id \in ID, NEW k \in 1..trade,
           TickerMessage(w, id, k) \/ HeartbeatMessage(w, id, k)
    PROVE  PriceAt(id)'
<1>1. /\ pc[w] = "read" /\ ~done /\ id \in job[w] /\ k >= since[w]
      /\ handler[w][id].sequence <= k
      /\ pc' = [pc EXCEPT ![w] = "write"]
      /\ UNCHANGED <<done, job, since, responseCh, data>> /\ Heard(w, id, k)
  BY MessageIs
<1>2. PICK h \in [sequence : Nat, tradeID : Nat], r \in Response :
         /\ handler' = [handler EXCEPT ![w][id] = h] /\ h.sequence = k
         /\ resp' = [resp EXCEPT ![w] = r]
         /\ \/ h.tradeID = k /\ r = Result({id}, "ok", k, clock')
            \/ /\ h.tradeID = handler[w][id].tradeID
               /\ \/ r = Failed
                  \/ h.tradeID = k /\ r = Result({id}, "unchanged", k, clock')
  BY <1>1 DEF Heard
<1>3. /\ pc \in [Worker -> Steps] /\ resp \in [Worker -> Response \cup {None}]
      /\ handler \in [Worker -> [ID -> [sequence : Nat, tradeID : Nat]]]
  BY DEF FetchTypes, WorkerTypes, ResponseTypes
<1>4. /\ pc'[w] = "write" /\ resp'[w] = r /\ handler'[w][id] = h
      /\ \A v \in Worker : v # w => /\ pc'[v] = pc[v] /\ resp'[v] = resp[v]
                                    /\ handler'[v] = handler[v]
  BY <1>1, <1>2, <1>3
<1>5. PriceAt(id)
  BY DEF PriceInv
<1>6. k \in Nat /\ clock' \in Nat /\ clock <= clock'
  BY TimeGoesOn DEF FetchTypes, QueryTypes
<1>7. About(id)' = About(id)
  BY <1>1 DEF About
<1>8. \A v \in Worker : id \in job[v] => v = w
  BY <1>1, OneConnection
<1>9. Writing(id) = {}
  <2> SUFFICES ASSUME NEW v \in Writing(id) PROVE FALSE
    OBVIOUS
  <2>1. v \in Worker /\ pc[v] = "write" /\ id \in job[v]
    BY <1>5 DEF Writing, PriceAt, InOrder
  <2> QED
    BY <1>1, <1>8, <2>1
<1>10. Writing(id)' \subseteq {w} /\ (w \in Writing(id)' <=> id \in r.ids)
  BY <1>4, <1>9 DEF Writing
<1>11. /\ data[id] # None => data[id].trade <= k /\ data[id].time <= clock'
       /\ \A i \in About(id) : responseCh[i].trade <= k /\ responseCh[i].time <= clock'
  <2>1. Ahead(w, id)
    BY <1>1, <1>5 DEF PriceAt
  <2>2. \A n \in Nat : Passed(w, id, n) => n <= k
    BY <1>1, <1>6, Numbers DEF Passed
  <2>3. /\ data[id] # None => Passed(w, id, data[id].trade)
        /\ \A i \in About(id) : Passed(w, id, responseCh[i].trade)
    BY <1>1, <2>1 DEF Ahead
  <2>4. /\ data[id] # None => data[id].time <= clock'
        /\ \A i \in About(id) : responseCh[i].time <= clock'
    BY <1>6, Numbers
  <2> QED
    BY <2>2, <2>3, <2>4, Numbers
<1>12. id \in r.ids => r.trade = k /\ r.time = clock'
  BY <1>2 DEF Failed, Result
<1>13. InOrder(id)'
  <2>1. InOrder(id)
    BY <1>5 DEF PriceAt
  <2> QED
    BY <1>1, <1>4, <1>7, <1>10, <1>11, <1>12, <2>1 DEF InOrder
<1>14. r.code = "unchanged" => h.tradeID = k /\ h.tradeID = handler[w][id].tradeID /\ r.trade = k
  BY <1>2 DEF Failed, Result
<1>15. r.code = "unchanged" =>
         Had(id, r.trade) \/ \E j \in About(id) : responseCh[j].trade >= r.trade
  <2> SUFFICES ASSUME r.code = "unchanged"
               PROVE  Had(id, r.trade) \/ \E j \in About(id) : responseCh[j].trade >= r.trade
    OBVIOUS
  <2>1. handler[w][id].tradeID = k /\ r.trade = k /\ k > 0
    BY <1>6, <1>14
  <2>2. Kept(w, id)
    BY <1>1, <1>5 DEF PriceAt
  <2> QED
    BY <1>1, <1>9, <2>1, <2>2 DEF Kept
<1>16. Confirmed(id)'
  <2>1. Confirmed(id)
    BY <1>5 DEF PriceAt
  <2>2. \A n : Had(id, n)' <=> Had(id, n)
    BY <1>1 DEF Had
  <2> QED
    BY <1>1, <1>4, <1>7, <1>10, <1>15, <2>1, <2>2 DEF Confirmed
<1>17. Ahead(w, id)'
  <2>1. \A n \in Nat : n <= k => Passed(w, id, n)'
    BY <1>2, <1>4, <1>6 DEF Passed
  <2>2. /\ data[id] # None => data[id].trade \in Nat /\ data[id].trade <= k
        /\ \A i \in About(id) : responseCh[i].trade \in Nat /\ responseCh[i].trade <= k
    BY <1>11, Numbers
  <2> QED
    BY <1>1, <1>4, <1>6, <1>7, <1>10, <1>12, <2>1, <2>2 DEF Ahead, Passed
<1>18. Kept(w, id)'
  <2> SUFFICES ASSUME h.tradeID > 0 PROVE Kept(w, id)'
    BY <1>4 DEF Kept
  <2>1. CASE h.tradeID = k /\ r = Result({id}, "ok", k, clock')
    <3>1. w \in Writing(id)' /\ resp'[w].trade >= h.tradeID
      BY <1>4, <1>6, <1>10, <2>1 DEF Result
    <3> QED
      BY <1>4, <3>1 DEF Kept
  <2>2. CASE h.tradeID = handler[w][id].tradeID
    <3>1. Had(id, h.tradeID) \/ \E i \in About(id) : responseCh[i].trade >= h.tradeID
      <4>1. Kept(w, id)
        BY <1>1, <1>5 DEF PriceAt
      <4> QED
        BY <1>1, <1>9, <2>2, <4>1 DEF Kept
    <3> QED
      BY <1>1, <1>4, <1>7, <3>1 DEF Kept, Had
  <2> QED
    BY <1>2, <2>1, <2>2
<1> QED
  BY <1>1, <1>8, <1>13, <1>16, <1>17, <1>18 DEF PriceAt

\* A response about the id goes into the channel.
LEMMA WriteStep ==
    ASSUME FetchTypes, PriceInv, ~IsAPI, NEW w \in Worker, Write(w), NEW id \in ID
    PROVE  PriceAt(id)'
<1>1. /\ pc[w] = "write" /\ responseCh' = Append(responseCh, resp[w])
      /\ pc' = [pc EXCEPT ![w] = "read"] /\ resp' = [resp EXCEPT ![w] = None]
      /\ job' = job
      /\ UNCHANGED <<done, handler, since, data>>
  <2>1. EndWrite(w, "read") /\ pc[w] = "write" /\ responseCh' = Append(responseCh, resp[w])
    BY DEF Write
  <2>2. job' = [job EXCEPT ![w] = job[w]]
    BY <2>1 DEF EndWrite
  <2>3. job' = job
    BY <2>2 DEF FetchTypes, WorkerTypes
  <2> QED
    BY <2>1, <2>3 DEF EndWrite, connections
<1>2. /\ pc \in [Worker -> Steps] /\ resp \in [Worker -> Response \cup {None}]
      /\ responseCh \in Seq(Response) /\ resp[w] \in Response
  BY <1>1 DEF FetchTypes, WorkerTypes, ResponseTypes, Possible
<1>3. PICK n : n = Len(responseCh) + 1
  OBVIOUS
<1>4. /\ n \in Nat /\ DOMAIN responseCh' = DOMAIN responseCh \cup {n}
      /\ \A i \in DOMAIN responseCh : i < n /\ i \in Nat /\ responseCh'[i] = responseCh[i]
      /\ responseCh'[n] = resp[w]
  BY <1>1, <1>2, <1>3
<1>5. /\ pc'[w] = "read"
      /\ \A v \in Worker : v # w => pc'[v] = pc[v] /\ resp'[v] = resp[v]
  BY <1>1, <1>2
<1>6. PriceAt(id)
  BY DEF PriceInv
<1>7. w \notin Writing(id)' /\ Writing(id)' = Writing(id) \ {w}
  BY <1>5 DEF Writing
<1>8. CASE id \notin resp[w].ids
  <2>1. About(id)' = About(id)
    BY <1>4, <1>8 DEF About
  <2>2. \A i \in About(id) : responseCh'[i] = responseCh[i]
    BY <1>4 DEF About
  <2>3. w \notin Writing(id)
    BY <1>8 DEF Writing
  <2>4. \A v \in Writing(id)' : v \in Writing(id) /\ resp'[v] = resp[v]
    BY <1>5, <1>7 DEF Writing
  <2>5. \A v \in Worker : pc'[v] \in {"read", "write"} => pc[v] \in {"read", "write"}
    BY <1>1, <1>5
  <2> QED
    BY <1>1, <1>6, <1>7, <2>1, <2>2, <2>3, <2>4, <2>5, Frame
<1>9. CASE id \in resp[w].ids
  <2>1. About(id)' = About(id) \cup {n} /\ n \notin About(id)
    BY <1>4, <1>9 DEF About
  <2>2. \A i \in About(id) : i < n /\ i \in Nat /\ responseCh'[i] = responseCh[i]
    BY <1>4 DEF About
  <2>3. w \in Writing(id) /\ id \in job[w]
    BY <1>1, <1>6, <1>9 DEF Writing, PriceAt, InOrder
  <2>4. Writing(id)' = {}
    <3> SUFFICES ASSUME NEW v \in Writing(id), v # w PROVE FALSE
      BY <1>7
    <3>1. v \in Worker /\ id \in job[v]
      BY <1>6 DEF Writing, PriceAt, InOrder
    <3> QED
      BY <2>3, <3>1, OneConnection
  <2>5. \A v \in Worker : id \in job[v] => v = w
    BY <2>3, OneConnection
  <2>6. InOrder(id)'
    <3>1. InOrder(id)
      BY <1>6 DEF PriceAt
    <3>2. \A i \in About(id) : data[id] # None =>
             data[id].trade <= responseCh[i].trade /\ data[id].time <= responseCh[i].time
      BY <3>1 DEF InOrder
    <3>3. \A i, j \in About(id) : i < j =>
             /\ responseCh[i].trade <= responseCh[j].trade
             /\ responseCh[i].time <= responseCh[j].time
      BY <3>1 DEF InOrder
    <3>4. /\ data[id] # None => data[id].trade <= resp[w].trade /\ data[id].time <= resp[w].time
          /\ \A i \in About(id) :
                responseCh[i].trade <= resp[w].trade /\ responseCh[i].time <= resp[w].time
      BY <2>3, <3>1 DEF InOrder
    <3>5. ASSUME NEW i \in About(id)', NEW j \in About(id)', i < j
          PROVE  /\ responseCh'[i].trade <= responseCh'[j].trade
                 /\ responseCh'[i].time <= responseCh'[j].time
      <4>1. i \in About(id)
        BY <1>4, <2>1, <2>2, <3>5
      <4>2. CASE j = n
        BY <1>4, <2>2, <3>4, <4>1, <4>2
      <4>3. CASE j \in About(id)
        BY <2>2, <3>3, <3>5, <4>1, <4>3
      <4> QED
        BY <2>1, <4>2, <4>3
    <3>6. ASSUME NEW i \in About(id)', data[id] # None
          PROVE  /\ data[id].trade <= responseCh'[i].trade
                 /\ data[id].time <= responseCh'[i].time
      BY <1>4, <2>1, <2>2, <3>2, <3>4, <3>6
    <3> QED
      BY <1>1, <2>4, <3>5, <3>6 DEF InOrder
  <2>7. Confirmed(id)'
    <3>1. Confirmed(id)
      BY <1>6 DEF PriceAt
    <3>2. \A k : Had(id, k)' <=> Had(id, k)
      BY <1>1 DEF Had
    <3>3. ASSUME NEW i \in About(id)', responseCh'[i].code = "unchanged"
          PROVE  \/ Had(id, responseCh'[i].trade)
                 \/ \E j \in About(id)' : j < i /\ responseCh'[j].trade >= responseCh'[i].trade
      <4>1. CASE i = n
        <5>1. Had(id, resp[w].trade) \/ \E j \in About(id) : responseCh[j].trade >= resp[w].trade
          BY <1>4, <2>3, <3>1, <3>3, <4>1 DEF Confirmed
        <5> QED
          BY <1>4, <2>1, <2>2, <4>1, <5>1
      <4>2. CASE i \in About(id)
        <5>1. \/ Had(id, responseCh[i].trade)
              \/ \E j \in About(id) : j < i /\ responseCh[j].trade >= responseCh[i].trade
          BY <2>2, <3>1, <3>3, <4>2 DEF Confirmed
        <5> QED
          BY <2>1, <2>2, <4>2, <5>1
      <4> QED
        BY <2>1, <4>1, <4>2
    <3>4. data[id] # None => data[id].trade = data[id].said
      BY <3>1 DEF Confirmed
    <3> QED
      BY <1>1, <2>4, <3>2, <3>3, <3>4 DEF Confirmed
  <2>8. Ahead(w, id)'
    <3>1. /\ data[id] # None => Passed(w, id, data[id].trade)
          /\ \A i \in About(id) : Passed(w, id, responseCh[i].trade)
          /\ Passed(w, id, resp[w].trade)
      BY <1>1, <1>6, <2>3 DEF PriceAt, Ahead
    <3>2. \A k : Passed(w, id, k)' <=> Passed(w, id, k)
      BY <1>1 DEF Passed
    <3>3. \A i \in About(id)' : Passed(w, id, responseCh'[i].trade)
      BY <1>4, <2>1, <2>2, <3>1
    <3> HIDE DEF Passed
    <3> QED
      BY <1>1, <1>7, <3>1, <3>2, <3>3 DEF Ahead
  <2>9. Kept(w, id)'
    <3> SUFFICES ASSUME ~done, handler[w][id].tradeID > 0 PROVE Kept(w, id)'
      BY <1>1 DEF Kept
    <3>1. \/ Had(id, handler[w][id].tradeID)
          \/ \E i \in About(id) : responseCh[i].trade >= handler[w][id].tradeID
          \/ resp[w].trade >= handler[w][id].tradeID
      BY <1>6, <2>3 DEF PriceAt, Kept
    <3>2. \/ Had(id, handler[w][id].tradeID)
          \/ \E i \in About(id)' : responseCh'[i].trade >= handler[w][id].tradeID
      BY <1>4, <2>1, <2>2, <3>1
    <3> QED
      BY <1>1, <3>2 DEF Kept, Had
  <2> QED
    BY <1>1, <2>5, <2>6, <2>7, <2>8, <2>9 DEF PriceAt
<1> QED
  BY <1>8, <1>9

\* The response that recv takes is applied: the data is what it names.
LEMMA Applied ==
    ASSUME FetchTypes, PriceInv, ~IsAPI, Receive, NEW id \in ID, 1 \in About(id)
    PROVE  /\ data'[id] # None /\ data'[id].trade = responseCh[1].trade
           /\ data'[id].said = responseCh[1].trade /\ data'[id].time = responseCh[1].time
<1>1. PICK r, current, new : r = responseCh[1] /\ current = data[id] /\ new = data'[id]
  OBVIOUS
<1>2. id \in r.ids /\ PriceAt(id)
  BY <1>1 DEF About, PriceInv
<1>3. /\ r \in Possible /\ r \in Response /\ current \in Price \cup {None}
      /\ new = updateData(current, r)
  BY <1>1, <1>2, ReceiveIs
<1>4. r.trade \in Nat /\ r.time \in Nat
  BY <1>3 DEF Response
<1>5. current # None => /\ current.trade <= r.trade /\ current.time <= r.time
                        /\ current.trade \in Nat /\ current.time \in Nat
                        /\ current.trade = current.said
  BY <1>1, <1>2, Numbers DEF PriceAt, InOrder, Confirmed
<1>6. r.code = "unchanged" => current # None /\ current.trade >= r.trade
  <2> SUFFICES ASSUME r.code = "unchanged" PROVE current # None /\ current.trade >= r.trade
    OBVIOUS
  <2>1. Had(id, responseCh[1].trade) \/ \E j \in About(id) : j < 1
    BY <1>1, <1>2 DEF PriceAt, Confirmed
  <2>2. \A j \in About(id) : j \in Nat /\ j # 0
    <3>1. responseCh \in Seq(Response)
      BY DEF FetchTypes, ResponseTypes
    <3> QED
      BY <3>1 DEF About
  <2> QED
    BY <1>1, <2>1, <2>2 DEF Had
<1>7. /\ new \in Price
      /\ current # None /\ r.code = "unchanged" => new.trade = current.trade
      /\ r.code # "unchanged" /\ (current = None \/ r.time >= current.time) =>
            new.trade = r.trade /\ new.said = r.trade /\ new.time = r.time
      /\ r.code = "unchanged" /\ current # None /\ r.time >= current.time =>
            new.said = r.trade /\ new.time = r.time
  BY <1>3, UpdateIs
<1>8. new # None
  BY <1>7, FetchAssumption DEF Price
<1>9. new.trade = r.trade /\ new.said = r.trade /\ new.time = r.time
  BY <1>4, <1>5, <1>6, <1>7
<1> QED
  BY <1>1, <1>8, <1>9

\* A response leaves the channel.
LEMMA ReceiveStep ==
    ASSUME FetchTypes, PriceInv, ~IsAPI, Receive, NEW id \in ID
    PROVE  PriceAt(id)'
<1>1. /\ responseCh # <<>> /\ responseCh' = Tail(responseCh)
      /\ UNCHANGED <<done, pc, job, resp, handler, since>>
  BY DEF Receive, workers, connections
<1>2. responseCh \in Seq(Response)
  BY DEF FetchTypes, ResponseTypes
<1>3. /\ 1 \in DOMAIN responseCh
      /\ \A i \in DOMAIN responseCh' : i \in Nat /\ i >= 1 /\ i + 1 \in DOMAIN responseCh
                                       /\ responseCh'[i] = responseCh[i + 1]
      /\ \A i \in DOMAIN responseCh : i \in Nat /\ (i = 1 \/ i - 1 \in DOMAIN responseCh')
  BY <1>1, <1>2
<1>4. /\ \A i \in About(id)' : i \in Nat /\ i >= 1 /\ i + 1 \in About(id)
                               /\ responseCh'[i] = responseCh[i + 1]
      /\ \A i \in About(id) : i \in Nat /\ (i = 1 \/ (i - 1 \in About(id)' /\ (i - 1) + 1 = i))
  <2>1. \A i \in About(id)' : i \in Nat /\ i >= 1 /\ i + 1 \in About(id)
                              /\ responseCh'[i] = responseCh[i + 1]
    BY <1>3 DEF About
  <2>2. ASSUME NEW i \in About(id), i # 1
        PROVE  i - 1 \in About(id)' /\ (i - 1) + 1 = i
    <3>1. i \in DOMAIN responseCh /\ id \in responseCh[i].ids
      BY DEF About
    <3>2. i \in Nat /\ i - 1 \in DOMAIN responseCh' /\ (i - 1) + 1 = i
      BY <1>3, <2>2, <3>1
    <3>3. responseCh'[i - 1] = responseCh[(i - 1) + 1]
      BY <1>3, <3>2
    <3> QED
      BY <3>1, <3>2, <3>3 DEF About
  <2> QED
    BY <1>3, <2>1, <2>2 DEF About
<1>5. Writing(id)' = Writing(id)
  BY <1>1 DEF Writing
<1>6. PriceAt(id)
  BY DEF PriceInv
<1>7. CASE 1 \in About(id)
  <2>1. PICK r : r = responseCh[1]
    OBVIOUS
  <2>2. /\ data'[id] # None /\ data'[id].trade = r.trade
        /\ data'[id].said = r.trade /\ data'[id].time = r.time
    BY <1>7, <2>1, Applied
  <2>3. r.trade \in Nat /\ r.time \in Nat
    BY <1>7, <2>1, Numbers
  <2>4. InOrder(id)'
    <3>1. InOrder(id)
      BY <1>6 DEF PriceAt
    <3>2. ASSUME NEW i \in About(id)'
          PROVE  r.trade <= responseCh'[i].trade /\ r.time <= responseCh'[i].time
      <4>1. i + 1 \in About(id) /\ 1 < i + 1 /\ responseCh'[i] = responseCh[i + 1]
        BY <1>4
      <4> QED
        BY <1>7, <2>1, <3>1, <4>1 DEF InOrder
    <3>3. ASSUME NEW i \in About(id)', NEW j \in About(id)', i < j
          PROVE  /\ responseCh'[i].trade <= responseCh'[j].trade
                 /\ responseCh'[i].time <= responseCh'[j].time
      <4>1. /\ i + 1 \in About(id) /\ j + 1 \in About(id) /\ i + 1 < j + 1
            /\ responseCh'[i] = responseCh[i + 1] /\ responseCh'[j] = responseCh[j + 1]
        BY <1>4, <3>3
      <4> QED
        BY <3>1, <4>1 DEF InOrder
    <3>4. ASSUME NEW w \in Writing(id)
          PROVE  /\ id \in job[w] /\ r.trade <= resp[w].trade /\ r.time <= resp[w].time
                 /\ \A i \in About(id)' :
                      /\ responseCh'[i].trade <= resp[w].trade
                      /\ responseCh'[i].time <= resp[w].time
      BY <1>4, <1>7, <2>1, <3>1 DEF InOrder
    <3> QED
      BY <1>1, <1>5, <2>2, <3>2, <3>3, <3>4 DEF InOrder
  <2>5. \A k : k <= r.trade => Had(id, k)'
    BY <2>2, <2>3 DEF Had
  <2>6. ASSUME NEW k \in Nat, Had(id, k) PROVE Had(id, k)'
    <3>1. data[id] # None /\ data[id].trade >= k /\ data[id].trade <= r.trade
      BY <1>6, <1>7, <2>1, <2>6 DEF Had, PriceAt, InOrder
    <3> QED
      BY <2>3, <2>5, <3>1, Numbers
  <2>7. ASSUME NEW k \in Nat, NEW b \in Nat, NEW j \in About(id), j < b + 1, responseCh[j].trade >= k
        PROVE  Had(id, k)' \/ \E i \in About(id)' : i < b /\ responseCh'[i].trade >= k
    <3>1. CASE j = 1
      BY <2>1, <2>3, <2>5, <2>7, <3>1
    <3>2. CASE j # 1
      <4>1. j \in Nat /\ j - 1 \in About(id)' /\ (j - 1) + 1 = j
        BY <1>4, <3>2
      <4>2. responseCh'[j - 1] = responseCh[j] /\ j - 1 < b
        BY <1>4, <2>7, <4>1
      <4> QED
        BY <2>7, <4>1, <4>2
    <3> QED
      BY <3>1, <3>2
  <2>8. ASSUME NEW k \in Nat, NEW j \in About(id), responseCh[j].trade >= k
        PROVE  Had(id, k)' \/ \E i \in About(id)' : responseCh'[i].trade >= k
    <3>1. j \in Nat /\ j < j + 1
      BY <1>4
    <3> QED
      BY <2>7, <2>8, <3>1
  <2>9. Confirmed(id)'
    <3>1. Confirmed(id)
      BY <1>6 DEF PriceAt
    <3>2. ASSUME NEW i \in About(id)', responseCh'[i].code = "unchanged"
          PROVE  \/ data'[id].trade >= responseCh'[i].trade
                 \/ \E j \in About(id)' : j < i /\ responseCh'[j].trade >= responseCh'[i].trade
      <4>1. i \in Nat /\ i + 1 \in About(id) /\ responseCh'[i] = responseCh[i + 1]
        BY <1>4
      <4>2. PICK k : k = responseCh[i + 1].trade
        OBVIOUS
      <4>3. k \in Nat
        BY <4>1, <4>2, Numbers
      <4>4. Had(id, k) \/ \E j \in About(id) : j < i + 1 /\ responseCh[j].trade >= k
        BY <3>1, <3>2, <4>1, <4>2 DEF Confirmed
      <4>5. Had(id, k)' \/ \E j \in About(id)' : j < i /\ responseCh'[j].trade >= k
        BY <2>6, <2>7, <4>1, <4>3, <4>4
      <4> QED
        BY <4>1, <4>2, <4>5 DEF Had
    <3>3. ASSUME NEW w \in Writing(id), resp[w].code = "unchanged"
          PROVE  \/ data'[id].trade >= resp[w].trade
                 \/ \E j \in About(id)' : responseCh'[j].trade >= resp[w].trade
      <4>1. PICK k : k = resp[w].trade
        OBVIOUS
      <4>2. k \in Nat
        BY <4>1, Numbers
      <4>3. Had(id, k) \/ \E j \in About(id) : responseCh[j].trade >= k
        BY <3>1, <3>3, <4>1 DEF Confirmed
      <4>4. Had(id, k)' \/ \E j \in About(id)' : responseCh'[j].trade >= k
        BY <2>6, <2>8, <4>2, <4>3
      <4> QED
        BY <4>1, <4>4 DEF Had
    <3> QED
      BY <1>1, <1>5, <2>2, <3>2, <3>3 DEF Confirmed, Had
  <2>10. ASSUME NEW w \in Worker, id \in job[w]
         PROVE  Ahead(w, id)'
    <3> SUFFICES ASSUME pc[w] \in {"read", "write"} PROVE Ahead(w, id)'
      BY <1>1 DEF Ahead
    <3>1. /\ \A i \in About(id) : Passed(w, id, responseCh[i].trade)
          /\ w \in Writing(id) => Passed(w, id, resp[w].trade)
      BY <1>6, <2>10 DEF PriceAt, Ahead
    <3>2. Passed(w, id, r.trade) /\ \A i \in About(id)' : Passed(w, id, responseCh'[i].trade)
      BY <1>4, <1>7, <2>1, <3>1
    <3> QED
      BY <1>1, <1>5, <2>2, <3>1, <3>2 DEF Ahead, Passed
  <2>11. ASSUME NEW w \in Worker, id \in job[w]
         PROVE  Kept(w, id)'
    <3> SUFFICES ASSUME ~done, handler[w][id].tradeID > 0 PROVE Kept(w, id)'
      BY <1>1 DEF Kept
    <3>1. PICK k : k = handler[w][id].tradeID
      OBVIOUS
    <3>2. k \in Nat
      BY <3>1, Numbers
    <3>3. \/ Had(id, k) \/ \E i \in About(id) : responseCh[i].trade >= k
          \/ w \in Writing(id) /\ resp[w].trade >= k
      BY <1>6, <2>11, <3>1 DEF PriceAt, Kept
    <3>4. \/ Had(id, k)' \/ \E i \in About(id)' : responseCh'[i].trade >= k
          \/ w \in Writing(id) /\ resp[w].trade >= k
      BY <2>6, <2>8, <3>2, <3>3
    <3> QED
      BY <1>1, <1>5, <3>1, <3>4 DEF Kept, Had
  <2> QED
    BY <1>1, <2>4, <2>9, <2>10, <2>11 DEF PriceAt
<1>8. CASE 1 \notin About(id)
  <2>1. data'[id] = data[id]
    <3>1. id \notin responseCh[1].ids
      BY <1>3, <1>8 DEF About
    <3> QED
      BY <3>1, ReceiveIs
  <2>2. /\ \A i \in About(id)' : /\ i \in Nat /\ i + 1 \in About(id)
                                 /\ responseCh'[i] = responseCh[i + 1]
        /\ \A i \in About(id) : /\ i \in Nat /\ i - 1 \in About(id)'
                                /\ responseCh'[i - 1] = responseCh[i]
    BY <1>4, <1>8
  <2>3. \A k : Had(id, k)' <=> Had(id, k)
    BY <2>1 DEF Had
  <2>4. InOrder(id)'
    <3>1. InOrder(id)
      BY <1>6 DEF PriceAt
    <3>2. ASSUME NEW i \in About(id)', NEW j \in About(id)', i < j
          PROVE  /\ responseCh'[i].trade <= responseCh'[j].trade
                 /\ responseCh'[i].time <= responseCh'[j].time
      <4>1. /\ i + 1 \in About(id) /\ j + 1 \in About(id) /\ i + 1 < j + 1
            /\ responseCh'[i] = responseCh[i + 1] /\ responseCh'[j] = responseCh[j + 1]
        BY <2>2, <3>2
      <4> QED
        BY <3>1, <4>1 DEF InOrder
    <3> QED
      BY <1>1, <1>5, <2>1, <2>2, <3>1, <3>2 DEF InOrder
  <2>5. Confirmed(id)'
    <3>1. Confirmed(id)
      BY <1>6 DEF PriceAt
    <3>2. ASSUME NEW i \in About(id)', responseCh'[i].code = "unchanged"
          PROVE  \/ Had(id, responseCh'[i].trade)
                 \/ \E j \in About(id)' : j < i /\ responseCh'[j].trade >= responseCh'[i].trade
      <4>1. i \in Nat /\ i + 1 \in About(id) /\ responseCh'[i] = responseCh[i + 1]
        BY <2>2
      <4>2. \/ Had(id, responseCh[i + 1].trade)
            \/ \E j \in About(id) : j < i + 1 /\ responseCh[j].trade >= responseCh[i + 1].trade
        BY <3>1, <3>2, <4>1 DEF Confirmed
      <4>3. ASSUME NEW j \in About(id), j < i + 1, responseCh[j].trade >= responseCh[i + 1].trade
            PROVE  \E l \in About(id)' : l < i /\ responseCh'[l].trade >= responseCh'[i].trade
        <5>1. /\ j - 1 \in About(id)' /\ j - 1 < i
              /\ responseCh'[j - 1].trade >= responseCh'[i].trade
          BY <2>2, <4>1, <4>3
        <5> QED
          BY <5>1
      <4> QED
        BY <4>1, <4>2, <4>3
    <3>3. ASSUME NEW w \in Writing(id), resp[w].code = "unchanged"
          PROVE  \/ Had(id, resp[w].trade)
                 \/ \E j \in About(id)' : responseCh'[j].trade >= resp[w].trade
      BY <2>2, <3>1, <3>3 DEF Confirmed
    <3>4. data[id] # None => data[id].trade = data[id].said
      BY <3>1 DEF Confirmed
    <3> QED
      BY <1>1, <1>5, <2>1, <2>3, <3>2, <3>3, <3>4 DEF Confirmed
  <2>6. ASSUME NEW w \in Worker, id \in job[w]
        PROVE  Ahead(w, id)' /\ Kept(w, id)'
    <3>1. Ahead(w, id) /\ Kept(w, id)
      BY <1>6, <2>6 DEF PriceAt
    <3>2. Ahead(w, id)'
      BY <1>1, <1>5, <2>1, <2>2, <3>1 DEF Ahead, Passed
    <3>3. Kept(w, id)'
      <4> SUFFICES ASSUME ~done, handler[w][id].tradeID > 0 PROVE Kept(w, id)'
        BY <1>1 DEF Kept
      <4>1. \/ Had(id, handler[w][id].tradeID)
            \/ \E i \in About(id) : responseCh[i].trade >= handler[w][id].tradeID
            \/ w \in Writing(id) /\ resp[w].trade >= handler[w][id].tradeID
        BY <3>1 DEF Kept
      <4>2. \/ Had(id, handler[w][id].tradeID)
            \/ \E i \in About(id)' : responseCh'[i].trade >= handler[w][id].tradeID
            \/ w \in Writing(id) /\ resp[w].trade >= handler[w][id].tradeID
        BY <2>2, <4>1
      <4> QED
        BY <1>1, <1>5, <2>3, <4>2 DEF Kept
    <3> QED
      BY <3>2, <3>3
  <2> QED
    BY <1>1, <2>4, <2>5, <2>6 DEF PriceAt
<1> QED
  BY <1>7, <1>8

\* A new fetch context has nothing but the data.
LEMMA AgainStep ==
    ASSUME FetchTypes, PriceInv, ~IsAPI, Again, NEW id \in ID
    PROVE  PriceAt(id)'
<1>1. /\ responseCh' = <<>> /\ pc' = FirstPC /\ handler' = NothingSeen /\ UNCHANGED data
  BY DEF Again, Copy
<1>2. \A w \in Worker : pc'[w] \in {"idle", "loop"}
  BY <1>1, TypesBegin DEF FetchTypes, QueryTypes
<1>3. About(id)' = {} /\ Writing(id)' = {}
  BY <1>1, <1>2 DEF About, Writing
<1>4. \A w \in Worker : handler'[w][id].tradeID = 0
  BY <1>1 DEF NothingSeen
<1>5. data[id] # None => data[id].trade = data[id].said
  BY DEF PriceInv, PriceAt, Confirmed
<1>6. InOrder(id)' /\ Confirmed(id)'
  BY <1>1, <1>3, <1>5 DEF InOrder, Confirmed
<1>7. \A w \in Worker : Ahead(w, id)' /\ Kept(w, id)'
  BY <1>2, <1>4 DEF Ahead, Kept
<1> QED
  BY <1>6, <1>7 DEF PriceAt

\* The other steps of a connection.
LEMMA ConnectionStep ==
    ASSUME FetchTypes, PriceInv, ~IsAPI, [Next]_vars, NEW w \in Worker,
           WriteDone(w) \/ ConnectionLoop(w) \/ Dial(w) \/ SendFailure(w) \/ ReadDone(w)
             \/ ReadFails(w),
           NEW id \in ID
    PROVE  PriceAt(id)'
<1>1. UNCHANGED <<data, done, handler>> /\ job' = job
  <2>1. CASE WriteDone(w)
    <3>1. job' = [job EXCEPT ![w] = job[w]] /\ UNCHANGED <<data, done, handler>>
      BY <2>1 DEF WriteDone, EndWrite, connections
    <3> QED
      BY <3>1 DEF FetchTypes, WorkerTypes
  <2>2. CASE ~WriteDone(w)
    BY <2>2 DEF ConnectionLoop, Dial, SendFailure, ReadDone, ReadFails, SocketUnchanged,
                connections
  <2> QED
    BY <2>1, <2>2
<1>2. PICK step \in {"idle", "dial", "read", "failed", "loop"} :
         /\ pc' = [pc EXCEPT ![w] = step]
         /\ step = "read" => pc[w] = "read" \/ Dial(w)
         /\ pc[w] = "write" => done
  BY DEF WriteDone, EndWrite, ConnectionLoop, Dial, SendFailure, ReadDone, ReadFails
<1>3. \A v \in Worker : v # w => /\ pc'[v] = pc[v] /\ resp'[v] = resp[v]
                                 /\ since'[v] = since[v]
  BY <1>2 DEF WriteDone, EndWrite, ConnectionLoop, Dial, SendFailure, ReadDone, ReadFails,
              connections, FetchTypes, WorkerTypes, ResponseTypes
<1>4. /\ pc'[w] = step
      /\ Dial(w) => since'[w] = trade /\ trade \in Nat
      /\ pc[w] = "read" => since'[w] = since[w]
  BY <1>2 DEF WriteDone, EndWrite, ConnectionLoop, Dial, SendFailure, ReadDone, ReadFails,
              connections, FetchTypes, WorkerTypes, QueryTypes
<1>5. About(id)' = About(id) /\ \A i \in About(id) : responseCh'[i] = responseCh[i]
  <2>1. CASE UNCHANGED responseCh
    BY <2>1 DEF About
  <2>2. CASE responseCh' = Append(responseCh, Failed)
    <3>1. responseCh \in Seq(Response)
      BY DEF FetchTypes, ResponseTypes
    <3>2. PICK n : n = Len(responseCh) + 1
      OBVIOUS
    <3>3. /\ DOMAIN responseCh' = DOMAIN responseCh \cup {n} /\ responseCh'[n] = Failed
          /\ \A i \in DOMAIN responseCh : responseCh'[i] = responseCh[i]
      BY <2>2, <3>1, <3>2
    <3>4. id \notin Failed.ids
      BY DEF Failed, Result
    <3> QED
      BY <3>3, <3>4 DEF About
  <2> QED
    BY <2>1, <2>2 DEF WriteDone, ConnectionLoop, Dial, SendFailure, ReadDone, ReadFails
<1>6. w \notin Writing(id)' /\ (w \in Writing(id) => done)
  BY <1>2, <1>4 DEF Writing
<1>7. \A v \in Writing(id)' : v \in Writing(id) /\ resp'[v] = resp[v]
  BY <1>3, <1>6 DEF Writing
<1>8. \A v \in Writing(id) : v # w => v \in Writing(id)'
  BY <1>3 DEF Writing
<1>9. PriceAt(id)
  BY DEF PriceInv
<1>10. ASSUME NEW v \in Worker, pc'[v] \in {"read", "write"}
       PROVE  \/ trade <= since'[v] /\ since'[v] \in Nat
              \/ pc[v] \in {"read", "write"} /\ since'[v] = since[v]
  <2>1. CASE v = w
    BY <1>2, <1>4, <1>10, <2>1
  <2>2. CASE v # w
    BY <1>3, <1>10, <2>2
  <2> QED
    BY <2>1, <2>2
<1> QED
  BY <1>1, <1>5, <1>6, <1>7, <1>8, <1>9, <1>10, Frame

\* The steps that do not concern the prices; the context may end.
LEMMA QuietStep ==
    ASSUME FetchTypes, PriceInv, ~IsAPI,
           UNCHANGED <<workers, responseCh, data>>, done' \in {TRUE, done}, NEW id \in ID
    PROVE  PriceAt(id)'
<1>1. UNCHANGED <<pc, job, resp, handler, since, responseCh, data>>
  BY DEF workers, connections
<1>2. About(id)' = About(id) /\ Writing(id)' = Writing(id)
  BY <1>1 DEF About, Writing
<1>3. PriceAt(id)
  BY DEF PriceInv
<1>4. ~done' => ~done
  OBVIOUS
<1>5. /\ data'[id] = data[id] /\ job' = job
      /\ \A i \in About(id) : responseCh'[i] = responseCh[i]
      /\ \A w \in Writing(id) : resp'[w] = resp[w]
      /\ \A w \in Worker : /\ pc'[w] = pc[w] /\ since'[w] = since[w]
                           /\ handler'[w][id] = handler[w][id]
  BY <1>1
<1> QED
  BY <1>2, <1>3, <1>4, <1>5, Frame

\* The price invariant is inductive.
LEMMA PriceStep ==
    ASSUME FetchTypes, PriceInv, [Next]_vars
    PROVE  PriceInv'
<1>1. IsAPI' = IsAPI
  BY TimeGoesOn DEF FetchTypes, IsAPI
<1> SUFFICES ASSUME ~IsAPI, NEW id \in ID PROVE PriceAt(id)'
  BY <1>1 DEF PriceInv
<1>2. ASSUME NEW w \in Worker, WorkerStep(w) \/ ReadFails(w)
      PROVE  PriceAt(id)'
  <2>1. ~StartTask(w) /\ ~FetchAnswers(w)
    BY DEF StartTask, FetchAnswers, FetchTypes, QueryTypes, WorkerTypes
  <2>2. CASE Write(w)
    BY <2>2, WriteStep
  <2>3. CASE WriteDone(w) \/ ConnectionLoop(w) \/ Dial(w) \/ SendFailure(w) \/ ReadDone(w)
             \/ ReadFails(w)
    BY <2>3, ConnectionStep
  <2> QED
    BY <1>2, <2>1, <2>2, <2>3 DEF WorkerStep
<1>3. ASSUME NEW w \in Worker, NEW other \in ID, NEW k \in 1..trade,
             TickerMessage(w, other, k) \/ HeartbeatMessage(w, other, k)
      PROVE  PriceAt(id)'
  <2>1. CASE other = id
    BY <1>3, <2>1, OwnMessage
  <2>2. CASE other # id
    BY <1>3, <2>2, OtherMessage
  <2> QED
    BY <2>1, <2>2
<1>4. CASE Receive
  BY <1>4, ReceiveStep
<1>5. CASE Again
  BY <1>5, AgainStep
<1>6. CASE QueryTick \/ QueryDone \/ QueryReturns \/ FetchReturns \/ ReceiveDone \/ Cancel
           \/ Trade \/ UNCHANGED vars
  <2>1. UNCHANGED <<workers, responseCh, data>> /\ done' \in {TRUE, done}
    BY <1>6 DEF QueryTick, QueryDone, QueryReturns, FetchReturns, ReceiveDone, Cancel, Trade,
                QueryUnchanged, vars
  <2> QED
    BY <2>1, QuietStep
<1> QED
  BY <1>2, <1>3, <1>4, <1>5, <1>6 DEF Next

\* It holds in every state.
THEOREM PriceInvariant == Spec => []PriceInv
<1>1. Init => PriceInv
  <2> SUFFICES ASSUME Init, NEW id \in ID PROVE PriceAt(id)
    BY DEF PriceInv
  <2>1. /\ responseCh = <<>> /\ data[id] = None /\ pc = FirstPC /\ handler = NothingSeen
        /\ config \in Configs
    BY DEF Init
  <2>2. \A w \in Worker : pc[w] \in {"idle", "loop"}
    BY <2>1, TypesBegin
  <2>3. About(id) = {} /\ Writing(id) = {}
    BY <2>1, <2>2 DEF About, Writing
  <2>4. \A w \in Worker : handler[w][id].tradeID = 0
    BY <2>1 DEF NothingSeen
  <2>5. InOrder(id) /\ Confirmed(id)
    BY <2>1, <2>3 DEF InOrder, Confirmed
  <2>6. \A w \in Worker : Ahead(w, id) /\ Kept(w, id)
    BY <2>2, <2>4 DEF Ahead, Kept
  <2> QED
    BY <2>5, <2>6 DEF PriceAt
<1>2. FetchTypes /\ PriceInv /\ [Next]_vars => PriceInv'
  BY PriceStep
<1> QED
  BY <1>1, <1>2, TypesInvariant, PTL DEF Spec

\* A price whose timestamp a heartbeat has moved is still the price of the trade
\* that the heartbeat named: the message with the price was in the same connection's
\* handler, and nothing between the handler and the data loses or reorders it while
\* the context lasts (parseHeartbeatResponseMessage, Copy, updateData).
THEOREM UnchangedIsAlwaysTrue == Spec => []UnchangedIsTrue
<1> DEFINE Same == IsAPI => \A id \in ID : data[id] # None => data[id].trade = data[id].said
<1>1. Init => Same
  BY DEF Init
<1>2. FetchTypes /\ Same /\ [Next]_vars => Same'
  <2> SUFFICES ASSUME FetchTypes, Same, [Next]_vars, IsAPI,
                      NEW id \in ID, data'[id] # None
               PROVE  data'[id].trade = data'[id].said
    BY TimeGoesOn DEF FetchTypes, IsAPI
  <2>1. CASE ~Receive
    BY <2>1, OnlyReceive
  <2>2. CASE Receive
    <3>1. PICK r, current, new : r = responseCh[1] /\ current = data[id] /\ new = data'[id]
      OBVIOUS
    <3>2. /\ r \in Possible /\ r \in Response /\ current \in Price \cup {None}
          /\ new = IF id \in r.ids THEN updateData(current, r) ELSE current
      BY <2>2, <3>1, ReceiveIs
    <3>3. r.code # "unchanged"
      BY <3>2 DEF Possible
    <3>4. current # None => current.trade = current.said
      BY <3>1
    <3>5. CASE id \in r.ids
      <4>1. new \in {current, Stored(r)}
        BY <3>2, <3>3, <3>5 DEF updateData
      <4>2. Stored(r).trade = Stored(r).said
        BY <3>3 DEF Stored
      <4> QED
        BY <3>1, <3>4, <4>1, <4>2
    <3> QED
      BY <3>1, <3>2, <3>4, <3>5
  <2> QED
    BY <2>1, <2>2
<1>3. Same /\ PriceInv => UnchangedIsTrue
  BY DEF PriceInv, PriceAt, Confirmed, UnchangedIsTrue
<1> HIDE DEF Same
<1> QED
  BY <1>1, <1>2, <1>3, TypesInvariant, PriceInvariant, PTL DEF Spec

\* Responses are applied in the order of their timestamps, and a websocket never
\* puts back the price of an earlier trade: not through messages that the exchange
\* reorders, reconnects, nor new fetch contexts (checkSequenceNumber, updateData).
THEOREM PricesGoForward == Spec => PricesNeverGoBack
<1>1. FetchTypes /\ PriceInv /\ [Next]_vars =>
        [\A id \in ID : data[id] # None =>
            /\ data'[id].time >= data[id].time
            /\ ~IsAPI => data'[id].trade >= data[id].trade]_vars
  <2> SUFFICES ASSUME FetchTypes, PriceInv, [Next]_vars, NEW id \in ID, data[id] # None
               PROVE  /\ data'[id].time >= data[id].time
                      /\ ~IsAPI => data'[id].trade >= data[id].trade
    OBVIOUS
  <2>1. data[id].time \in Nat /\ data[id].trade \in Nat
    BY Numbers
  <2>2. CASE ~Receive
    BY <2>1, <2>2, OnlyReceive
  <2>3. CASE Receive
    <3>1. PICK r, current, new : r = responseCh[1] /\ current = data[id] /\ new = data'[id]
      OBVIOUS
    <3>2. /\ r \in Response /\ current \in Price \cup {None} /\ 1 \in DOMAIN responseCh
          /\ new = IF id \in r.ids THEN updateData(current, r) ELSE current
      BY <2>3, <3>1, ReceiveIs
    <3>3. new.time >= current.time
      <4>1. CASE id \in r.ids
        <5>1. new = updateData(current, r) /\ current # None
          BY <3>1, <3>2, <4>1
        <5> QED
          BY <3>2, <5>1, UpdateIs
      <4>2. CASE id \notin r.ids
        BY <2>1, <3>1, <3>2, <4>2
      <4> QED
        BY <4>1, <4>2
    <3>4. ASSUME ~IsAPI PROVE new.trade >= current.trade
      <4>1. CASE id \in r.ids
        <5>1. 1 \in About(id)
          BY <3>1, <3>2, <4>1 DEF About
        <5>2. new.trade = r.trade
          BY <2>3, <3>1, <3>4, <5>1, Applied
        <5>3. current.trade <= r.trade
          BY <3>1, <3>4, <5>1 DEF PriceInv, PriceAt, InOrder
        <5>4. r.trade \in Nat
          BY <3>2 DEF Response
        <5> QED
          BY <2>1, <3>1, <5>2, <5>3, <5>4
      <4>2. CASE id \notin r.ids
        BY <2>1, <3>1, <3>2, <4>2
      <4> QED
        BY <4>1, <4>2
    <3> QED
      BY <3>1, <3>3, <3>4
  <2> QED
    BY <2>2, <2>3
<1> QED
  BY <1>1, TypesInvariant, PriceInvariant, PTL DEF Spec, PricesNeverGoBack
=============================================================================

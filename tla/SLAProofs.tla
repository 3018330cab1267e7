----------------------------- MODULE SLAProofs -----------------------------
(***************************************************************************)
(* Proofs about x/sla: the ring of a price feed holds the statuses of its  *)
(* last blocks, for every window; feeds are always found again and never   *)
(* outlive their terms; and the module implements UptimeHistory.           *)
(***************************************************************************)
EXTENDS SLA, FiniteSetTheorems, TLAPS

-----------------------------------------------------------------------------
(* Induction *)

\* A set of naturals that is not empty has a least element: the form in which
\* the proofs do induction, on the least counterexample.
LEMMA LeastNatural ==
    ASSUME NEW T, T \subseteq Nat, T # {}
    PROVE  \E n \in T : \A m \in T : n <= m
<1>1. PICK n \in T : \A m \in T : ~ (<<m, n>> \in OpToRel(<, Nat))
  BY NatLessThanWellFounded, WFMin, Zenon
<1>2. \A m \in T : ~(m < n)
  BY <1>1 DEF OpToRel
<1> QED
  BY <1>2

\* Induction up to N: a set that has 0, and i + 1 with every i below N, has all.
LEMMA UpTo ==
    ASSUME NEW N \in Nat, NEW T, 0 \in T, \A i \in 0..(N - 1) : i \in T => i + 1 \in T
    PROVE  \A i \in 0..N : i \in T
<1> DEFINE Out == {i \in 0..N : i \notin T}
<1> SUFFICES ASSUME Out # {} PROVE FALSE
  OBVIOUS
<1>1. Out \subseteq Nat
  OBVIOUS
<1>2. PICK n \in Out : \A m \in Out : n <= m
  BY <1>1, LeastNatural, Zenon
<1>3. n - 1 \in 0..(N - 1) /\ n - 1 \notin Out
  BY <1>2
<1> QED
  BY <1>2, <1>3

\* The runs of N steps from x in S, step i being the function F[i].
Runs(N, S, x, F) ==
    {g \in [0..N -> S] : g[0] = x /\ \A i \in 1..N : g[i] = F[i][g[i - 1]]}

\* There is one, however many steps.
LEMMA Iterate ==
    ASSUME NEW N \in Nat, NEW S, NEW x \in S, NEW F \in [1..N -> [S -> S]]
    PROVE  \E g : g \in Runs(N, S, x, F)
<1> DEFINE Good(n, g) == /\ g \in [0..n -> S]
                         /\ g[0] = x /\ \A i \in 1..n : g[i] = F[i][g[i - 1]]
           T == {n \in 0..N : \E g : Good(n, g)}
<1>1. 0 \in T
  <2>1. Good(0, [i \in 0..0 |-> x])
    OBVIOUS
  <2> HIDE DEF Good
  <2> QED
    BY <2>1
<1>2. ASSUME NEW n \in 0..(N - 1), n \in T
      PROVE  n + 1 \in T
  <2>1. PICK g : Good(n, g)
    <3> HIDE DEF Good
    <3> QED
      BY <1>2
  <2> DEFINE h == [i \in 0..(n + 1) |-> IF i = n + 1 THEN F[n + 1][g[n]] ELSE g[i]]
  <2>2. g[n] \in S /\ F[n + 1] \in [S -> S]
    BY <2>1
  <2>3. h \in [0..(n + 1) -> S]
    BY <2>1, <2>2
  <2>4. h[0] = x /\ h[n + 1] = F[n + 1][h[n]]
    BY <2>1
  <2>5. ASSUME NEW i \in 1..n
        PROVE  h[i] = F[i][h[i - 1]]
    <3>1. h[i] = g[i] /\ h[i - 1] = g[i - 1]
      OBVIOUS
    <3> QED
      BY <2>1, <3>1
  <2>6. Good(n + 1, h)
    <3> HIDE DEF h
    <3>1. \A i \in 1..(n + 1) : i = n + 1 \/ i \in 1..n
      OBVIOUS
    <3>2. \A i \in 1..(n + 1) : h[i] = F[i][h[i - 1]]
      <4> SUFFICES ASSUME NEW i \in 1..(n + 1) PROVE h[i] = F[i][h[i - 1]]
        OBVIOUS
      <4>1. CASE i = n + 1
        BY <2>4, <4>1
      <4> QED
        BY <2>5, <3>1, <4>1
    <3> QED
      BY <2>3, <2>4, <3>2
  <2> HIDE DEF Good
  <2> QED
    BY <2>6
<1>3. N \in T
  <2>1. \A n \in 0..(N - 1) : n \in T => n + 1 \in T
    BY <1>2
  <2> HIDE DEF T
  <2>2. \A i \in 0..N : i \in T
    BY <1>1, <2>1, UpTo, Zenon
  <2> QED
    BY <2>2
<1>4. PICK g : Good(N, g)
  <2> HIDE DEF Good
  <2> QED
    BY <1>3
<1> QED
  BY <1>4 DEF Runs

-----------------------------------------------------------------------------
(* The ring *)

\* The quotient that an index wraps with, for the numbers it meets.
LEMMA Wraps ==
    ASSUME NEW W \in Nat \ {0}, NEW x \in 0..(2 * W - 1)
    PROVE  x % W = IF x < W THEN x ELSE x - W
<1>1. CASE x < W
  BY <1>1
<1>2. CASE x >= W
  BY <1>2
<1> QED
  BY <1>1, <1>2

\* An update leaves a feed of the window with a feed of the window: the index
\* wraps, and no bit is set outside of it.
LEMMA UpdateKeepsWindow ==
    ASSUME NEW W \in Nat \ {0}, NEW feed \in FeedOf(W), NEW status \in Status
    PROVE  SetUpdate(feed, status) \in FeedOf(W)
<1>1. (feed.index + 1) % W \in 0..(W - 1)
  BY Wraps DEF FeedOf
<1> QED
  BY <1>1 DEF FeedOf, SetUpdate, SetTo

\* The bit of the i-th oldest of the last W blocks.
Bit(feed, i) == (feed.index + i - 1) % feed.maximumViableWindow

\* After an update the i-th oldest block is what the next one was, and the bit
\* that was written is that of the newest block.
LEMMA BitsMove ==
    ASSUME NEW W \in Nat \ {0}, NEW feed \in FeedOf(W), NEW status \in Status,
           NEW i \in 1..W
    PROVE  /\ Bit(SetUpdate(feed, status), i) =
                  IF i = W THEN feed.index ELSE Bit(feed, i + 1)
           /\ i < W => Bit(feed, i + 1) # feed.index
<1> DEFINE x == feed.index
<1>1. /\ x \in 0..(W - 1) /\ feed.maximumViableWindow = W
      /\ SetUpdate(feed, status).index = (x + 1) % W
      /\ SetUpdate(feed, status).maximumViableWindow = W
  BY DEF FeedOf, SetUpdate
<1>2. (x + 1) % W = IF x + 1 < W THEN x + 1 ELSE 0
  BY <1>1, Wraps
<1> DEFINE y == IF x + 1 < W THEN x + 1 ELSE 0
<1> DEFINE u == y + i - 1
           v == x + i
<1>3. u % W = IF u < W THEN u ELSE u - W
  <2>1. u \in 0..(2 * W - 1)
    BY <1>1
  <2> HIDE DEF u
  <2> QED
    BY <2>1, Wraps
<1>4. i < W => v % W = IF v < W THEN v ELSE v - W
  <2>1. i < W => v \in 0..(2 * W - 1)
    BY <1>1
  <2> HIDE DEF v
  <2> QED
    BY <2>1, Wraps
<1>5. Bit(SetUpdate(feed, status), i) = (y + i - 1) % W
  BY <1>1, <1>2 DEF Bit
<1>6. Bit(feed, i + 1) = (x + i) % W
  <2>1. x + (i + 1) - 1 = x + i
    BY <1>1
  <2> QED
    BY <1>1, <2>1 DEF Bit
<1> QED
  BY <1>1, <1>3, <1>4, <1>5, <1>6

\* For every window: when a status is recorded, what the ring says of the last W
\* blocks moves by exactly that status (SetUpdate of price_feed.go against the
\* history that UptimeHistory promises).
THEOREM RingKeepsHistory ==
    ASSUME NEW W \in Nat \ {0}, NEW feed \in FeedOf(W), NEW status \in Status
    PROVE  Statuses(SetUpdate(feed, status)) = Promise!Moved(Statuses(feed), status)
<1> DEFINE next == SetUpdate(feed, status)
           h == Statuses(feed)
<1>1. /\ feed.maximumViableWindow = W /\ next.maximumViableWindow = W
      /\ feed.index \in 0..(W - 1)
      /\ next.updateMap = SetTo(feed.updateMap, feed.index, status = "VoteWithPrice")
      /\ next.inclusionMap = SetTo(feed.inclusionMap, feed.index, status # "NoVote")
  BY DEF FeedOf, SetUpdate
<1> DEFINE Said(f, i) == CASE Bit(f, i) \in f.updateMap -> "VoteWithPrice"
                           [] Bit(f, i) \in f.inclusionMap \ f.updateMap -> "VoteWithoutPrice"
                           [] OTHER -> "NoVote"
<1>2. h = [i \in 1..W |-> Said(feed, i)] /\ Statuses(next) = [i \in 1..W |-> Said(next, i)]
  BY <1>1 DEF Statuses, Bit
<1>3. Len(h) = W
  BY <1>2
<1>4. ASSUME NEW i \in 1..W
      PROVE  Said(next, i) = IF i = W THEN status ELSE Said(feed, i + 1)
  <2>1. CASE i = W
    <3>1. Bit(next, i) = feed.index
      BY <2>1, BitsMove
    <3> QED
      BY <1>1, <2>1, <3>1 DEF SetTo, Status
  <2>2. CASE i < W
    <3>1. Bit(next, i) = Bit(feed, i + 1) /\ Bit(feed, i + 1) # feed.index
      BY <2>2, BitsMove
    <3> QED
      BY <1>1, <2>2, <3>1 DEF SetTo
  <2> QED
    BY <2>1, <2>2
<1>5. ASSUME NEW i \in 1..W
      PROVE  Said(next, i) = IF i = Len(h) THEN status ELSE h[i + 1]
  BY <1>2, <1>3, <1>4
<1> HIDE DEF Said, h, next
<1> QED
  BY <1>2, <1>3, <1>5 DEF Promise!Moved, h, next

-----------------------------------------------------------------------------
(* Feeds *)

\* The inductive invariant: what is tracked, in a state of the right shape.
Tracked ==
    /\ slas \in [SLAID -> Terms \cup {NoSLA}]
    /\ FeedsAreTracked

\* UpdatePriceFeeds drops every feed of a pair that is gone, and makes none of
\* an SLA that is not there.
LEMMA UpdateTracks ==
    ASSUME FeedsAreTracked, NEW updates, NEW departed,
           UpdatePriceFeeds(updates, departed), UNCHANGED slas
    PROVE  FeedsAreTracked'
<1> SUFFICES ASSUME NEW k \in Key, feeds'[k] # NoFeed
             PROVE  slas[k[1]] # NoSLA /\ k[2] \in pairs
  BY DEF FeedsAreTracked, UpdatePriceFeeds
<1>1. CASE slas[k[1]] = NoSLA
  <2>1. feeds'[k] = feeds[k]
    BY <1>1 DEF UpdatePriceFeeds
  <2> QED
    BY <1>1, <2>1 DEF FeedsAreTracked
<1>2. CASE slas[k[1]] # NoSLA /\ k[2] \notin pairs
  <2>1. feeds'[k] = IF k[2] \in currencyPairs THEN NoFeed ELSE feeds[k]
    BY <1>2 DEF UpdatePriceFeeds
  <2> QED
    BY <1>2, <2>1 DEF FeedsAreTracked
<1> QED
  BY <1>1, <1>2

\* Tracked is inductive: messages, blocks and restarts leave no feed behind.
LEMMA StepTracks ==
    ASSUME Tracked, [Next]_vars
    PROVE  Tracked'
<1>1. CASE PreBlock
  <2>1. CASE VoteExtensionsEnabled(height)
    <3>1. PICK updates, departed : UpdatePriceFeeds(updates, departed)
      BY <1>1, <2>1 DEF PreBlock
    <3> QED
      BY <1>1, <3>1, UpdateTracks DEF PreBlock, Tracked
  <2>2. CASE ~VoteExtensionsEnabled(height)
    BY <1>1, <2>2 DEF PreBlock, Tracked, FeedsAreTracked
  <2> QED
    BY <2>1, <2>2
<1>2. CASE BeginBlock
  <2>1. \A k \in Key : feeds'[k] \in {feeds[k], NoFeed}
    BY <1>2 DEF BeginBlock, block
  <2> QED
    BY <1>2, <2>1 DEF BeginBlock, Tracked, FeedsAreTracked
<1>3. ASSUME NEW id \in SLAID, NEW sla \in Terms, AddSLAs(id, sla)
      PROVE  Tracked'
  BY <1>3, SLAAssumption DEF AddSLAs, Tracked, FeedsAreTracked, Key
<1>4. ASSUME NEW id \in SLAID, RemoveSLAs(id)
      PROVE  Tracked'
  BY <1>4 DEF RemoveSLAs, Tracked, FeedsAreTracked, Key
<1>5. ASSUME NEW on \in BOOLEAN, Params(on)
      PROVE  Tracked'
  BY <1>5 DEF Params, Tracked, FeedsAreTracked
<1>6. ASSUME NEW S \in SUBSET CurrencyPair, SetPairs(S)
      PROVE  Tracked'
  BY <1>6 DEF SetPairs, store, Tracked, FeedsAreTracked
<1>7. ASSUME NEW S \in ValidatorSets, EndBlock(S)
      PROVE  Tracked'
  BY <1>7 DEF EndBlock, store, Tracked, FeedsAreTracked
<1>8. CASE Restart
  BY <1>8 DEF Restart, Tracked, FeedsAreTracked
<1>9. CASE UNCHANGED vars
  BY <1>9 DEF vars, store, Tracked, FeedsAreTracked
<1> QED
  BY <1>1, <1>2, <1>3, <1>4, <1>5, <1>6, <1>7, <1>8, <1>9 DEF Next

\* For all SLAs, pairs, validators and sequences of blocks: no feed is left that
\* UpdatePriceFeeds and RemovePriceFeedsBySLA could not find any more, so that a
\* validator is never judged by a window of an earlier life of the pair or SLA.
THEOREM FeedsAreAlwaysTracked == Spec => []FeedsAreTracked
<1>1. Init => Tracked
  BY DEF Init, Tracked, FeedsAreTracked
<1>2. Tracked /\ [Next]_vars => Tracked'
  BY StepTracks
<1>3. Tracked => FeedsAreTracked
  BY DEF Tracked
<1> QED
  BY <1>1, <1>2, <1>3, PTL DEF Spec

-----------------------------------------------------------------------------
(* Types *)

\* The terms of an SLA.
LEMMA TermsType ==
    ASSUME NEW t \in Terms
    PROVE  /\ t.maximumViableWindow \in Nat \ {0}
           /\ t.minimumBlockUpdates \in Nat \ {0}
           /\ t.expectedUptime \in Nat
BY SLAAssumption DEF ValidSLA

\* A new feed is a feed of its window, and says nothing.
LEMMA NewFeed ==
    ASSUME NEW W \in Nat \ {0}
    PROVE  /\ NewPriceFeed(W) \in FeedOf(W)
           /\ Statuses(NewPriceFeed(W)) = Promise!Blank(W)
BY DEF NewPriceFeed, FeedOf, Statuses, Promise!Blank

\* An update of a feed, or of none, for one of the SLA's statuses.
LEMMA UpdateType ==
    ASSUME NEW sla \in Terms, NEW status \in Status
    PROVE  /\ UpdatePriceFeed(NoFeed, sla, status) \in FeedOf(sla.maximumViableWindow)
           /\ \A t \in Terms : \A feed \in FeedOf(t.maximumViableWindow) :
                 /\ feed # NoFeed
                 /\ UpdatePriceFeed(feed, sla, status) \in FeedOf(t.maximumViableWindow)
<1>1. UpdatePriceFeed(NoFeed, sla, status) \in FeedOf(sla.maximumViableWindow)
  BY TermsType, NewFeed, UpdateKeepsWindow DEF UpdatePriceFeed
<1>2. ASSUME NEW t \in Terms, NEW feed \in FeedOf(t.maximumViableWindow)
      PROVE  /\ feed # NoFeed
             /\ UpdatePriceFeed(feed, sla, status) \in FeedOf(t.maximumViableWindow)
  BY SLAAssumption, TermsType, UpdateKeepsWindow DEF UpdatePriceFeed
<1> QED
  BY <1>1, <1>2

\* The feed without a validator: what one update keeps, all of them keep.
LEMMA NobodyType ==
    ASSUME NEW S, NEW feed \in S, NEW sla, NEW statuses \in Seq(Status),
           \A x \in S, status \in Status : UpdatePriceFeed(x, sla, status) \in S
    PROVE  UpdateNobody(feed, sla, statuses) \in S
<1> DEFINE N == Len(statuses)
           f[n \in 0..N] == IF n = 0 THEN feed ELSE UpdatePriceFeed(f[n - 1], sla, statuses[n])
           F == [i \in 1..N |-> [x \in S |-> UpdatePriceFeed(x, sla, statuses[i])]]
<1>1. UpdateNobody(feed, sla, statuses) = f[N]
  BY Zenon DEF UpdateNobody
<1>2. N \in Nat /\ \A i \in 1..N : statuses[i] \in Status
  OBVIOUS
<1> HIDE DEF N
<1>3. PICK g : g \in Runs(N, S, feed, F)
  <2>1. F \in [1..N -> [S -> S]]
    BY <1>2
  <2> HIDE DEF F
  <2> QED
    BY <1>2, <2>1, Iterate
<1>4. g = [n \in 0..N |-> IF n = 0 THEN feed ELSE UpdatePriceFeed(g[n - 1], sla, statuses[n])]
  <2>1. ASSUME NEW i \in 0..N
        PROVE  g[i] = IF i = 0 THEN feed ELSE UpdatePriceFeed(g[i - 1], sla, statuses[i])
    <3>1. CASE i # 0
      <4>1. i \in 1..N /\ g[i - 1] \in S
        BY <1>2, <1>3, <3>1 DEF Runs
      <4> QED
        BY <1>3, <3>1, <4>1 DEF Runs
    <3> QED
      BY <1>3, <3>1 DEF Runs
  <2> QED
    BY <1>3, <2>1 DEF Runs
<1>5. f = [n \in 0..N |-> IF n = 0 THEN feed ELSE UpdatePriceFeed(f[n - 1], sla, statuses[n])]
  BY <1>4, Zenon
<1> HIDE DEF f
<1> DEFINE T == {i \in 0..N : f[i] \in S}
<1>6. 0 \in T
  BY <1>2, <1>5
<1>7. ASSUME NEW i \in 0..(N - 1), i \in T
      PROVE  i + 1 \in T
  <2>1. i + 1 \in 0..N /\ i + 1 # 0 /\ (i + 1) - 1 = i /\ i + 1 \in 1..N
    BY <1>2
  <2>2. f[i + 1] = UpdatePriceFeed(f[i], sla, statuses[i + 1])
    BY <1>5, <2>1
  <2> QED
    BY <1>2, <1>7, <2>1, <2>2
<1>8. \A i \in 0..N : i \in T
  <2> HIDE DEF T
  <2> QED
    BY <1>2, <1>6, <1>7, UpTo, Zenon
<1> QED
  BY <1>1, <1>2, <1>8

\* The statuses of a vote, and those that GetUpdates computes.
LEMMA StatusesType ==
    ASSUME NEW vote
    PROVE  /\ getStatuses(vote) \in [CurrencyPair -> Status \cup {NotTracked}]
           /\ \A cp \in CurrencyPair : getStatuses(vote)[cp] # NotTracked <=> cp \in pairs
<1> DEFINE said(cp) == CASE cp \notin pairs -> NotTracked
                         [] cp \in pairs /\ vote # Absent /\ cp \in vote -> "VoteWithPrice"
                         [] OTHER -> "VoteWithoutPrice"
<1>1. getStatuses(vote) = [cp \in CurrencyPair |-> said(cp)]
  BY DEF getStatuses
<1>2. ASSUME NEW cp
      PROVE  /\ said(cp) \in Status \cup {NotTracked}
             /\ said(cp) # NotTracked <=> cp \in pairs
  <2>1. CASE cp \notin pairs
    BY <2>1
  <2>2. CASE cp \in pairs
    <3>1. said(cp) \in Status
      BY <2>2 DEF Status
    <3> QED
      BY <2>2, <3>1, SLAAssumption
  <2> QED
    BY <2>1, <2>2
<1> HIDE DEF said
<1> QED
  BY <1>1, <1>2

\* A status is reported of a bonded validator and of pairs of x/oracle only.
LEMMA UpdatesType ==
    ASSUME NEW c
    PROVE  /\ GetUpdates(c) \in [Validator -> [CurrencyPair -> Status \cup {NotTracked}]]
           /\ \A v \in Validator, cp \in CurrencyPair :
                 GetUpdates(c)[v][cp] # NotTracked => cp \in pairs
<1>1. ASSUME NEW v \in Validator
      PROVE  /\ GetUpdates(c)[v] \in [CurrencyPair -> Status \cup {NotTracked}]
             /\ \A cp \in CurrencyPair : GetUpdates(c)[v][cp] # NotTracked => cp \in pairs
  BY StatusesType DEF GetUpdates, Status
<1>2. GetUpdates(c) = [v \in Validator |-> GetUpdates(c)[v]]
  BY DEF GetUpdates
<1> QED
  BY <1>1, <1>2

\* What GetUpdates computes is what the validators did, with every absence taken
\* for a vote without a price.
LEMMA ReportsType ==
    ASSUME NEW c
    PROVE  /\ Reports(c) \in [Validator -> [CurrencyPair -> Status \cup {Absent, NotTracked}]]
           /\ \A v \in Validator, cp \in CurrencyPair :
                 GetUpdates(c)[v][cp] = Promise!Counted(Reports(c)[v][cp])
<1> DEFINE did(v, cp) ==
             CASE v \notin bonded \/ cp \notin pairs -> NotTracked
               [] v \in bonded /\ cp \in pairs /\ v \notin DOMAIN c -> "NoVote"
               [] v \in bonded /\ cp \in pairs /\ v \in DOMAIN c ->
                      IF c[v] = Absent THEN Absent
                      ELSE IF cp \in c[v] THEN "VoteWithPrice" ELSE "VoteWithoutPrice"
<1>1. Reports(c) = [v \in Validator |-> [cp \in CurrencyPair |-> did(v, cp)]]
  BY DEF Reports
<1>2. ASSUME NEW v \in Validator, NEW cp \in CurrencyPair
      PROVE  did(v, cp) \in Status \cup {Absent, NotTracked}
  BY DEF Status
<1>3. ASSUME NEW v \in Validator, NEW cp \in CurrencyPair
      PROVE  GetUpdates(c)[v][cp] = Promise!Counted(did(v, cp))
  <2>1. GetUpdates(c)[v] =
          IF v \notin bonded THEN [q \in CurrencyPair |-> NotTracked]
          ELSE IF v \in DOMAIN c THEN getStatuses(c[v])
          ELSE [q \in CurrencyPair |-> IF q \in pairs THEN "NoVote" ELSE NotTracked]
    BY DEF GetUpdates
  <2>2. CASE v \notin bonded \/ v \notin DOMAIN c
    BY <2>1, <2>2, SLAAssumption DEF Promise!Counted, Status
  <2>3. CASE v \in bonded /\ v \in DOMAIN c
    <3>1. getStatuses(c[v])[cp] =
            CASE cp \notin pairs -> NotTracked
              [] cp \in pairs /\ c[v] # Absent /\ cp \in c[v] -> "VoteWithPrice"
              [] OTHER -> "VoteWithoutPrice"
      BY DEF getStatuses
    <3> QED
      BY <2>1, <2>3, <3>1, SLAAssumption DEF Promise!Counted, Status
  <2> QED
    BY <2>2, <2>3
<1> HIDE DEF did
<1> QED
  BY <1>1, <1>2, <1>3

\* The statuses of the voters that are gone, for a pair that x/oracle has.
LEMMA DepartedType ==
    ASSUME NEW S, IsFiniteSet(S), NEW order \in Orders(S), NEW c, NEW cp \in CurrencyPair,
           cp \in pairs
    PROVE  \A departed : departed = [i \in DOMAIN order |-> getStatuses(c[order[i]])] =>
               [i \in DOMAIN departed |-> departed[i][cp]] \in Seq(Status)
<1> SUFFICES ASSUME NEW departed,
                    departed = [i \in DOMAIN order |-> getStatuses(c[order[i]])]
             PROVE  [i \in DOMAIN departed |-> departed[i][cp]] \in Seq(Status)
  OBVIOUS
<1> DEFINE n == Cardinality(S)
           q == [i \in DOMAIN departed |-> departed[i][cp]]
<1>1. DOMAIN order = 1..n /\ n \in Nat
  BY FS_CardinalityType DEF Orders
<1>2. q \in [1..n -> Status]
  BY <1>1, StatusesType
<1> HIDE DEF q, n
<1>3. q \in Seq(Status)
  BY <1>1, <1>2
<1> QED
  BY <1>3 DEF q

\* UpdatePriceFeeds on one feed: it stays, goes, or is updated in a way that keeps
\* any set that single updates keep.
LEMMA UpdateFeeds ==
    ASSUME NEW c, NEW order \in [SLAID -> Orders(signers \ bonded)],
           IsFiniteSet(signers \ bonded),
           UpdatePriceFeeds(GetUpdates(c),
               [id \in SLAID |-> [i \in DOMAIN order[id] |-> getStatuses(c[order[id][i]])]]),
           NEW k \in Key,
           NEW S, feeds[k] \in S, NoFeed \in S,
           slas[k[1]] # NoSLA =>
               \A x \in S, status \in Status : UpdatePriceFeed(x, slas[k[1]], status) \in S
    PROVE  feeds'[k] \in S
<1> DEFINE sla == slas[k[1]]
           id == k[1]
           cp == k[2]
           v == k[3]
           departed == [i \in DOMAIN order[id] |-> getStatuses(c[order[id][i]])]
           gone == [i \in DOMAIN departed |-> departed[i][cp]]
           updates == GetUpdates(c)
<1>1. id \in SLAID /\ cp \in CurrencyPair /\ v \in Address
  BY DEF Key
<1>2. feeds'[k] =
        CASE sla = NoSLA -> feeds[k]
          [] sla # NoSLA /\ cp \notin pairs ->
                 IF cp \in currencyPairs THEN NoFeed ELSE feeds[k]
          [] sla # NoSLA /\ cp \in pairs /\ v = Nobody -> UpdateNobody(feeds[k], sla, gone)
          [] sla # NoSLA /\ cp \in pairs /\ v # Nobody /\ updates[v][cp] # NotTracked ->
                 UpdatePriceFeed(feeds[k], sla, updates[v][cp])
          [] OTHER -> feeds[k]
  BY <1>1, Zenon DEF UpdatePriceFeeds
<1>3. CASE sla # NoSLA /\ cp \in pairs /\ v = Nobody
  <2>1. gone \in Seq(Status)
    <3>1. order[id] \in Orders(signers \ bonded)
      BY <1>1
    <3> QED
      <4> HIDE DEF id, cp
      <4> QED
        BY <1>1, <1>3, <3>1, DepartedType, SMTT(30)
  <2> HIDE DEF gone, departed
  <2>2. UpdateNobody(feeds[k], sla, gone) \in S
    BY <1>3, <2>1, NobodyType
  <2>3. feeds'[k] = UpdateNobody(feeds[k], sla, gone)
    <3> HIDE DEF updates, sla, cp, v
    <3> QED
      BY <1>2, <1>3
  <2> QED
    BY <2>2, <2>3
<1>4. CASE sla # NoSLA /\ cp \in pairs /\ v # Nobody /\ updates[v][cp] # NotTracked
  <2>1. v \in Validator
    BY <1>1, <1>4 DEF Address
  <2>2. updates[v][cp] \in Status
    BY <1>1, <1>4, <2>1, UpdatesType
  <2>3. feeds'[k] = UpdatePriceFeed(feeds[k], sla, updates[v][cp])
    <3> HIDE DEF updates, sla, cp, v
    <3> QED
      BY <1>2, <1>4
  <2> HIDE DEF updates
  <2> QED
    BY <1>4, <2>2, <2>3
<1> HIDE DEF sla, cp, v, updates
<1> QED
  BY <1>2, <1>3, <1>4

\* A feed of any of the terms.
AnyFeed == UNION {FeedOf(t.maximumViableWindow) : t \in Terms}

\* The inductive invariant: types, feeds that are tracked, and nobody is slashed
\* before BeginBlocker.
SLAInv ==
    /\ TypeOK
    /\ FeedsAreTracked
    /\ phase \in {"preblock", "begin"} => slashed = {}

\* What the types say of one feed.
LEMMA FeedsType ==
    ASSUME TypeOK, NEW k \in Key
    PROVE  /\ feeds[k] \in AnyFeed \cup {NoFeed}
           /\ k[1] \in SLAID /\ k[2] \in CurrencyPair /\ k[3] \in Address
           /\ slas[k[1]] \in Terms \cup {NoSLA}
BY DEF TypeOK, AnyFeed, Key

\* The voters that have left are finitely many.
LEMMA DepartedFinite ==
    ASSUME TypeOK
    PROVE  IsFiniteSet(signers \ bonded)
<1>1. IsFiniteSet(signers)
  BY SLAAssumption DEF TypeOK
<1> QED
  BY <1>1, FS_Subset

\* PreBlock keeps the types.
LEMMA PreBlockTypes ==
    ASSUME SLAInv, PreBlock
    PROVE  TypeOK'
<1>1. CASE VoteExtensionsEnabled(height)
  <2>1. PICK c \in Commits(signers), order \in [SLAID -> Orders(signers \ bonded)] :
          /\ reported' = Reports(c)
          /\ UpdatePriceFeeds(GetUpdates(c),
               [id \in SLAID |-> [i \in DOMAIN order[id] |-> getStatuses(c[order[id][i]])]])
    BY <1>1 DEF PreBlock
  <2>2. ASSUME NEW k \in Key
        PROVE  feeds'[k] \in AnyFeed \cup {NoFeed}
    <3> DEFINE S == AnyFeed \cup {NoFeed}
    <3>1. feeds[k] \in S /\ NoFeed \in S /\ slas[k[1]] \in Terms \cup {NoSLA}
      BY FeedsType DEF SLAInv
    <3>2. slas[k[1]] # NoSLA =>
            \A x \in S, status \in Status : UpdatePriceFeed(x, slas[k[1]], status) \in S
      <4> SUFFICES ASSUME slas[k[1]] # NoSLA, NEW x \in S, NEW status \in Status
                   PROVE  UpdatePriceFeed(x, slas[k[1]], status) \in S
        OBVIOUS
      <4>1. slas[k[1]] \in Terms
        BY <3>1
      <4>2. CASE x = NoFeed
        BY <4>1, <4>2, UpdateType DEF AnyFeed
      <4>3. CASE x # NoFeed
        <5>1. PICK t \in Terms : x \in FeedOf(t.maximumViableWindow)
          BY <4>3 DEF AnyFeed
        <5>2. UpdatePriceFeed(x, slas[k[1]], status) \in FeedOf(t.maximumViableWindow)
          BY <4>1, <5>1, UpdateType
        <5> QED
          BY <5>2 DEF AnyFeed
      <4> QED
        BY <4>2, <4>3
    <3>3. IsFiniteSet(signers \ bonded)
      BY DepartedFinite DEF SLAInv
    <3> HIDE DEF S
    <3>4. feeds'[k] \in S
      BY <2>1, <3>1, <3>2, <3>3, UpdateFeeds
    <3> QED
      BY <3>4 DEF S
  <2>3. DOMAIN feeds' = Key /\ currencyPairs' = pairs
    BY <2>1 DEF UpdatePriceFeeds
  <2>4. reported' \in [Validator -> [CurrencyPair -> Status \cup {Absent, NotTracked}]]
    BY <2>1, ReportsType
  <2>5. \A k \in Key : feeds'[k] # NoFeed =>
            \E t \in Terms : feeds'[k] \in FeedOf(t.maximumViableWindow)
    BY <2>2 DEF AnyFeed
  <2> QED
    BY <2>3, <2>4, <2>5 DEF PreBlock, SLAInv, TypeOK, staking
<1>2. CASE ~VoteExtensionsEnabled(height)
  BY <1>2 DEF PreBlock, SLAInv, TypeOK, staking
<1> QED
  BY <1>1, <1>2

\* Every step keeps the invariant.
LEMMA SLAStep == SLAInv /\ [Next]_vars => SLAInv'
<1> SUFFICES ASSUME SLAInv, [Next]_vars PROVE SLAInv'
  OBVIOUS
<1>t. FeedsAreTracked'
  BY StepTracks DEF Tracked, SLAInv, TypeOK
<1>1. CASE PreBlock
  BY <1>1, <1>t, PreBlockTypes DEF SLAInv, PreBlock
<1>2. CASE BeginBlock
  <2>1. /\ \A k \in Key : feeds'[k] \in {feeds[k], NoFeed}
        /\ DOMAIN feeds' = Key
    BY <1>2 DEF BeginBlock, SLAInv, TypeOK
  <2>2. /\ slashed' \subseteq Key /\ halted' \in {"no", "Qualifies", "Slash"}
        /\ reported' = reported /\ overwritten' = overwritten
        /\ \/ phase' = "txs"
           \/ phase' = "begin" /\ slashed' = slashed
    BY <1>2 DEF BeginBlock, block, SLAInv, TypeOK
  <2>3. UNCHANGED <<height, slas, currencyPairs, enabled, pairs, bonded, incoming, signers>>
    BY <1>2 DEF BeginBlock, staking
  <2>4. phase = "begin"
    BY <1>2 DEF BeginBlock
  <2> QED
    BY <1>t, <2>1, <2>2, <2>3, <2>4 DEF SLAInv, TypeOK
<1>3. ASSUME NEW id \in SLAID, NEW sla \in Terms, AddSLAs(id, sla)
      PROVE  SLAInv'
  BY <1>3, <1>t DEF AddSLAs, SLAInv, TypeOK, staking, block
<1>4. ASSUME NEW id \in SLAID, RemoveSLAs(id)
      PROVE  SLAInv'
  BY <1>4, <1>t DEF RemoveSLAs, SLAInv, TypeOK, staking, block
<1>5. ASSUME NEW on \in BOOLEAN, Params(on)
      PROVE  SLAInv'
  BY <1>5, <1>t DEF Params, SLAInv, TypeOK, staking, block
<1>6. ASSUME NEW S \in SUBSET CurrencyPair, SetPairs(S)
      PROVE  SLAInv'
  BY <1>6, <1>t DEF SetPairs, SLAInv, TypeOK, staking, block, store
<1>7. ASSUME NEW S \in ValidatorSets, EndBlock(S)
      PROVE  SLAInv'
  <2>1. height' \in 1..MaxHeight
    BY <1>7, SLAAssumption DEF EndBlock, SLAInv, TypeOK
  <2> QED
    BY <1>7, <1>t, <2>1 DEF EndBlock, SLAInv, TypeOK, store
<1>8. CASE Restart
  <2>1. currencyPairs' \subseteq CurrencyPair
    BY <1>8 DEF Restart, Key
  <2> QED
    BY <1>8, <1>t, <2>1 DEF Restart, SLAInv, TypeOK, staking, block
<1>9. CASE UNCHANGED vars
  BY <1>9, <1>t DEF vars, SLAInv, TypeOK, staking, block, store
<1> QED
  BY <1>1, <1>2, <1>3, <1>4, <1>5, <1>6, <1>7, <1>8, <1>9 DEF Next

\* It holds of every state.
LEMMA SLAInvariant == Spec => []SLAInv
<1>1. Init => SLAInv
  <2> SUFFICES ASSUME Init PROVE SLAInv
    OBVIOUS
  <2>1. /\ height \in 1..MaxHeight
        /\ reported \in [Validator -> [CurrencyPair -> Status \cup {Absent, NotTracked}]]
    BY SLAAssumption DEF Init
  <2>2. /\ DOMAIN feeds = Key /\ \A k \in Key : feeds[k] = NoFeed
        /\ {bonded, incoming, signers} \subseteq ValidatorSets
    BY DEF Init
  <2>3. slashed = {} /\ halted = "no" /\ overwritten = {} /\ currencyPairs \subseteq CurrencyPair
    BY DEF Init
  <2> QED
    BY <2>1, <2>2, <2>3 DEF Init, SLAInv, TypeOK, FeedsAreTracked
<1> QED
  BY <1>1, SLAStep, PTL DEF Spec

\* The state of x/sla stays well formed: whatever SLAs are added, overwritten or
\* removed, every feed is the ring of one window, its index and bits inside of it.
THEOREM SLATypes == Spec => []TypeOK
<1>1. SLAInv => TypeOK
  BY DEF SLAInv
<1> QED
  BY <1>1, SLAInvariant, PTL

-----------------------------------------------------------------------------
(* BeginBlocker *)

\* The feeds of an SLA that was not given another window have the window of its
\* terms.
WindowInv ==
    /\ SLAInv
    /\ \A k \in Key : feeds[k] # NoFeed /\ k[1] \notin overwritten =>
          slas[k[1]] # NoSLA /\ feeds[k] \in FeedOf(slas[k[1]].maximumViableWindow)

\* Every step keeps the windows.
LEMMA WindowStep == WindowInv /\ [Next]_vars => WindowInv'
<1> SUFFICES ASSUME WindowInv, [Next]_vars PROVE WindowInv'
  OBVIOUS
<1>t. SLAInv /\ SLAInv'
  BY SLAStep DEF WindowInv
<1> DEFINE Kept(k) == feeds[k] # NoFeed /\ k[1] \notin overwritten =>
             slas[k[1]] # NoSLA /\ feeds[k] \in FeedOf(slas[k[1]].maximumViableWindow)
<1>0. \A k \in Key : Kept(k) /\ k[1] \in SLAID
  BY DEF WindowInv, Key
<1>s. ASSUME overwritten' = overwritten,
             \A k \in Key : feeds'[k] \in {feeds[k], NoFeed},
             \A k \in Key : feeds'[k] # NoFeed => slas'[k[1]] = slas[k[1]]
      PROVE  WindowInv'
  BY <1>0, <1>s, <1>t DEF WindowInv
<1>1. CASE PreBlock
  <2>1. CASE VoteExtensionsEnabled(height)
    <3>1. PICK c \in Commits(signers), order \in [SLAID -> Orders(signers \ bonded)] :
            UpdatePriceFeeds(GetUpdates(c),
               [id \in SLAID |-> [i \in DOMAIN order[id] |-> getStatuses(c[order[id][i]])]])
      BY <1>1, <2>1 DEF PreBlock
    <3>2. ASSUME NEW k \in Key, feeds'[k] # NoFeed, k[1] \notin overwritten
          PROVE  slas[k[1]] # NoSLA /\ feeds'[k] \in FeedOf(slas[k[1]].maximumViableWindow)
      <4> DEFINE W == slas[k[1]].maximumViableWindow
                 S == FeedOf(W) \cup {NoFeed}
      <4>1. slas[k[1]] # NoSLA
        BY <1>1, <1>t, <3>2 DEF SLAInv, FeedsAreTracked, PreBlock
      <4>2. slas[k[1]] \in Terms
        BY <1>t, <4>1, FeedsType DEF SLAInv
      <4>3. feeds[k] \in S /\ NoFeed \in S
        BY <1>0, <3>2
      <4>4. ASSUME NEW x \in S, NEW status \in Status
            PROVE  UpdatePriceFeed(x, slas[k[1]], status) \in S
        BY <4>2, UpdateType
      <4>5. IsFiniteSet(signers \ bonded)
        BY <1>t, DepartedFinite DEF SLAInv
      <4> HIDE DEF S
      <4>6. feeds'[k] \in S
        BY <3>1, <4>3, <4>4, <4>5, UpdateFeeds
      <4> QED
        BY <3>2, <4>1, <4>6 DEF S
    <3> QED
      BY <1>0, <1>1, <1>t, <3>2 DEF PreBlock, WindowInv
  <2>2. CASE ~VoteExtensionsEnabled(height)
    BY <1>1, <1>s, <2>2 DEF PreBlock
  <2> QED
    BY <2>1, <2>2
<1>2. CASE BeginBlock
  <2>1. overwritten' = overwritten /\ \A k \in Key : feeds'[k] \in {feeds[k], NoFeed}
    BY <1>2 DEF BeginBlock
  <2> QED
    BY <1>2, <1>s, <2>1 DEF BeginBlock
<1>3. ASSUME NEW id \in SLAID, NEW sla \in Terms, AddSLAs(id, sla)
      PROVE  WindowInv'
  <2>1. ASSUME NEW k \in Key, feeds'[k] # NoFeed, k[1] \notin overwritten'
        PROVE  slas'[k[1]] # NoSLA /\ feeds'[k] \in FeedOf(slas'[k[1]].maximumViableWindow)
    <3>1. feeds' = feeds /\ k[1] \notin overwritten
      BY <1>3, <2>1 DEF AddSLAs
    <3>2. slas[k[1]] # NoSLA /\ feeds[k] \in FeedOf(slas[k[1]].maximumViableWindow)
      BY <1>0, <2>1, <3>1
    <3>3. CASE k[1] = id
      <4>1. slas'[k[1]] = sla /\ sla # NoSLA
        BY <1>3, <1>t, <3>3, SLAAssumption DEF AddSLAs, SLAInv, TypeOK
      <4>2. sla.maximumViableWindow = slas[k[1]].maximumViableWindow
        BY <1>3, <2>1, <3>2, <3>3 DEF AddSLAs
      <4> QED
        BY <3>1, <3>2, <4>1, <4>2
    <3>4. CASE k[1] # id
      <4>1. slas'[k[1]] = slas[k[1]]
        BY <1>0, <1>3, <1>t, <3>4 DEF AddSLAs, SLAInv, TypeOK
      <4> QED
        BY <3>1, <3>2, <4>1
    <3> QED
      BY <3>3, <3>4
  <2> QED
    BY <1>t, <2>1 DEF WindowInv
<1>4. ASSUME NEW id \in SLAID, RemoveSLAs(id)
      PROVE  WindowInv'
  <2>1. ASSUME NEW k \in Key, feeds'[k] # NoFeed, k[1] \notin overwritten'
        PROVE  slas'[k[1]] # NoSLA /\ feeds'[k] \in FeedOf(slas'[k[1]].maximumViableWindow)
    <3>1. k[1] # id /\ feeds'[k] = feeds[k] /\ k[1] \notin overwritten
      BY <1>4, <2>1 DEF RemoveSLAs
    <3>2. slas'[k[1]] = slas[k[1]]
      BY <1>0, <1>4, <1>t, <3>1 DEF RemoveSLAs, SLAInv, TypeOK
    <3> QED
      BY <1>0, <2>1, <3>1, <3>2
  <2> QED
    BY <1>t, <2>1 DEF WindowInv
<1>5. ASSUME NEW on \in BOOLEAN, Params(on)
      PROVE  WindowInv'
  BY <1>5, <1>s DEF Params
<1>6. ASSUME NEW S \in SUBSET CurrencyPair, SetPairs(S)
      PROVE  WindowInv'
  BY <1>6, <1>s DEF SetPairs, store
<1>7. ASSUME NEW S \in ValidatorSets, EndBlock(S)
      PROVE  WindowInv'
  BY <1>7, <1>s DEF EndBlock, store
<1>8. CASE Restart
  <2>1. ASSUME NEW k \in Key, feeds'[k] # NoFeed
        PROVE  slas'[k[1]] # NoSLA /\ feeds'[k] \in FeedOf(slas'[k[1]].maximumViableWindow)
    <3>1. slas' = slas /\ feeds'[k] = feeds[k] /\ slas[k[1]] # NoSLA
      BY <1>8, <2>1 DEF Restart
    <3>2. ~Mismatch(k)
      BY <1>8, <2>1, <3>1 DEF Restart, ValidExport
    <3>3. PICK t \in Terms : feeds[k] \in FeedOf(t.maximumViableWindow)
      BY <1>t, <2>1, <3>1 DEF SLAInv, TypeOK
    <3>4. feeds[k] \in FeedOf(slas[k[1]].maximumViableWindow)
      BY <3>2, <3>3 DEF Mismatch, FeedOf
    <3> QED
      BY <3>1, <3>4
  <2> QED
    BY <1>t, <2>1 DEF WindowInv
<1>9. CASE UNCHANGED vars
  BY <1>9, <1>s DEF vars, store
<1> QED
  BY <1>1, <1>2, <1>3, <1>4, <1>5, <1>6, <1>7, <1>8, <1>9 DEF Next

\* No feed outlives the terms that it was made for, through removed and re-added
\* SLAs, pairs and validators that leave and return, and restarts: only AddSLAs over
\* an SLA in state can make Qualifies fail BeginBlocker.
THEOREM FeedsAlwaysFitTerms == Spec => []FeedsFitTerms
<1>1. SLAInv /\ Init => WindowInv
  BY DEF WindowInv, Init
<1>2. WindowInv /\ [Next]_vars => WindowInv'
  BY WindowStep
<1>3. WindowInv => FeedsFitTerms
  BY DEF WindowInv, FeedsFitTerms, Mismatch, FeedOf
<1> QED
  BY <1>1, <1>2, <1>3, SLAInvariant, PTL DEF Spec

-----------------------------------------------------------------------------
(* Counting in the ring *)

\* The last W blocks of a window of W are all of its bits.
LEMMA WholeRange ==
    ASSUME NEW W \in Nat \ {0}, NEW feed \in FeedOf(W)
    PROVE  getBitRange(feed, W) = 0..(W - 1)
<1> DEFINE x == feed.index
<1>1. x \in 0..(W - 1) /\ feed.maximumViableWindow = W /\ W - (W - x) = x /\ ~(W < x)
  BY DEF FeedOf
<1>2. FlipRange({}, x, W) = x..(W - 1)
  BY DEF FlipRange
<1>3. FlipRange(x..(W - 1), 0, x) = 0..(W - 1)
  BY <1>1 DEF FlipRange
<1> QED
  BY <1>1, <1>2, <1>3 DEF getBitRange

\* Every bit is that of one block of the window.
LEMMA BitsOnce ==
    ASSUME NEW W \in Nat \ {0}, NEW feed \in FeedOf(W)
    PROVE  /\ \A i \in 1..W : Bit(feed, i) \in 0..(W - 1)
           /\ \A i, j \in 1..W : Bit(feed, i) = Bit(feed, j) => i = j
           /\ \A b \in 0..(W - 1) : \E i \in 1..W : Bit(feed, i) = b
<1> DEFINE x == feed.index
<1>1. x \in 0..(W - 1) /\ feed.maximumViableWindow = W
  BY DEF FeedOf
<1>2. ASSUME NEW i \in 1..W
      PROVE  Bit(feed, i) = IF x + i - 1 < W THEN x + i - 1 ELSE x + i - 1 - W
  <2>1. PICK y : y = x + i - 1
    OBVIOUS
  <2>2. y \in 0..(2 * W - 1)
    BY <1>1, <2>1
  <2>3. y % W = IF y < W THEN y ELSE y - W
    BY <2>2, Wraps
  <2> QED
    BY <1>1, <2>1, <2>3 DEF Bit
<1>3. ASSUME NEW b \in 0..(W - 1)
      PROVE  \E i \in 1..W : Bit(feed, i) = b
  <2>1. CASE b >= x
    <3>1. b - x + 1 \in 1..W /\ x + (b - x + 1) - 1 = b
      BY <1>1, <2>1
    <3>2. Bit(feed, b - x + 1) = b
      BY <1>1, <1>2, <3>1
    <3> QED
      BY <3>1, <3>2
  <2>2. CASE b < x
    <3>1. b - x + W + 1 \in 1..W /\ x + (b - x + W + 1) - 1 = b + W
      BY <1>1, <2>2
    <3>2. Bit(feed, b - x + W + 1) = b
      BY <1>1, <1>2, <3>1
    <3> QED
      BY <3>1, <3>2
  <2> QED
    BY <1>1, <2>1, <2>2
<1>4. \A i \in 1..W : Bit(feed, i) \in 0..(W - 1)
  BY <1>1, <1>2
<1>5. ASSUME NEW i \in 1..W, NEW j \in 1..W, Bit(feed, i) = Bit(feed, j)
      PROVE  i = j
  BY <1>1, <1>2, <1>5
<1> QED
  BY <1>3, <1>4, <1>5

\* So there are as many blocks with a bit in B as bits in B.
LEMMA CountBits ==
    ASSUME NEW W \in Nat \ {0}, NEW feed \in FeedOf(W), NEW B \in SUBSET (0..(W - 1))
    PROVE  /\ Cardinality({i \in 1..W : Bit(feed, i) \in B}) = Cardinality(B)
           /\ Cardinality(B) \in Nat
<1> DEFINE I == {i \in 1..W : Bit(feed, i) \in B}
           f == [i \in I |-> Bit(feed, i)]
<1>1. f \in Bijection(I, B)
  <2>1. f \in [I -> B]
    OBVIOUS
  <2>2. f \in Injection(I, B)
    BY <2>1, BitsOnce DEF Injection, IsInjective
  <2>3. ASSUME NEW b \in B PROVE \E i \in I : f[i] = b
    BY BitsOnce
  <2> QED
    BY <2>1, <2>2, <2>3 DEF Bijection, Surjection
<1>2. IsFiniteSet(1..W) /\ IsFiniteSet(0..(W - 1))
  BY FS_Interval
<1>3. IsFiniteSet(I) /\ IsFiniteSet(B)
  BY <1>2, FS_Subset
<1> HIDE DEF f, I
<1>4. Cardinality(B) = Cardinality(I)
  BY <1>1, <1>3, FS_Bijection DEF ExistsBijection
<1> QED
  BY <1>3, <1>4, FS_CardinalityType DEF I

\* A vote with a price is a vote.
Nested(feed) == feed.updateMap \subseteq feed.inclusionMap

\* The counts of a feed are those of its history.
LEMMA CountsAgree ==
    ASSUME NEW W \in Nat \ {0}, NEW feed \in FeedOf(W), Nested(feed)
    PROVE  /\ GetNumVotesWithWindow(feed, W) = Promise!Votes(Statuses(feed))
           /\ GetNumPriceUpdatesWithWindow(feed, W) = Promise!PriceUpdates(Statuses(feed))
           /\ Promise!Votes(Statuses(feed)) \in Nat
           /\ Promise!PriceUpdates(Statuses(feed)) \in Nat
<1> DEFINE h == Statuses(feed)
<1>1. /\ feed.maximumViableWindow = W
      /\ feed.updateMap \in SUBSET (0..(W - 1)) /\ feed.inclusionMap \in SUBSET (0..(W - 1))
  BY DEF FeedOf
<1>2. h = [i \in 1..W |-> CASE Bit(feed, i) \in feed.updateMap -> "VoteWithPrice"
                            [] Bit(feed, i) \in feed.inclusionMap \ feed.updateMap ->
                                  "VoteWithoutPrice"
                            [] OTHER -> "NoVote"]
  BY <1>1 DEF Statuses, Bit
<1>3. Len(h) = W
  BY <1>2
<1>4. ASSUME NEW i \in 1..W
      PROVE  /\ h[i] # "NoVote" <=> Bit(feed, i) \in feed.inclusionMap
             /\ h[i] = "VoteWithPrice" <=> Bit(feed, i) \in feed.updateMap
  BY <1>2 DEF Nested
<1> HIDE DEF h
<1>5. /\ {i \in 1..Len(h) : h[i] # "NoVote"} = {i \in 1..W : Bit(feed, i) \in feed.inclusionMap}
      /\ {i \in 1..Len(h) : h[i] = "VoteWithPrice"} =
            {i \in 1..W : Bit(feed, i) \in feed.updateMap}
  BY <1>3, <1>4
<1>6. /\ Promise!Votes(h) = Cardinality(feed.inclusionMap)
      /\ Promise!PriceUpdates(h) = Cardinality(feed.updateMap)
      /\ Cardinality(feed.inclusionMap) \in Nat /\ Cardinality(feed.updateMap) \in Nat
  <2>1. /\ Cardinality({i \in 1..W : Bit(feed, i) \in feed.inclusionMap}) =
              Cardinality(feed.inclusionMap)
        /\ Cardinality(feed.inclusionMap) \in Nat
    BY <1>1, CountBits, SMTT(30)
  <2>2. /\ Cardinality({i \in 1..W : Bit(feed, i) \in feed.updateMap}) =
              Cardinality(feed.updateMap)
        /\ Cardinality(feed.updateMap) \in Nat
    BY <1>1, CountBits, SMTT(30)
  <2>3. /\ Promise!Votes(h) = Cardinality({i \in 1..Len(h) : h[i] # "NoVote"})
        /\ Promise!PriceUpdates(h) = Cardinality({i \in 1..Len(h) : h[i] = "VoteWithPrice"})
    BY Zenon DEF Promise!Votes, Promise!PriceUpdates, Cardinality, Promise!Cardinality
  <2> QED
    BY <1>5, <2>1, <2>2, <2>3
<1>7. /\ feed.updateMap \cap (0..(W - 1)) = feed.updateMap
      /\ feed.inclusionMap \cap (0..(W - 1)) = feed.inclusionMap
  BY <1>1
<1> QED
  BY <1>6, <1>7, WholeRange DEF GetNumVotesWithWindow, GetNumPriceUpdatesWithWindow, h

\* ExecSLA punishes for a window exactly if it fails the terms.
LEMMA ChecksAgree ==
    ASSUME NEW k, feeds[k] \in FeedOf(slas[k[1]].maximumViableWindow), Nested(feeds[k]),
           slas[k[1]] \in Terms
    PROVE  Qualifies(k) /\ ~UptimeMet(k) <=> Promise!Fails(Statuses(feeds[k]), slas[k[1]])
<1> DEFINE t == slas[k[1]]
           W == t.maximumViableWindow
           h == Statuses(feeds[k])
           votes == Promise!Votes(h)
           updates == Promise!PriceUpdates(h)
<1>1. W \in Nat \ {0} /\ t.minimumBlockUpdates \in Nat \ {0} /\ t.expectedUptime \in Nat
  BY TermsType
<1>2. /\ GetNumVotesWithWindow(feeds[k], W) = votes
      /\ GetNumPriceUpdatesWithWindow(feeds[k], W) = updates
      /\ votes \in Nat /\ updates \in Nat
  BY <1>1, CountsAgree
<1> HIDE DEF votes, updates
<1>3. Qualifies(k) <=> t.minimumBlockUpdates <= votes
  BY <1>2 DEF Qualifies
<1>4. UptimeMet(k) <=> IF votes = 0 THEN 100 >= t.expectedUptime
                       ELSE 100 * updates >= t.expectedUptime * votes
  BY <1>2 DEF UptimeMet
<1>5. Promise!Fails(h, t) <=> /\ votes >= t.minimumBlockUpdates
                              /\ 100 * updates < t.expectedUptime * votes
  BY DEF Promise!Fails, votes, updates
<1>6. t.expectedUptime * votes \in Nat /\ 100 * updates \in Nat
  BY <1>1, <1>2
<1> HIDE DEF t, h
<1> QED
  BY <1>1, <1>2, <1>3, <1>4, <1>5, <1>6 DEF t, h

-----------------------------------------------------------------------------
(* x/sla implements UptimeHistory *)

\* The invariant that the refinement needs: SLAInv, and every feed is nested.
RefineInv ==
    /\ SLAInv
    /\ \A k \in Key : feeds[k] # NoFeed => Nested(feeds[k])

\* An update keeps a feed nested.
LEMMA UpdateNested ==
    ASSUME NEW sla \in Terms, NEW status \in Status, NEW x \in AnyFeed \cup {NoFeed},
           x # NoFeed => Nested(x)
    PROVE  /\ UpdatePriceFeed(x, sla, status) \in AnyFeed
           /\ Nested(UpdatePriceFeed(x, sla, status))
<1>1. CASE x = NoFeed
  <2> DEFINE W == sla.maximumViableWindow
  <2>1. UpdatePriceFeed(x, sla, status) \in FeedOf(W)
    BY <1>1, UpdateType
  <2>2. UpdatePriceFeed(x, sla, status) = SetUpdate(NewPriceFeed(W), status)
    BY <1>1 DEF UpdatePriceFeed
  <2>3. Nested(SetUpdate(NewPriceFeed(W), status))
    BY DEF SetUpdate, NewPriceFeed, SetTo, Nested, Status
  <2> QED
    BY <2>1, <2>2, <2>3 DEF AnyFeed
<1>2. CASE x # NoFeed
  <2>1. PICK t \in Terms : x \in FeedOf(t.maximumViableWindow)
    BY <1>2 DEF AnyFeed
  <2>2. UpdatePriceFeed(x, sla, status) \in FeedOf(t.maximumViableWindow)
    BY <2>1, UpdateType
  <2>3. UpdatePriceFeed(x, sla, status) = SetUpdate(x, status)
    BY <1>2 DEF UpdatePriceFeed
  <2>4. Nested(SetUpdate(x, status))
    BY <1>2 DEF SetUpdate, SetTo, Nested, Status
  <2> QED
    BY <2>2, <2>3, <2>4 DEF AnyFeed
<1> QED
  BY <1>1, <1>2

\* Every step keeps it.
LEMMA RefineStep == RefineInv /\ [Next]_vars => RefineInv'
<1> SUFFICES ASSUME RefineInv, [Next]_vars PROVE RefineInv'
  OBVIOUS
<1>t. SLAInv /\ SLAInv'
  BY SLAStep DEF RefineInv
<1>s. ASSUME \A k \in Key : feeds'[k] \in {feeds[k], NoFeed}
      PROVE  RefineInv'
  BY <1>s, <1>t DEF RefineInv
<1>1. CASE PreBlock
  <2>1. CASE VoteExtensionsEnabled(height)
    <3>1. PICK c \in Commits(signers), order \in [SLAID -> Orders(signers \ bonded)] :
            UpdatePriceFeeds(GetUpdates(c),
               [id \in SLAID |-> [i \in DOMAIN order[id] |-> getStatuses(c[order[id][i]])]])
      BY <1>1, <2>1 DEF PreBlock
    <3>2. ASSUME NEW k \in Key, feeds'[k] # NoFeed
          PROVE  Nested(feeds'[k])
      <4> DEFINE S == {x \in AnyFeed \cup {NoFeed} : x # NoFeed => Nested(x)}
      <4>1. feeds[k] \in S /\ NoFeed \in S
        BY <1>t, FeedsType DEF RefineInv, SLAInv
      <4>2. slas[k[1]] \in Terms \cup {NoSLA}
        BY <1>t, FeedsType DEF SLAInv
      <4>3. slas[k[1]] # NoSLA =>
              \A x \in S, status \in Status : UpdatePriceFeed(x, slas[k[1]], status) \in S
        BY <4>2, UpdateNested
      <4>4. IsFiniteSet(signers \ bonded)
        BY <1>t, DepartedFinite DEF SLAInv
      <4> HIDE DEF S
      <4>5. feeds'[k] \in S
        BY <3>1, <4>1, <4>3, <4>4, UpdateFeeds
      <4> QED
        BY <3>2, <4>5 DEF S
    <3> QED
      BY <1>t, <3>2 DEF RefineInv
  <2>2. CASE ~VoteExtensionsEnabled(height)
    BY <1>1, <1>s, <2>2 DEF PreBlock
  <2> QED
    BY <2>1, <2>2
<1>2. CASE BeginBlock
  <2>1. \A k \in Key : feeds'[k] \in {feeds[k], NoFeed}
    BY <1>2 DEF BeginBlock
  <2> QED
    BY <1>s, <2>1
<1>3. ASSUME NEW id \in SLAID, NEW sla \in Terms, AddSLAs(id, sla)
      PROVE  RefineInv'
  BY <1>3, <1>s DEF AddSLAs
<1>4. ASSUME NEW id \in SLAID, RemoveSLAs(id)
      PROVE  RefineInv'
  <2>1. \A k \in Key : feeds'[k] \in {feeds[k], NoFeed}
    BY <1>4 DEF RemoveSLAs
  <2> QED
    BY <1>s, <2>1
<1>5. ASSUME NEW on \in BOOLEAN, Params(on)
      PROVE  RefineInv'
  BY <1>5, <1>s DEF Params
<1>6. ASSUME NEW S \in SUBSET CurrencyPair, SetPairs(S)
      PROVE  RefineInv'
  BY <1>6, <1>s DEF SetPairs, store
<1>7. ASSUME NEW S \in ValidatorSets, EndBlock(S)
      PROVE  RefineInv'
  BY <1>7, <1>s DEF EndBlock, store
<1>8. CASE Restart
  <2>1. \A k \in Key : feeds'[k] \in {feeds[k], NoFeed}
    BY <1>8 DEF Restart
  <2> QED
    BY <1>s, <2>1
<1>9. CASE UNCHANGED vars
  BY <1>9, <1>s DEF vars, store
<1> QED
  BY <1>1, <1>2, <1>3, <1>4, <1>5, <1>6, <1>7, <1>8, <1>9 DEF Next

\* The refinement mapping.
History == [k \in ValidatorKey |-> IF feeds[k] = NoFeed THEN NoFeed ELSE Statuses(feeds[k])]
Punished == slashed \cap ValidatorKey

\* A key of a validator, and its history: none for no feed, a window for one.
LEMMA HistoryType ==
    ASSUME TypeOK, NEW k \in ValidatorKey
    PROVE  /\ k \in Key /\ k[1] \in SLAID /\ k[2] \in CurrencyPair
           /\ k[3] \in Validator /\ k[3] # Nobody
           /\ feeds[k] = NoFeed <=> History[k] = NoFeed
           /\ feeds[k] # NoFeed => History[k] = Statuses(feeds[k])
<1>1. /\ k \in Key /\ k[1] \in SLAID /\ k[2] \in CurrencyPair
      /\ k[3] \in Validator /\ k[3] # Nobody
  BY SLAAssumption DEF ValidatorKey, Key, Address
<1>2. feeds[k] # NoFeed => Statuses(feeds[k]) # NoFeed
  <2> SUFFICES ASSUME feeds[k] # NoFeed PROVE Statuses(feeds[k]) # NoFeed
    OBVIOUS
  <2>1. PICK t \in Terms : feeds[k] \in FeedOf(t.maximumViableWindow)
    BY <1>1 DEF TypeOK
  <2>2. feeds[k].maximumViableWindow = t.maximumViableWindow
    BY <2>1 DEF FeedOf
  <2>3. Statuses(feeds[k]) \in [1..t.maximumViableWindow -> Status]
    BY <2>2 DEF Statuses, Status
  <2> QED
    BY <2>3, SLAAssumption
<1> QED
  BY <1>1, <1>2 DEF History

\* The steps of UptimeHistory, under the mapping.
LEMMA RecordIs ==
    ASSUME Punished' = {}, slas' = slas,
           \A k \in ValidatorKey :
              LET s == Promise!Counted(reported'[k[3]][k[2]])
              IN  IF s = NotTracked \/ slas[k[1]] = NoSLA
                  THEN History'[k] \in {History[k], NoFeed}
                  ELSE \/ /\ History[k] = NoFeed
                          /\ History'[k] =
                                Promise!Moved(Promise!Blank(slas[k[1]].maximumViableWindow), s)
                       \/ History[k] # NoFeed /\ History'[k] = Promise!Moved(History[k], s)
    PROVE  Promise!Record
BY DEF Promise!Record, Promise!Key, Punished, History, ValidatorKey

\* A step that punishes those, and only those, whose history fails a checked SLA,
\* and may drop histories, is Enforce.
LEMMA EnforceIs ==
    ASSUME slas' = slas,
           \A k \in ValidatorKey : History'[k] \in {History[k], NoFeed},
           NEW checked \in SUBSET SLAID,
           Punished' = {k \in ValidatorKey : /\ k[1] \in checked
                                             /\ slas[k[1]] # NoSLA
                                             /\ History'[k] # NoFeed
                                             /\ Promise!Fails(History[k], slas[k[1]])}
    PROVE  Promise!Enforce
BY DEF Promise!Enforce, Promise!Key, Punished, History, ValidatorKey

\* A step that drops the histories of the SLAs it removes, and no other, is Govern.
LEMMA GovernIs ==
    ASSUME Punished' = Punished,
           \A k \in ValidatorKey :
              History'[k] = IF slas'[k[1]] = NoSLA THEN NoFeed ELSE History[k]
    PROVE  Promise!Govern
BY DEF Promise!Govern, Promise!Key, Punished, History, ValidatorKey

\* A step that leaves SLAs, feeds and what was reported alone is a stutter.
LEMMA StutterIs ==
    ASSUME slas' = slas, feeds' = feeds, reported' = reported, slashed' = slashed
    PROVE  UNCHANGED Promise!vars
BY DEF Promise!vars, ValidatorKey, Statuses

\* PreBlock records what the validators did.
LEMMA PreBlockRecords ==
    ASSUME RefineInv, PreBlock, VoteExtensionsEnabled(height), TypeOK'
    PROVE  Promise!Record
<1>1. PICK c \in Commits(signers), order \in [SLAID -> Orders(signers \ bonded)] :
        /\ reported' = Reports(c)
        /\ UpdatePriceFeeds(GetUpdates(c),
             [id \in SLAID |-> [i \in DOMAIN order[id] |-> getStatuses(c[order[id][i]])]])
  BY DEF PreBlock
<1>2. slas' = slas /\ Punished' = {}
  BY DEF PreBlock, RefineInv, SLAInv, Punished
<1>3. ASSUME NEW k \in ValidatorKey
      PROVE  LET s == Promise!Counted(reported'[k[3]][k[2]])
             IN  IF s = NotTracked \/ slas[k[1]] = NoSLA
                 THEN History'[k] \in {History[k], NoFeed}
                 ELSE \/ /\ History[k] = NoFeed
                         /\ History'[k] =
                               Promise!Moved(Promise!Blank(slas[k[1]].maximumViableWindow), s)
                      \/ History[k] # NoFeed /\ History'[k] = Promise!Moved(History[k], s)
  <2> DEFINE sla == slas[k[1]]
             cp == k[2]
             v == k[3]
             s == GetUpdates(c)[v][cp]
  <2>1. /\ k \in Key /\ v \in Validator /\ v # Nobody /\ cp \in CurrencyPair
        /\ feeds[k] = NoFeed <=> History[k] = NoFeed
        /\ feeds[k] # NoFeed => History[k] = Statuses(feeds[k])
    BY HistoryType DEF RefineInv, SLAInv
  <2>2. History'[k] = IF feeds'[k] = NoFeed THEN NoFeed ELSE Statuses(feeds'[k])
    BY DEF History
  <2>r. s = Promise!Counted(reported'[k[3]][k[2]])
    BY <1>1, <2>1, ReportsType
  <2>3. s # NotTracked => cp \in pairs /\ s \in Status
    BY <2>1, UpdatesType
  <2>4. sla = NoSLA => feeds'[k] = feeds[k]
    BY <1>1, <2>1 DEF UpdatePriceFeeds
  <2>5. cp \notin pairs => feeds'[k] \in {feeds[k], NoFeed}
    BY <1>1, <2>1, <2>4 DEF UpdatePriceFeeds
  <2>6. sla # NoSLA /\ cp \in pairs =>
          feeds'[k] = IF s # NotTracked THEN UpdatePriceFeed(feeds[k], sla, s) ELSE feeds[k]
    BY <1>1, <2>1 DEF UpdatePriceFeeds
  <2> HIDE DEF s
  <2>7. CASE s = NotTracked \/ sla = NoSLA
    <3>1. feeds'[k] \in {feeds[k], NoFeed}
      BY <2>4, <2>5, <2>6, <2>7
    <3>2. History'[k] \in {History[k], NoFeed}
      BY <2>1, <2>2, <3>1
    <3> QED
      BY <2>7, <2>r, <3>2
  <2>8. CASE s # NotTracked /\ sla # NoSLA
    <3>1. feeds'[k] = UpdatePriceFeed(feeds[k], sla, s) /\ s \in Status
      BY <2>3, <2>6, <2>8
    <3>2. sla \in Terms
      BY <2>1, <2>8, FeedsType DEF RefineInv, SLAInv
    <3>3. CASE feeds[k] = NoFeed
      <4> DEFINE W == sla.maximumViableWindow
      <4>1. W \in Nat \ {0}
        BY <3>2, TermsType
      <4>2. feeds'[k] = SetUpdate(NewPriceFeed(W), s) /\ feeds'[k] \in FeedOf(W)
        BY <3>1, <3>2, <3>3, UpdateType DEF UpdatePriceFeed
      <4>3. feeds'[k] # NoFeed
        BY <3>2, <4>2, SLAAssumption
      <4>4. NewPriceFeed(W) \in FeedOf(W) /\ Statuses(NewPriceFeed(W)) = Promise!Blank(W)
        BY <4>1, NewFeed
      <4>5. Statuses(feeds'[k]) = Promise!Moved(Promise!Blank(W), s)
        BY <3>1, <4>1, <4>2, <4>4, RingKeepsHistory
      <4>6. History[k] = NoFeed /\ History'[k] = Promise!Moved(Promise!Blank(W), s)
        BY <2>1, <2>2, <3>3, <4>3, <4>5
      <4> QED
        BY <2>8, <2>r, <4>6
    <3>4. CASE feeds[k] # NoFeed
      <4>1. PICK t \in Terms : feeds[k] \in FeedOf(t.maximumViableWindow)
        BY <2>1, <3>4 DEF RefineInv, SLAInv, TypeOK
      <4>2. t.maximumViableWindow \in Nat \ {0}
        BY TermsType
      <4>3. feeds'[k] = SetUpdate(feeds[k], s) /\ feeds'[k] \in FeedOf(t.maximumViableWindow)
        BY <3>1, <3>2, <3>4, <4>1, UpdateType DEF UpdatePriceFeed
      <4>4. feeds'[k] # NoFeed
        BY <4>3, SLAAssumption
      <4>5. Statuses(feeds'[k]) = Promise!Moved(Statuses(feeds[k]), s)
        BY <3>1, <4>1, <4>2, <4>3, RingKeepsHistory
      <4>6. History[k] # NoFeed /\ History'[k] = Promise!Moved(History[k], s)
        BY <2>1, <2>2, <3>4, <4>4, <4>5
      <4> QED
        BY <2>8, <2>r, <4>6
    <3> QED
      BY <3>3, <3>4
  <2> QED
    BY <2>7, <2>8
<1> QED
  BY <1>2, <1>3, RecordIs

\* BeginBlock enforces the SLAs that are due.
LEMMA BeginBlockEnforces ==
    ASSUME RefineInv, BeginBlock, halted' = "no"
    PROVE  Promise!Enforce
<1> DEFINE due == {k \in Key : feeds[k] # NoFeed /\ Due(k[1])}
           checked == {k \in due : ~Mismatch(k) /\ Qualifies(k)}
           ids == {id \in SLAID : Due(id)}
<1>0. ~\E k \in due : Mismatch(k)
  BY DEF BeginBlock
<1>1. PICK unknown \in SUBSET checked :
        /\ feeds' = [k \in Key |-> IF k \in unknown THEN NoFeed ELSE feeds[k]]
        /\ slashed' = {k \in checked \ unknown : ~UptimeMet(k)}
  BY DEF BeginBlock
<1>2. slas' = slas
  BY DEF BeginBlock
<1>3. ASSUME NEW k \in ValidatorKey
      PROVE  /\ k \in Key /\ k[1] \in SLAID
             /\ History'[k] = IF k \in unknown THEN NoFeed ELSE History[k]
             /\ feeds[k] = NoFeed <=> History[k] = NoFeed
             /\ feeds[k] # NoFeed => History[k] = Statuses(feeds[k])
  <2>1. /\ k \in Key /\ k[1] \in SLAID
        /\ feeds[k] = NoFeed <=> History[k] = NoFeed
        /\ feeds[k] # NoFeed => History[k] = Statuses(feeds[k])
    BY HistoryType DEF RefineInv, SLAInv
  <2> QED
    BY <1>1, <2>1 DEF History
<1>4. ASSUME NEW k \in ValidatorKey
      PROVE  k \in Punished' <=> /\ k[1] \in ids
                                 /\ slas[k[1]] # NoSLA
                                 /\ History'[k] # NoFeed
                                 /\ Promise!Fails(History[k], slas[k[1]])
  <2>1. k \in Punished' <=> k \in checked /\ k \notin unknown /\ ~UptimeMet(k)
    BY <1>1 DEF Punished
  <2>2. k \in due <=> feeds[k] # NoFeed /\ k[1] \in ids
    BY <1>3
  <2>3. CASE k \in due
    <3>1. feeds[k] # NoFeed /\ slas[k[1]] # NoSLA /\ ~Mismatch(k) /\ k \in Key
      BY <1>0, <1>3, <2>3 DEF Due
    <3>2. slas[k[1]] \in Terms
      BY <3>1, FeedsType DEF RefineInv, SLAInv
    <3>3. PICK t \in Terms : feeds[k] \in FeedOf(t.maximumViableWindow)
      BY <3>1 DEF RefineInv, SLAInv, TypeOK
    <3>4. feeds[k] \in FeedOf(slas[k[1]].maximumViableWindow)
      BY <3>1, <3>3 DEF Mismatch, FeedOf
    <3>5. Nested(feeds[k])
      BY <3>1 DEF RefineInv
    <3>6. Qualifies(k) /\ ~UptimeMet(k) <=> Promise!Fails(Statuses(feeds[k]), slas[k[1]])
      BY <3>2, <3>4, <3>5, ChecksAgree
    <3>7. History[k] = Statuses(feeds[k]) /\ (History'[k] # NoFeed <=> k \notin unknown)
      BY <1>3, <3>1
    <3>8. k \in checked <=> Qualifies(k)
      BY <2>3, <3>1
    <3> HIDE DEF checked, due, ids
    <3> QED
      BY <2>1, <2>2, <2>3, <3>1, <3>6, <3>7, <3>8
  <2>4. CASE k \notin due
    <3>1. k \notin checked
      BY <2>4
    <3>2. k[1] \in ids => History'[k] = NoFeed
      BY <1>3, <2>2, <2>4
    <3> HIDE DEF checked, due, ids
    <3> QED
      BY <2>1, <3>1, <3>2
  <2> QED
    BY <2>3, <2>4
<1>5. Punished' = {k \in ValidatorKey : /\ k[1] \in ids
                                        /\ slas[k[1]] # NoSLA
                                        /\ History'[k] # NoFeed
                                        /\ Promise!Fails(History[k], slas[k[1]])}
  <2>1. Punished' \subseteq ValidatorKey
    BY DEF Punished
  <2> HIDE DEF ids
  <2> QED
    BY <1>4, <2>1
<1>6. ids \in SUBSET SLAID
  OBVIOUS
<1>7. \A k \in ValidatorKey : History'[k] \in {History[k], NoFeed}
  BY <1>3
<1> HIDE DEF ids
<1> QED
  BY <1>2, <1>5, <1>6, <1>7, EnforceIs

\* Every step of x/sla is one of UptimeHistory, or leaves it alone.
LEMMA StepKeepsPromise ==
    ASSUME RefineInv, RefineInv', [Next]_vars
    PROVE  [Promise!Next]_(Promise!vars)
<1>0. ASSUME NEW k \in ValidatorKey
      PROVE  /\ k \in Key /\ k[1] \in SLAID
             /\ feeds[k] = NoFeed <=> History[k] = NoFeed
  BY HistoryType DEF RefineInv, SLAInv
<1>1. CASE PreBlock
  <2>1. CASE VoteExtensionsEnabled(height)
    BY <1>1, <2>1, PreBlockRecords DEF RefineInv, SLAInv, Promise!Next
  <2>2. CASE ~VoteExtensionsEnabled(height)
    BY <1>1, <2>2, StutterIs DEF PreBlock
  <2> QED
    BY <2>1, <2>2
<1>2. CASE BeginBlock
  <2>1. CASE halted' # "no"
    BY <1>2, <2>1, StutterIs DEF BeginBlock
  <2>2. CASE halted' = "no"
    BY <1>2, <2>2, BeginBlockEnforces DEF Promise!Next
  <2> QED
    BY <2>1, <2>2
<1>3. ASSUME NEW id \in SLAID, NEW sla \in Terms, AddSLAs(id, sla)
      PROVE  Promise!Govern
  <2>1. Punished' = Punished /\ History' = History
    BY <1>3 DEF AddSLAs, block, Punished, History, ValidatorKey, Statuses
  <2>2. ASSUME NEW k \in ValidatorKey
        PROVE  History'[k] = IF slas'[k[1]] = NoSLA THEN NoFeed ELSE History[k]
    <3>1. CASE k[1] = id
      <4>1. slas'[k[1]] # NoSLA
        BY <1>3, <3>1, SLAAssumption DEF AddSLAs, RefineInv, SLAInv, TypeOK
      <4> QED
        BY <2>1, <4>1
    <3>2. CASE k[1] # id
      <4>1. slas'[k[1]] = slas[k[1]]
        BY <1>0, <1>3, <3>2 DEF AddSLAs, RefineInv, SLAInv, TypeOK
      <4>2. slas[k[1]] = NoSLA => feeds[k] = NoFeed
        BY <1>0 DEF RefineInv, SLAInv, FeedsAreTracked
      <4> QED
        BY <1>0, <2>1, <4>1, <4>2
    <3> QED
      BY <3>1, <3>2
  <2> QED
    BY <2>1, <2>2, GovernIs
<1>4. ASSUME NEW id \in SLAID, RemoveSLAs(id)
      PROVE  Promise!Govern
  <2>1. Punished' = Punished
    BY <1>4 DEF RemoveSLAs, block, Punished, ValidatorKey
  <2>2. ASSUME NEW k \in ValidatorKey
        PROVE  History'[k] = IF slas'[k[1]] = NoSLA THEN NoFeed ELSE History[k]
    <3>1. feeds'[k] = IF k[1] = id THEN NoFeed ELSE feeds[k]
      BY <1>0, <1>4 DEF RemoveSLAs
    <3>2. History'[k] = IF k[1] = id THEN NoFeed ELSE History[k]
      BY <3>1 DEF History
    <3>3. slas'[k[1]] = IF k[1] = id THEN NoSLA ELSE slas[k[1]]
      BY <1>0, <1>4 DEF RemoveSLAs, RefineInv, SLAInv, TypeOK
    <3>4. slas[k[1]] = NoSLA => History[k] = NoFeed
      BY <1>0 DEF RefineInv, SLAInv, FeedsAreTracked
    <3> QED
      BY <3>2, <3>3, <3>4
  <2> QED
    BY <2>1, <2>2, GovernIs
<1>5. ASSUME NEW on \in BOOLEAN, Params(on)
      PROVE  UNCHANGED Promise!vars
  BY <1>5, StutterIs DEF Params, block
<1>6. ASSUME NEW S \in SUBSET CurrencyPair, SetPairs(S)
      PROVE  UNCHANGED Promise!vars
  BY <1>6, StutterIs DEF SetPairs, store, block
<1>7. ASSUME NEW S \in ValidatorSets, EndBlock(S)
      PROVE  Promise!Record
  <2>1. Punished' = {} /\ History' = History /\ slas' = slas
    BY <1>7 DEF EndBlock, store, Punished, History, ValidatorKey, Statuses
  <2>2. \A k \in ValidatorKey : Promise!Counted(reported'[k[3]][k[2]]) = NotTracked
    BY <1>7, SLAAssumption DEF EndBlock, ValidatorKey, Promise!Counted
  <2> QED
    BY <2>1, <2>2, RecordIs
<1>8. CASE Restart
  <2>1. Punished' = Punished /\ slas' = slas
    BY <1>8 DEF Restart, block, Punished, ValidatorKey
  <2>2. ASSUME NEW k \in ValidatorKey
        PROVE  History'[k] = IF slas'[k[1]] = NoSLA THEN NoFeed ELSE History[k]
    <3>1. feeds'[k] = IF slas[k[1]] = NoSLA THEN NoFeed ELSE feeds[k]
      BY <1>0, <1>8 DEF Restart
    <3> QED
      BY <2>1, <3>1 DEF History
  <2>3. Promise!Govern
    BY <2>1, <2>2, GovernIs
  <2> QED
    BY <2>3 DEF Promise!Next
<1>9. CASE UNCHANGED vars
  BY <1>9, StutterIs DEF vars, store, block
<1> QED
  BY <1>1, <1>2, <1>3, <1>4, <1>5, <1>6, <1>7, <1>8, <1>9 DEF Next, Promise!Next

\* x/sla implements UptimeHistory, for any window, terms, pairs, validators and
\* sequence of blocks, messages and restarts: the two bitmaps with their index always
\* hold the statuses that the last blocks reported of a validator, a window is dropped
\* as a whole or not at all, and BeginBlocker slashes for exactly the windows that
\* fail the terms.
THEOREM AlwaysKeepsPromise == Spec => KeepsPromise
<1>1. Init => Promise!Init
  BY DEF Init, Promise!Init, Promise!Key, ValidatorKey, Key, Address
<1>2. Init /\ SLAInv => RefineInv
  BY DEF Init, RefineInv
<1>3. RefineInv /\ RefineInv' /\ [Next]_vars => [Promise!Next]_(Promise!vars)
  BY StepKeepsPromise
<1> QED
  BY <1>1, <1>2, <1>3, RefineStep, SLAInvariant, PTL DEF Spec, KeepsPromise, Promise!Spec
=============================================================================

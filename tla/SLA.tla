--------------------------------- MODULE SLA ---------------------------------
(***************************************************************************)
(* x/sla with the SLA PreBlocker (x/sla/keeper, abci/preblock/sla), block  *)
(* by block: the PreBlocker turns the votes of the extended commit into a  *)
(* status per validator and pair and moves the price feeds of every SLA,   *)
(* BeginBlocker slashes the validators whose feeds do not keep the terms,  *)
(* then messages change the SLAs, the parameters and (in x/oracle) the     *)
(* pairs, and x/staking changes the bonded validators.  A set of bonded    *)
(* validators signs its first block two heights later, so that the votes   *)
(* in a block may come from validators that are not bonded any more.       *)
(***************************************************************************)
EXTENDS PriceFeed, Sequences

CONSTANTS
    SLAID,          \* the ids of SLAs
    CurrencyPair,
    Validator,
    Nobody,         \* the empty consensus address
    Terms,          \* the SLAs that the authority may add, whatever the id
    ValidatorSets,  \* the sets of validators that x/staking may bond
    NoSLA, NoFeed, NotTracked,
    Absent,         \* the vote of a signer that did not vote
    EnableHeight,   \* the height that enables vote extensions
    MaxHeight

\* PriceFeedSLA.ValidateBasic.  The expected uptime is in percent.
ValidSLA(sla) ==
    /\ sla.expectedUptime \in Nat \ {0}
    /\ sla.minimumBlockUpdates \in 1..(sla.maximumViableWindow - 1)
    /\ sla.frequency \in 1..sla.maximumViableWindow

ASSUME SLAAssumption ==
    /\ \A sla \in Terms : sla.maximumViableWindow \in Nat /\ ValidSLA(sla)
    /\ NoSLA \notin Terms
    /\ \A sla \in Terms :
          /\ NoFeed \notin FeedOf(sla.maximumViableWindow)
          /\ NoFeed \notin [1..sla.maximumViableWindow -> Status]
    /\ NotTracked \notin Status /\ Absent \notin Status \cup {NotTracked}
    /\ Nobody \notin Validator
    /\ ValidatorSets \subseteq SUBSET Validator
    /\ \A S \in ValidatorSets : IsFiniteSet(S)
    /\ MaxHeight \in Nat \ {0}

VARIABLES
    height, phase,
    slas,           \* per id: the SLA or NoSLA
    feeds,          \* per id, pair and consensus address: the price feed or NoFeed
    currencyPairs,  \* the pairs that x/sla knows
    enabled,        \* params.Enabled
    pairs,          \* the pairs in x/oracle
    bonded,         \* the bonded validators
    incoming,       \* those of the height before
    signers,        \* those of the height before that: they sign the commit
    reported,       \* history: what the bonded validators did, per pair
    slashed,        \* the feeds that a validator is slashed for in this block
    overwritten,    \* history: the ids that AddSLAs gave another window
    halted          \* which call has BeginBlocker failed in, if any

store == <<slas, feeds, currencyPairs, enabled>>
staking == <<bonded, incoming, signers>>
block == <<reported, slashed>>
vars == <<height, phase, store, pairs, staking, block, overwritten, halted>>

Address == Validator \cup {Nobody}
Key == SLAID \X CurrencyPair \X Address

-----------------------------------------------------------------------------
(* The PreBlocker *)

VoteExtensionsEnabled(h) == h > EnableHeight

\* A commit lists every signer: one that is absent comes with an empty
\* extension, one that voted has prices for some pairs.
Commits(S) == [S -> {Absent} \cup SUBSET CurrencyPair]

\* getStatuses of a vote.  The empty extension of an absent signer is a vote
\* without prices.
getStatuses(vote) ==
    [cp \in CurrencyPair |->
        CASE cp \notin pairs -> NotTracked
          [] cp \in pairs /\ vote # Absent /\ cp \in vote -> "VoteWithPrice"
          [] OTHER -> "VoteWithoutPrice"]

\* GetUpdates for the bonded validators
GetUpdates(c) ==
    [v \in Validator |->
        IF v \notin bonded THEN [cp \in CurrencyPair |-> NotTracked]
        ELSE IF v \in DOMAIN c THEN getStatuses(c[v])
        ELSE [cp \in CurrencyPair |-> IF cp \in pairs THEN "NoVote" ELSE NotTracked]]

\* What the commit says of the bonded validators and the pairs of x/oracle: a
\* price, a vote without one, an absence, or that the validator was no signer.
Reports(c) ==
    [v \in Validator |-> [cp \in CurrencyPair |->
        CASE v \notin bonded \/ cp \notin pairs -> NotTracked
          [] v \in bonded /\ cp \in pairs /\ v \notin DOMAIN c -> "NoVote"
          [] v \in bonded /\ cp \in pairs /\ v \in DOMAIN c ->
                 IF c[v] = Absent THEN Absent
                 ELSE IF cp \in c[v] THEN "VoteWithPrice" ELSE "VoteWithoutPrice"]]

\* The orders in which a Go map may be ranged over.
Orders(S) == {f \in [1..Cardinality(S) -> S] : \A i, j \in DOMAIN f : f[i] = f[j] => i = j}

\* updatePriceFeedWithStatus or initPriceFeedWithStatus
UpdatePriceFeed(feed, sla, status) ==
    SetUpdate(IF feed = NoFeed THEN NewPriceFeed(sla.maximumViableWindow) ELSE feed, status)

\* Every voter that is not bonded any more updates the feed without a validator:
\* its entry in the updates is new, with no consensus address.
UpdateNobody(feed, sla, statuses) ==
    LET f[n \in 0..Len(statuses)] ==
            IF n = 0 THEN feed ELSE UpdatePriceFeed(f[n - 1], sla, statuses[n])
    IN  f[Len(statuses)]

\* Mutant: the pairs are stored first, and none is found to be removed.
UpdatePriceFeedsKeep(updates, departed) ==
    /\ currencyPairs' = pairs
    /\ feeds' = [k \in Key |->
         LET sla == slas[k[1]]  cp == k[2]  v == k[3] IN
         CASE sla = NoSLA \/ cp \notin pairs -> feeds[k]
           [] v = Nobody -> UpdateNobody(feeds[k], sla,
                                [i \in DOMAIN departed[k[1]] |-> departed[k[1]][i][cp]])
           [] v # Nobody /\ updates[v][cp] # NotTracked ->
                  UpdatePriceFeed(feeds[k], sla, updates[v][cp])
           [] OTHER -> feeds[k]]

\* UpdatePriceFeeds: the pairs that are gone lose their feeds, the others' feeds
\* get their status, under every SLA.  departed[id] are the statuses of the
\* voters that are not bonded any more, in the order that the id's pass meets
\* them.
UpdatePriceFeeds(updates, departed) ==
    /\ currencyPairs' = pairs
    /\ feeds' = [k \in Key |->
         LET sla == slas[k[1]]  cp == k[2]  v == k[3] IN
         CASE sla = NoSLA -> feeds[k]
           [] sla # NoSLA /\ cp \notin pairs ->
                  IF cp \in currencyPairs THEN NoFeed ELSE feeds[k]
           [] sla # NoSLA /\ cp \in pairs /\ v = Nobody ->
                  UpdateNobody(feeds[k], sla,
                               [i \in DOMAIN departed[k[1]] |-> departed[k[1]][i][cp]])
           [] sla # NoSLA /\ cp \in pairs /\ v # Nobody /\ updates[v][cp] # NotTracked ->
                  UpdatePriceFeed(feeds[k], sla, updates[v][cp])
           [] OTHER -> feeds[k]]

PreBlock ==
    /\ phase = "preblock"
    /\ phase' = "begin"
    /\ IF VoteExtensionsEnabled(height)
       THEN \E c \in Commits(signers) :
            /\ reported' = Reports(c)
            /\ \E order \in [SLAID -> Orders(signers \ bonded)] :
                  UpdatePriceFeeds(GetUpdates(c),
                      [id \in SLAID |-> [i \in DOMAIN order[id] |-> getStatuses(c[order[id][i]])]])
       ELSE UNCHANGED <<reported, feeds, currencyPairs>>
    /\ UNCHANGED <<height, slas, enabled, pairs, staking, slashed, overwritten, halted>>

-----------------------------------------------------------------------------
(* BeginBlocker *)

\* ExecSLA checks an SLA in every block of its frequency.
Due(id) == enabled /\ slas[id] # NoSLA /\ height # 0 /\ height % slas[id].frequency = 0

\* Qualifies returns an error.
Mismatch(k) == feeds[k].maximumViableWindow # slas[k[1]].maximumViableWindow

Qualifies(k) ==
    slas[k[1]].minimumBlockUpdates
        <= GetNumVotesWithWindow(feeds[k], slas[k[1]].maximumViableWindow)

\* GetUptimeFromPriceFeed against ExpectedUptime.  The rounding of the quotient
\* to 18 digits is left out.
UptimeMet(k) ==
    LET W == slas[k[1]].maximumViableWindow
        votes == GetNumVotesWithWindow(feeds[k], W)
    IN  IF votes = 0 THEN 100 >= slas[k[1]].expectedUptime
        ELSE 100 * GetNumPriceUpdatesWithWindow(feeds[k], W) >= slas[k[1]].expectedUptime * votes

\* EnforceSLA of the feeds that qualify, in some order.  x/staking is asked with
\* the bytes of the consensus address taken for an operator address: it may not
\* know any of them (the feed is then removed), and x/slashing may refuse to
\* slash.  That error and the one of Qualifies fail the block, for good.
BeginBlock ==
    LET feedsDue == {k \in Key : feeds[k] # NoFeed /\ Due(k[1])}
        checked == {k \in feedsDue : ~Mismatch(k) /\ Qualifies(k)}
        Fail(call) == halted' = call /\ UNCHANGED <<phase, feeds, slashed>>
    IN
    /\ phase = "begin" /\ halted = "no"
    /\ \/ (\E k \in feedsDue : Mismatch(k)) /\ Fail("Qualifies")
       \/ (\E k \in checked : ~UptimeMet(k)) /\ Fail("Slash")
       \/ /\ ~\E k \in feedsDue : Mismatch(k)
          /\ \E unknown \in SUBSET checked :
                /\ feeds' = [k \in Key |-> IF k \in unknown THEN NoFeed ELSE feeds[k]]
                /\ slashed' = {k \in checked \ unknown : ~UptimeMet(k)}
          /\ phase' = "txs"
          /\ halted' = halted
    /\ UNCHANGED <<height, slas, currencyPairs, enabled, pairs, staking, reported, overwritten>>

-----------------------------------------------------------------------------
(* Messages *)

\* AddSLAs overwrites an SLA that exists, and leaves its feeds as they are.
AddSLAs(id, sla) ==
    /\ phase = "txs"
    /\ slas' = [slas EXCEPT ![id] = sla]
    /\ overwritten' = IF slas[id] # NoSLA
                         /\ slas[id].maximumViableWindow # sla.maximumViableWindow
                      THEN overwritten \cup {id} ELSE overwritten
    /\ UNCHANGED <<height, phase, feeds, currencyPairs, enabled, pairs, staking, block, halted>>

\* Mutant: the feeds of a removed SLA stay.
RemoveSLAsOnly(id) ==
    /\ phase = "txs"
    /\ slas' = [slas EXCEPT ![id] = NoSLA]
    /\ overwritten' = overwritten \ {id}
    /\ UNCHANGED <<height, phase, feeds, currencyPairs, enabled, pairs, staking, block, halted>>

\* RemoveSLAs: RemovePriceFeedsBySLA, then RemoveSLA; neither minds if there is none.
RemoveSLAs(id) ==
    /\ phase = "txs"
    /\ slas' = [slas EXCEPT ![id] = NoSLA]
    /\ overwritten' = overwritten \ {id}
    /\ feeds' = [k \in Key |-> IF k[1] = id THEN NoFeed ELSE feeds[k]]
    /\ UNCHANGED <<height, phase, currencyPairs, enabled, pairs, staking, block, halted>>

Params(on) ==
    /\ phase = "txs"
    /\ enabled' = on
    /\ UNCHANGED <<height, phase, slas, feeds, currencyPairs, pairs, staking, block, overwritten, halted>>

\* Messages of x/oracle add and remove pairs.
SetPairs(S) ==
    /\ phase = "txs"
    /\ pairs' = S
    /\ UNCHANGED <<height, phase, store, staking, block, overwritten, halted>>

\* x/staking settles the bonded validators.
EndBlock(S) ==
    /\ phase = "txs" /\ height < MaxHeight
    /\ height' = height + 1
    /\ phase' = "preblock"
    /\ bonded' = S /\ incoming' = bonded /\ signers' = incoming
    /\ reported' = [v \in Validator |-> [cp \in CurrencyPair |-> NotTracked]]
    /\ slashed' = {}
    /\ UNCHANGED <<store, pairs, overwritten, halted>>

-----------------------------------------------------------------------------
(* Genesis *)

\* GenesisState.ValidateBasic of what ExportGenesis writes (the feeds of the
\* SLAs in state).
ValidExport ==
    \A k \in Key : (feeds[k] # NoFeed /\ slas[k[1]] # NoSLA) => ~Mismatch(k) /\ k[3] # Nobody

\* The chain is exported after a block and started again.
Restart ==
    /\ phase = "preblock" /\ ValidExport
    /\ feeds' = [k \in Key |-> IF slas[k[1]] = NoSLA THEN NoFeed ELSE feeds[k]]
    /\ currencyPairs' = {k[2] : k \in {l \in Key : feeds'[l] # NoFeed}}
    /\ overwritten' = {}
    /\ UNCHANGED <<height, phase, slas, enabled, pairs, staking, block, halted>>

-----------------------------------------------------------------------------

Init ==
    /\ height = 1 /\ phase = "preblock"
    /\ slas \in [SLAID -> Terms \cup {NoSLA}]
    /\ feeds = [k \in Key |-> NoFeed]
    /\ currencyPairs = {}
    /\ enabled \in BOOLEAN
    /\ pairs \in SUBSET CurrencyPair
    /\ bonded \in ValidatorSets /\ incoming = bonded /\ signers = bonded
    /\ reported = [v \in Validator |-> [cp \in CurrencyPair |-> NotTracked]]
    /\ slashed = {}
    /\ overwritten = {} /\ halted = "no"

Next ==
    \/ PreBlock
    \/ BeginBlock
    \/ \E id \in SLAID : (\E sla \in Terms : AddSLAs(id, sla)) \/ RemoveSLAs(id)
    \/ \E on \in BOOLEAN : Params(on)
    \/ \E S \in SUBSET CurrencyPair : SetPairs(S)
    \/ \E S \in ValidatorSets : EndBlock(S)
    \/ Restart

Spec == Init /\ [][Next]_vars
-----------------------------------------------------------------------------
(* Properties *)

\* The state of x/sla is well formed; a feed is a ring of its own window.
TypeOK ==
    /\ height \in 1..MaxHeight
    /\ phase \in {"preblock", "begin", "txs"}
    /\ slas \in [SLAID -> Terms \cup {NoSLA}]
    /\ DOMAIN feeds = Key
    /\ \A k \in Key : feeds[k] # NoFeed => \E t \in Terms : feeds[k] \in FeedOf(t.maximumViableWindow)
    /\ currencyPairs \subseteq CurrencyPair /\ pairs \subseteq CurrencyPair
    /\ enabled \in BOOLEAN
    /\ overwritten \subseteq SLAID /\ halted \in {"no", "Qualifies", "Slash"}
    /\ {bonded, incoming, signers} \subseteq ValidatorSets
    /\ reported \in [Validator -> [CurrencyPair -> Status \cup {Absent, NotTracked}]]
    /\ slashed \subseteq Key

\* The statuses that a ring holds, oldest first.
Statuses(feed) ==
    [i \in 1..feed.maximumViableWindow |->
        LET b == (feed.index + i - 1) % feed.maximumViableWindow
        IN  CASE b \in feed.updateMap -> "VoteWithPrice"
              [] b \in feed.inclusionMap \ feed.updateMap -> "VoteWithoutPrice"
              [] OTHER -> "NoVote"]

ValidatorKey == SLAID \X CurrencyPair \X Validator

Promise == INSTANCE UptimeHistory WITH
    terms <- slas,
    history <- [k \in ValidatorKey |->
                   IF feeds[k] = NoFeed THEN NoFeed ELSE Statuses(feeds[k])],
    punished <- slashed \cap ValidatorKey

\* x/sla implements UptimeHistory: whatever is added, overwritten, removed or
\* restarted, each validator's ring holds what it did in its last blocks (an
\* absence being taken for a vote without a price), and BeginBlocker slashes for
\* exactly those rings that fail the terms.
KeepsPromise == Promise!Spec

\* There are only feeds of SLAs in state and of pairs that x/sla knows, so that
\* UpdatePriceFeeds finds every feed of a pair that x/oracle has removed, and a
\* pair or SLA that comes back starts with an empty window.
FeedsAreTracked ==
    \A k \in Key : feeds[k] # NoFeed => slas[k[1]] # NoSLA /\ k[2] \in currencyPairs

\* Every feed has the window of its SLA's terms, through removed and re-added SLAs
\* and pairs, returning validators and restarts: Qualifies fails BeginBlocker only
\* after AddSLAs has put another window over an SLA in state.
FeedsFitTerms ==
    \A k \in Key :
        (feeds[k] # NoFeed /\ slas[k[1]] # NoSLA /\ k[1] \notin overwritten) => ~Mismatch(k)

\* "NoVote indicates that the validator did not vote on the current block"
\* (x/sla/types/price_feed.go): that is the newest status of a bonded validator
\* that was absent, so that a block it missed does not count among its votes.
AbsentIsNoVote ==
    phase = "begin" =>
        \A k \in ValidatorKey :
            (feeds[k] # NoFeed /\ reported[k[3]][k[2]] = Absent) =>
                Statuses(feeds[k])[feeds[k].maximumViableWindow] = "NoVote"
==============================================================================

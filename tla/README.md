# A TLA+ verification project for slinky

Slinky is an oracle that runs beside and inside a Cosmos SDK chain.  A *sidecar*
(orchestrator, providers, oracle loop) collects prices from exchanges; the
*chain side* (vote extensions, proposals, PreBlocker, x/oracle) puts the prices
that validators report into their votes on one height and writes the
stake-weighted median of them at the next.  This directory models both sides in
TLA+, checks small instances with TLC, and proves with TLAPS every safety property
that the passing runs check, for all values of the constants, and that x/sla
implements its abstract specification.

`PROJECT.json` lists components, runs, mutants, the map from definitions to
source lines, findings, hazards and theorems; this file explains them.

## 1. Inventory

| component | state it keeps | operations | interacts with |
|---|---|---|---|
| x/oracle (`x/oracle`) | pair map with an id index, next id, `numCPs`, `numRemoves` | Create/Remove/SetPrice, messages, market hooks, BeginBlocker, genesis import and export | written by the PreBlocker, messages and x/marketmap hooks; read by strategies and proposals |
| vote extensions (`abci/ve`) | none of its own | ExtendVote (runs the PreBlocker, asks the sidecar, encodes), VerifyVoteExtension, ValidateVoteExtensions | PreBlocker, strategy, codec, oracle client |
| proposals (`abci/proposals`) | none | PrepareProposal prunes and injects the extended commit; ProcessProposal validates it | `abci/ve`, codec, strategy |
| PreBlocker and aggregator (`abci/preblock/oracle`, `abci/strategies/aggregator`, `pkg/math/voteweighted`) | the votes being aggregated | aggregate votes, stake-weighted median, WritePrices | strategy, x/oracle |
| currency-pair strategies (`abci/strategies/currencypair`) | per instance: an id cache and (delta) a price cache, each for one height | FromID, GetEncodedPrice, GetDecodedPrice, GetMaxNumCP | x/oracle keeper |
| base provider (`providers/base`) | ids, data, main and fetch contexts, response channel | Start's loop with fetch and recv goroutines, Update, Stop, IsRunning | query handlers; driven by the orchestrator |
| orchestrator (`oracle/orchestrator`) | providers, market map, wait group | Start, Stop, UpdateWithMarketMap, market-map listener | providers, x/marketmap client |
| query handlers (`providers/base/api`, `.../websocket`) | connections, channels | Query, Start, heartbeat, reconnect | provider's response channel |
| oracle loop, index price aggregator (`oracle`, `pkg/math/oracle`) | provider prices, index prices, last sync | tick, aggregate | providers, service |
| x/marketmap | markets, last updated, params | Create/UpdateMarkets, params, authorities, hooks | x/oracle, orchestrator |
| x/sla and its PreBlocker | SLAs and per-validator price feeds (ring buffers) | update feeds, slash at intervals | x/staking, x/oracle |
| x/alerts, x/incentives | alerts with bonds in escrow, pending incentives | submit, conclude, prune, pay or burn | x/bank, x/oracle |

What is hard here:

* *Votes are used one height later.*  An extension made at height h refers to
  pairs by id and (delta) to prices by difference; it is validated and decoded at
  h + 1, after the block has removed, added and re-added pairs and changed prices.
* *Caches outlive what they were filled for.*  The strategies cache ids and
  prices by height, while a height may have several rounds, and ExtendVote runs
  the PreBlocker on state that is thrown away.
* *Proposers and voters may misbehave*, and late votes carry extensions that no
  one has verified; none of this may halt the chain or move a price.
* *Counters mirror a map* across failing messages, hooks and restarts.
* *Provider life cycle.*  Start, Update, Stop and their goroutines share fields
  under a lock that is released between every two accesses, and the orchestrator
  does not wait for a provider it stopped.
* *One channel, many writers.*  API tasks or websocket connections write into a
  bounded channel that is read, cancelled and closed by others; responses arrive
  out of order, and some only say "unchanged".
* *Prices made of prices.*  The aggregator converts with the index prices of the
  tick before, under a market map that the orchestrator replaces at any time.
* *History in a ring.*  x/sla keeps the last blocks of each validator in bitmaps,
  while pairs, SLAs and validators come and go.

The properties that make each component correct are in section 4.

## 2. Modules

| module | models | built on |
|---|---|---|
| `OracleStore` | the x/oracle store as a record and every keeper method as an operator | |
| `OracleModule` | x/oracle driven by blocks, messages, hooks, restarts | `OracleStore` |
| `ExtendedCommit` | extended commits and their validation against the last commit | |
| `OracleABCI` | PrepareProposal, ProcessProposal, ExtendVote, VerifyVoteExtension, FinalizeBlock, over heights and rounds, with one store and two strategies per validator | `OracleStore`, `ExtendedCommit` |
| `Provider` | the life cycle of a base provider: Start, its goroutines, Update, Stop | |
| `Orchestrator` | a provider as the orchestrator drives it | `Provider` |
| `Fetch` | what happens within one fetch context: API tasks or websocket connections, the response channel, recv and the provider's data | |
| `Markets` | markets, market maps and their validation | |
| `MarketMap` | x/marketmap: messages, hooks, parameters, authorities, commits | `Markets` |
| `IndexPrice` | the oracle loop and the index price aggregator | `Markets` |
| `Sidecar` | x/marketmap, the orchestrator's listener and the oracle loop together | `MarketMap`, `IndexPrice` |
| `Alerts` | x/alerts with x/incentives: alerts, bonds, conclusions, slashes, pruning | |
| `UptimeHistory` | *abstract*: what x/sla promises, as histories of statuses | |
| `PriceFeed` | a price feed: two bitmaps and an index | |
| `SLA` | the SLA PreBlocker, x/sla and the validators of x/staking; implements `UptimeHistory` | `PriceFeed` |
| `OracleStoreProofs` | lemmas about the keeper methods, `StoreInv`, and induction | `OracleStore` |
| `OracleModuleProofs`, `OracleABCIProofs` | theorems | the module of that name, `OracleStoreProofs` |
| `OrchestratorProofs`, `FetchProofs`, `SidecarProofs`, `SLAProofs`, `AlertsProofs` | theorems | the module of that name |
| `MC...` | the instances TLC checks | |

How they correspond to the code:

**OracleStore / OracleModule.**  `store` is the collections of the keeper:
`currencyPairs` (a map, `NoPair` for no entry), the sequence
`nextCurrencyPairID`, the items `numRemoves` and `numCPs`.  A keeper method is
an operator on stores, its error the guard of the action that calls it.  A
message executes one pair per step (`AddCurrencyPairs`, `RemoveCurrencyPairs`)
on the real store, with the store it started from in `tx.saved`; a failing pair
puts that back, as the SDK drops the cached store.  `voteNum` is a history
variable: the number of pairs when the votes on the block were made.  The pair
counter is a `uint64`, so `decrementCPCounter` wraps to `MaxUint64` at zero.

**ExtendedCommit / OracleABCI.**  One height is: a proposal (`Propose` by an
honest validator, `ProposeByz` by one in `Byz`, `ProposeWithoutInfo` before
extensions are enabled), `ExtendVote` by each honest validator,
`FinalizeBlock` by all (PreBlocker, BeginBlocker, messages).  `NextRound` fails a
round.  Signatures are records of what was signed.  Prices are small integers;
`TooLong` is one over `MaximumPriceSize`, `Garbled` one that GobDecode refuses.
`preCache` and `veCache` are the two strategy instances of the simapp: the one
that the PreBlocker uses in both FinalizeBlock and ExtendVote, and the one the
vote-extension handler encodes with.  CometBFT itself is external: a block is
decided by more than two thirds of the power; the commit a validator holds
contains a verified quorum and possibly late, unverified precommits; a round can
be left only if not enough honest validators are locked on its proposal to
prevent another one from being decided.

**Provider / Orchestrator.**  A step is what happens between two accesses to shared
fields.  `pc[t]` is the position of call t of Start, `fetcher[t]` and `recver[t]`
its goroutines, `caller` the position of the caller of Update and Stop.  A context
is named by the call that made it.  `heard[t]` says whether the channel value that
the running query was given is still the provider's current one.  A query is
"blocked" when the websocket handler could not start its connection and waits to
send the error, without a select, to a channel that nobody reads
(`ws_query_handler.go:133`); it goes on when somebody receives or the channel is
closed.  `overlapped` is history: it is set when the orchestrator spawns a call of
Start beside another and cleared when none is under way.  A call of Start that has
returned may be reused for a later one, so runs are not bounded in length.  `Fetch`
is the inside of the step "query" of `Provider`: `main` is the position of fetch
itself, `pc[w]` that of a task or connection, `done` says whether the fetch context
is cancelled, `responseCh` is the buffer.  A price is named by the number of the
trade that made it; `since` is the last trade when a connection began, as an
exchange sends nothing older. The messages are those of the Coinbase adapter, the
one that keeps state from message to message and confirms prices without naming
them; `said` in `data` is history, the trade that the confirmation was about.

**Markets / MarketMap / IndexPrice / Sidecar.**  `markets` is the keeper's map,
`committed` what a query sees.  `lastUpdated` starts with any value of
`GenesisUpdated`, as InitGenesis takes what the genesis has (`genesis.go:25`).
`AfterRemoval` deletes from the list that is being ranged over, as the code does.
In the aggregator a price is abstracted to its age, the number of ticks since the
oldest provider price it is made of was fetched: conversions add one to the age of
the index price they use.  A tick is several steps (Reset, one fetch per provider,
aggregation), so that a new market map may come in the middle.  `Listen` is a poll
of the market map provider and `UpdateWithMarketMap` in one step.

**PriceFeed / SLA / UptimeHistory.**  A bitmap is the set of its bits.  A block is
`PreBlock` (GetUpdates and UpdatePriceFeeds), `BeginBlock` (ExecSLA for every SLA
that is due), messages, and `EndBlock`, in which x/staking settles the bonded
validators; their first commit is two heights later (`incoming`, `signers`).
`halted` says what made BeginBlocker fail: Qualifies, on a feed whose window is not
that of the terms, or Slash.  Which of the validators x/staking still has power for,
under the operator address that the consensus address is cast to, is its own
business: `unknown` is any subset of those that are checked.  `AddSLAs` takes any
terms for any id, as the code does; `overwritten` is history, the ids that were given
another window than they had.  `reported` is history too, and independent of
GetUpdates: what a bonded validator did in the block before, `Absent` included.
`Nobody` is the empty consensus address under which the votes of validators that
are not bonded any more are recorded.  The refinement mapping `Promise` reads the
ring of each feed as a sequence, oldest status first.  `UptimeHistory` states in one
place (`Counted`) that the code takes an absence for a vote without a price.

**Alerts.**  `alerts` is the map of the keeper, by height and pair; `bank` the
balances of the accounts and of the module account; `incentives` the entries of
x/incentives.  A block is `BeginBlock` (x/incentives executes and deletes every
incentive; `BeginBlockFails` if one of them cannot be executed, because x/staking
has no such validator any more or its Slash fails), messages (`Alert`, `Conclude`,
`UpdateParams`) and `EndBlock` (pruning).  A message that fails changes nothing and
has no step.  The signers are outside: `SignConclusion` adds a verdict about an open
alert to `signed`, and any signed one may be delivered at any later time and again.
A conclusion finds its alert by height and pair only, so it may meet another
account's alert; the incentive pays the signer that the conclusion names.
`ReadBack` is what the two conversions of big.Int that a price goes through,
GobEncode and SetBytes, make of it. `bonds` and `faults` are history variables.

## 3. Bounds

* `OracleModule`: three pairs, two prices, messages of up to two pairs (so that
  one can fail after its first pair, or name a pair twice), ids up to 5, heights
  up to 3, several geneses, with and without x/marketmap.  Each property relates
  the store to at most the previous block, and the theorems lift the bounds.
* `OracleABCI`: four validators of equal power and one of them faulty is the
  smallest instance in which a fault is tolerated.  Three heights are needed for
  a vote made on prices that votes wrote.  A thousand tokens each, so that
  the integer halving in ComputeMedian loses nothing.  `abci` has the delta strategy,
  two pairs at prices that cannot be mistaken for one another, removals and
  re-creations, oracles that may know only one of them, and faulty extensions of four
  kinds; `abci_rounds` has two rounds at height 2, one restart and oracles that
  may not answer.  The default strategy, whose encoding does not depend on the
  state, is a case of the theorems and has no run.
* `Orchestrator`: three sets of ids, and up to two calls of Start under way, which
  is enough for one to take, close or replace what the other uses; any number of
  them one after the other.
* `Fetch`: two ids; an API provider that asks for one id per tick (so that the
  index matters), one with two concurrent atomic requests, and a websocket
  provider with a buffer of one.  Two trades and two timestamps are enough for a
  response to be older than, as old as, or newer than what it meets.  Fetch
  contexts may be cancelled and begun anew without bound.
* `Sidecar`: three tickers in a chain of normalizations of length two, two
  providers, ages up to 3 (one more than the chain needs), heights up to 3, and a
  genesis whose `lastUpdated` is 0 or in the future (2).
* `SLA`: one id with two possible terms, of windows 2 and 3, one pair, three
  validators in sets that leave and return, heights up to 5: a window of two or
  three fills, wraps and is read, and an SLA can be overwritten with the other
  window.  `AlwaysKeepsPromise` lifts the bounds.
* `Alerts`: two accounts that can afford one bond each, an age limit of 2, pruning
  after 1 or 2 blocks, heights up to 4 and two verdicts: an alert can be raised,
  pruned or concluded, and raised again while its age still allows it.  uint64
  is cut to 63, above every sum of heights and limits.  The two accounts are
  symmetric.
* `CHECK_DEADLOCK FALSE` where a run ends at its last height; for the
  orchestrator, which really stops; and for `fetch`, because the code can
  really come to rest there (section 4, `CancelEndsFetch`).

## 4. Runs

| run | expect | shows |
|---|---|---|
| `oracle_module` | pass | `CounterExact`, `IDIndexConsistent`, `VotesFitAfterRemovals`, `ExportIsValidGenesis`, `NonceTellsUpdates` of x/oracle |
| `abci` | pass | with the delta strategy and one round per height: honest votes verify, also after removals; invalid late votes are pruned and the proposal accepted; an accepted block never fails in the PreBlocker; ids and deltas decode to what was reported, for the pair that was meant; a written price lies between honest reports |
| `abci_rounds` | pass | stores agree whatever the caches contain, and proposals on a commit of a later round are accepted |
| `orchestrator` | pass | with calls of Start that may overlap: only an overlap makes the provider panic; without one no query writes to a stale or closed channel and the latest ids are used; a stopped call ends unless its websocket handler is stuck |
| `fetch` | pass | a confirmed price is the price that was confirmed; timestamps, and for websockets trades, do not go back; no writer after close; a cancelled fetch ends; every id is asked for again and again |
| `sidecar` | pass | the market map is closed under normalization; polls miss no change (but for a genesis of the future); index prices are as young as their conversions allow; every enabled market of the chain is priced in the end |
| `sla` | pass | x/sla implements `UptimeHistory`; every feed can be found again; a feed has the window of its terms unless the SLA was overwritten |
| `sla_absent` | violation | an absent validator is recorded as one that voted without a price |
| `alerts` | pass | with a steady bond and age limit: the escrow is exactly the bonds of the open alerts, EndBlocker can always pay, one slash per validator and alert, exports are valid |
| `alerts_bond` | violation | an alert is settled with the bond of the current parameters, not with its own |
| `stale_delta` | violation | in a second round, a delta is taken from the price cached in the first |
| `overlap_crash` | violation | two overlapping calls of Start close one channel twice, outside any recover |

Every property of a passing run has a mutant in `PROJECT.json`: a plausible bug
in the code, as an operator next to the one it replaces, with which TLC finds the
property violated.

`overlap_crash` comes from an orchestrator that has stopped a provider and spawns
it again before the stopped call of Start has returned; `orchestrator`, with the same
calls, shows that nothing else makes a provider panic (`CrashNeedsOverlap`).

`StopEndsStart` and `CancelEndsFetch` have an exception in their statement: a
websocket connection that cannot be started sends its error without looking at its
context (`ws_query_handler.go:133`), so with a full buffer and recv gone it stays for
ever, and Provider.Start and the orchestrator's Stop with it.  A query that is stuck
in this way also keeps its old ids, which is why `QueriesUseLatestIDs` is about the
queries that go on.  It is the only exception for the context that the orchestrator
gave: when that is cancelled every call of Start ends, overlapping ones too.  For
Provider.Stop there is one more: a stopped call looks at the main context that the
field holds (`provider.go:164`), and when a successor has put its own there it goes
around again until that one is cancelled.

`LastUpdatedTells` has an exception too.  A genesis may carry a `LastUpdated` that is
not of an earlier block, as nothing compares it with the height
(`x/marketmap/keeper/genesis.go:25`, `types/genesis.go:17`); the first change after it
then gets a smaller or an equal one, and a reader that compares the two misses it.

`sla_absent`: `price_feed.go:13` says that NoVote is for a validator that "did not
vote on the current block", and `x/sla/types/README.md:19` that such a block does not
count.  GetUpdates overwrites the NoVote of every validator that the extended commit
lists (`preblock.go:182`), and CometBFT lists the absent ones too, with an empty
extension: they get VoteWithoutPrice, so that an absence counts among their votes and
against their uptime.  `KeepsPromise` is stated with the code's reading of an absence.

`FeedsFitTerms` says when BeginBlocker can fail over a window: only after an SLA in
state was overwritten with one of another window.  `msg_server.go:29` says in a
comment that SLAs "must not already exist in the store", but nothing enforces it, and
the failure is for good, as the feeds keep the window they were made with.
BeginBlocker also fails when Slash does (`x/sla/keeper/strategy.go:133`), which the
model leaves to x/slashing.

`EndBlockerPays` is about EndBlocker alone: an incentive against a validator that has
left x/staking fails BeginBlock (`x/incentives/keeper/strategy.go:62`), and as it
stays in state the chain does not get past it.

`EnabledMarketsPriced` is about valid market maps: x/marketmap validates only the
markets of a message, so disabling a market that others are normalized by is
accepted, the map as a whole is then invalid, the sidecar keeps the map it had,
and the chain's export would not be imported.

Met while modelling, without a run of their own:

* Provider: with overlapping calls the ids of Update may reach only one of them,
  since it cancels the last fetch context only (`QueriesUseLatestIDs` is about calls
  that do not overlap).  A market map that arrives
  while Start is about to return (`provider.go:124`) finds IsRunning true and
  leaves a provider with tickers and nobody running it (`update.go:62`).
* Fetch: API responses are stamped when they are parsed, so that an older price
  can carry a newer timestamp (`PricesNeverGoBack` promises only timestamps for
  API providers); atomic API providers start `limit` copies of one request per
  tick; two provider tickers with the same off-chain ticker overwrite each other.
* x/sla: votes of validators no longer bonded go to a feed with an empty address
  (`preblock/sla/preblock.go:181`), with which an export is invalid.  Such a feed is
  nobody's history and no part of `UptimeHistory`; that it is tracked and fits its
  terms is checked like that of any other.
* x/marketmap: RemoveMarketAuthorities skips the element after a deleted one
  (`msg_server.go:170`); cyclic normalization is accepted, and such markets are
  never priced (`Within` leaves them out).
* x/alerts: prices written by the currency-pair strategy start with a version
  byte that the conclusion takes for a digit (`validator_incentive_handler.go:45`);
  with pruning disabled, BlocksToPrune must be 0, so an alert's purge height is
  its submission height and ExportGenesis panics (`ExportIsValid` is about enabled
  pruning).
* x/oracle: RemoveCurrencyPairs fails on an untracked pair, where its comment
  says "skip, and continue".

## 5. Fairness

* `Orchestrator`: weak fairness of each step of Start's loop, of the fetch
  goroutine, of recv once its context is done, and of Query once its context is
  done, which then returns or blocks: the Go scheduler runs every runnable goroutine,
  the locks are held for single assignments, and the handlers select on their context
  (requests and reads have timeouts) but for the one send of
  `ws_query_handler.go:133`.  A query that blocks is not assumed to go on.  Loop and
  fetch goroutine of a call wait for each other, so that one fairness condition on
  both (`CallStep`) says the same as one on each.  The caller finishes an Update or
  Stop it has begun.  Nobody is assumed to call Start, Update or Stop, and a query is
  not assumed to end before its context does.
* `Fetch`: weak fairness of each task and connection (requests, dials and reads
  have timeouts), of fetch and of recv.  Strong fairness of `QueryDone`: Query's
  loop selects between a tick and the end of its context, and Go chooses at
  random among the cases that are ready, so the end is not passed over for ever.
  Nobody is assumed to send messages, to cancel or to trade.
* `Sidecar`: weak fairness of the loop's steps and of the listener, both driven
  by tickers.  The chain may stop, and the providers are only assumed to have
  their prices where the property says so (`<>[]reliable`).

## 6. Proofs

TLAPS proves every invariant and every action property that a passing run checks,
for all values of the constants that satisfy the named assumptions of the modules,
and the refinement of `UptimeHistory`.  There are eight modules of theorems.  What is
left to TLC alone is liveness (`QueriesUseLatestIDs`, `StopEndsStart`,
`EnabledMarketsPriced`, `CancelEndsFetch`, `EveryIDAsked`), which needs fairness and
is out of the prover's reach.

Some theorems have a hypothesis.  All but `AnyPrice`, which is about the abstraction
of prices, are needed: without them the code does otherwise, and the last column says
where that is shown.

| hypothesis | theorems | why |
|---|---|---|
| `Steady`: the default strategy, or no second rounds | `AlwaysDecodedAsReported`, `PriceAlwaysWithinHonestRange` | run `stale_delta` |
| `AnyPrice`: prices are all of `Nat` | the theorems about `OracleABCI` except `MedianInRange`, `NodesAlwaysAgree` and `PreBlockAlwaysSucceeds` | a delta can lead to any price that is not negative, and so can a median; the finite sets of the runs are chosen large enough |
| `SteadyBond`: the bond amount is not changed | `SteadyEscrowCovers`, `SteadyEndBlockerPays` | run `alerts_bond` |
| `AlwaysPruning` | `PrunedExportIsValid` | section 4: with pruning off an export is invalid |
| `SteadyAge`, `EnoughStake`: the age limit is not changed, and a validator can pay for a slash at every key | `AlwaysSlashedOnce` | section 7; Slash takes less from a validator that has less |

Assumptions on constants that carry weight: in `ABCIAssumption`, validators in
`Byz` have less than a third of the power and of the tokens, the validators are
sorted as CometBFT sorts them, and there are more than 1000 tokens in all, since
ComputeMedian halves in integers (validators bond millions).  The other
assumptions say that nil values are none of the values and that bounds are natural
numbers.

**Recursive functions.**  Where a handler loops over what it has itself changed (the
messages and the incentives of a block, the departed voters of a feed, the authorities
to remove, sums of power and tokens, chains of conversions), the model has a recursive
function on numbers.  The library's induction theorems take an operator, which the
provers cannot instantiate; the proofs instead define the set of indices at which a
claim fails and show that it has no least element (`LeastNatural`, `UpTo`, and
`Runs` or `Iterate` for what the function computes at each index).  These few lemmas
are repeated in the modules that need them, because modules with constants of the
same name cannot extend one another.

**x/oracle** (`OracleStoreProofs`, `OracleModuleProofs`).  All five properties of run
`oracle_module` and the types.  The properties are not inductive on their own:
`CounterExact` is lost if a failed message puts back a store whose counter was
wrong, and `VotesFitAfterRemovals` is about the start of a block while its argument
runs through the whole block.  `IInv` is therefore: types; `StoreInv` (exact
counter, unique ids below the next id, a nonce only with a price) of the store *and*
of the saved store of a message under way; `VotesFit` (`voteNum <= numCPs +
numRemoves`, without BeginBlock's reset in between) of both.  Each keeper method has
a lemma that it keeps `StoreInv` and how it changes the two counters
(`RemoveLemma`: what it takes from `numCPs` it adds to `numRemoves`).  They are in
`OracleStoreProofs`, which the proofs about `OracleABCI` use too.

**The ABCI handlers** (`OracleABCIProofs`), the longest argument:

* `MedianInRange`: voters that reach 0.667 of the tokens have more than two thirds of
  them, so that half of their weight is more than the tokens of `Byz`: the votes
  up to the median have an honest one among them, and the honest votes alone reach the
  median, so that the largest of them is not below it.
* `PreBlockAlwaysSucceeds`: what ValidateOracleVoteExtension and
  ValidateVoteExtensions refuse covers what the PreBlocker fails on.
* `NodesAlwaysAgree`, from `AgreeInv`: a cache that a validator's PreBlocker filled
  at this height was filled from the committed store, which no round changes, so
  that it makes no difference whether a validator has it.
* `ChainInv` adds: the proposal is an authentic commit that the PreBlocker takes,
  the stores satisfy `StoreInv`, honest extensions have at most as many prices as
  there were pairs in the store they were made on, and `last.maxNumCP <= numCPs + numRemoves`,
  by which an extension still fits after a block of removals.  From it come the
  types, `HonestExtensionAlwaysVerifies` and `HonestProposalAlwaysAccepted`; the latter
  needs that pruning keeps all votes of an honest quorum, in order, and that the
  pruned commit passes the same validation.
* `SteadyInv`: what an honest extension says is what was reported, encoded against
  the state after the PreBlocker of this round, and one height later against the
  committed state.  The decoding of FinalizeBlock then inverts the encoding, also for
  ids of pairs that were removed (`NamesOld`: a new pair never takes an old id).

**Provider and orchestrator** (`OrchestratorProofs`), for any number of calls of Start.
`ProviderInv`: the types; the goroutines of a call run only while its loop waits for
them (`GoroutinesWait`, whether calls overlap or not); and unless calls have
overlapped they are apart (`CallsApart`): at most one is under way, a channel that was
made for its fetch goroutine is open until that goroutine closes it, and a query,
stuck or not, has that channel.  When the last of overlapping calls returns,
`GoroutinesWait` is what makes them apart again.

**Fetch** (`FetchProofs`), for any number of ids, tasks and connections and buffers
of any size.  `AllIdle` (nobody is left from the moment Query has waited for its tasks)
gives `NoWriterAfterClose`.  `FetchTypes` gives the types.  `PriceInv` is about
websockets, and has four parts for each id: data, buffer and the response being
written are in the order of trades and times (`InOrder`); every "unchanged" is
preceded by its price, in the data or in the buffer (`Confirmed`); a connection that
reads is past every trade that is in the data or under way (`Ahead`); and the price
of the trade that a handler remembers is not lost while the context lasts (`Kept`).
None of them is inductive without the others, and they need that an id belongs to
one connection only (`SplitIs`: the pieces of ids are disjoint).  `UnchangedIsTrue`
and `PricesNeverGoBack` follow.  For API providers confirmations name no trade, and
the order of timestamps is that of updateData alone.

**x/marketmap, oracle loop, index prices** (`SidecarProofs`).  `MapInv` adds the
type of the map to `NormalizationExists` and `MarketsHavePairs`: a message checks
its own markets against the new map, and the others stay good because no market is
ever removed.  `HeightInv` is what `LastUpdatedTells` needs: the committed update is
older than the open block or the one of the genesis, and the open map differs from
the committed one only if a message of this block has set `lastUpdated`.
`ChainWithSidecar` (`Spec => ChainSpec`) carries all of it to the composition.
`AgeBounded` is inductive together with the types of the loop: `WithinIs` unfolds
the number of conversions of a ticker, `AdjustedPrice` and `MedianIs` say that a
conversion adds one to the age of the index price it uses and that a median is one
of its arguments.

**x/sla** (`SLAProofs`).  `FeedsAreTracked` from `Tracked`; the types from `SLAInv`;
`FeedsAlwaysFitTerms` from `WindowInv` (a feed has the window of the SLA in state,
unless that was overwritten).
`AlwaysKeepsPromise` is the refinement: `RingKeepsHistory` says that SetUpdate moves
what the ring says by exactly the status recorded, for every window (`BitsMove` does
the arithmetic of the wrap-around), and each action is a step of `UptimeHistory` or a
stutter.  It needs `RefineInv`: in every feed `updateMap` is a subset of
`inclusionMap`, otherwise the counts that BeginBlocker takes from the bitmaps would
not be those of the statuses.

**x/alerts and x/incentives** (`AlertsProofs`).  `EscrowInv`: each open alert has one
bond of the current amount, and the module account exactly as many, which makes each
payment of EndBlocker covered (a count of a finite set that drops by one with each
alert).  `PrunedInv`: between blocks no alert is past its purge height.  `SlashInv`:
the stake of a validator and its pending incentives account for its faults, and every
fault is of an alert that is `Over`, that is, concluded and in state until its purge
height, or gone and by then too old to be raised again.

## 7. Not modelled, and the plan

Not modelled in what is there: logging, metrics, wire formats and compression (a
vote extension decodes or does not), a validator set that changes, block size
limits, the wrapped application handlers, recovered panics of ExtendVote, the
data that travels through a provider's channel.

`Alerts` fixes two things: `SlashedOnce` is about
a steady MaxBlockAge (raising it after a concluded alert was purged lets the same
alert be raised again), and Slash takes the same amount for every infraction, as it is
given the power in the vote.  Prices are of one byte in `ReadBack`; no property depends
on their size.

`Fetch` leaves out the ping goroutine, update messages sent in answer to a message,
and every adapter but Coinbase's, as they parse messages without a protocol of
their own.  `IndexPrice` leaves out the values of prices (the arithmetic of
medians and scaling), the start and stop of the loop and recovered panics, after
which a tick leaves the old prices.  `SLA` leaves out the amount of a slash, which
x/slashing decides, and the rounding of the uptime to 18 digits.

Not modelled at all: the gRPC service and its clients, the command line,
configuration, metrics, and generated code (the `*.pulsar.go` and `*.pb.go` files
and the market constants are most of the lines of the repository, and hold no
logic of their own).

Next, in this order:

1. An abstract specification of the oracle (each price is one that lies between
   honest reports of the previous height) that `OracleABCI` implements, on top of
   `PriceAlwaysWithinHonestRange`.
2. Proposals: injectAndResize against its size limit; the hash strategy.
3. The ping goroutine of `Fetch`.  (Its theorems are about any number of connections;
   the run has one.)

---------------------------- MODULE OracleModule ----------------------------
(***************************************************************************)
(* The x/oracle module driven by blocks.  A block is: the oracle PreBlocker *)
(* writes the aggregated prices, BeginBlocker clears numRemoves, messages   *)
(* and marketmap hooks create and remove pairs, and the block is committed. *)
(* Messages run one currency pair at a time, and one that fails puts back   *)
(* the store it started from (the SDK runs a message in a cached store).    *)
(***************************************************************************)
EXTENDS OracleStore

CONSTANTS
    Geneses,           \* the genesis states a chain may be started from
    MaxHeight,         \* bound: last height of a run
    MaxID,             \* bound: currency-pair ids handed out in a run
    MaxMsg,            \* bound: currency pairs in one message
    NoTx               \* no message is being executed

\* A message under way: its pairs (msg), those left to handle (todo), and the
\* store to go back to if it fails (saved).
Tx == [kind : {"Add", "Remove"}, msg : Seq(CurrencyPair),
       todo : Seq(CurrencyPair), saved : Store]

ASSUME ModuleAssumption ==
    /\ Geneses \subseteq Genesis
    /\ MaxHeight \in Nat /\ MaxID \in Nat /\ MaxMsg \in Nat
    /\ NoTx \notin Tx

VARIABLES
    mmKeeper,   \* is the keeper built with an x/marketmap keeper?
    store,      \* the x/oracle store, the writes of the open block included
    phase,      \* what the open block does next
    height,     \* height of the open block
    tx,         \* the message under way, or NoTx
    voteNum     \* history: numCPs of the store that the votes on the open
                \* block, or on the last one between blocks, were made with

vars == <<mmKeeper, store, phase, height, tx, voteNum>>

Phases == {"PreBlock", "BeginBlock", "Deliver"}

\* The keeper methods, the messages and the hooks keep the store's types: every
\* pair has an id and a nonce, and a price or none; counters are never negative.
TypeOK ==
    /\ mmKeeper \in BOOLEAN
    /\ store \in Store
    /\ phase \in Phases
    /\ height \in Nat
    /\ tx = NoTx \/ tx \in Tx
    /\ voteNum \in Nat

-----------------------------------------------------------------------------

Start(g) ==
    /\ mmKeeper \in BOOLEAN
    /\ ValidGenesis(g)          \* InitGenesis panics otherwise
    /\ store = InitGenesis(g)
    /\ phase = "PreBlock"
    /\ height = 1
    /\ tx = NoTx
    /\ voteNum = 0             \* no votes yet

Init == \E g \in Geneses : Start(g)

-----------------------------------------------------------------------------

\* The aggregated prices are any prices, for pairs in state or not; there are
\* none when vote extensions are disabled.
PreBlock ==
    /\ phase = "PreBlock" /\ height < MaxHeight
    /\ \E prices \in [CurrencyPair -> Price \cup {NoPrice}] :
          store' = WritePrices(store, prices)
    /\ phase' = "BeginBlock"
    /\ voteNum' = store.numCPs
    /\ UNCHANGED <<mmKeeper, height, tx>>

BeginBlock ==
    /\ phase = "BeginBlock"
    /\ store' = BeginBlocker(store)
    /\ phase' = "Deliver"
    /\ UNCHANGED <<mmKeeper, height, tx, voteNum>>

Idle == phase = "Deliver" /\ tx = NoTx

\* A message of the module's authority; any other signer gets an error, and so
\* does every signer when x/marketmap is in use.
StartMsg(kind, cps) ==
    /\ Idle /\ ~mmKeeper
    /\ tx' = [kind |-> kind, msg |-> cps, todo |-> cps, saved |-> store]
    /\ UNCHANGED <<mmKeeper, store, phase, height, voteNum>>

Msgs == UNION {[1..n -> CurrencyPair] : n \in 1..MaxMsg}

MsgAddCurrencyPairs == \E cps \in Msgs : StartMsg("Add", cps)

MsgRemoveCurrencyPairs == \E cps \in Msgs : StartMsg("Remove", cps)

Current(kind) == tx # NoTx /\ tx.kind = kind /\ tx.todo # <<>>

\* AddCurrencyPairs: one turn of its loop; a pair that exists is skipped.
AddCurrencyPairs ==
    /\ Current("Add")
    /\ LET cp == Head(tx.todo)
       IN  IF HasCurrencyPair(store, cp)
           THEN store' = store
           ELSE /\ store.nextCurrencyPairID < MaxID
                /\ store' = CreateCurrencyPair(store, cp)
    /\ tx' = [tx EXCEPT !.todo = Tail(@)]
    /\ UNCHANGED <<mmKeeper, phase, height, voteNum>>

\* RemoveCurrencyPairs: one turn of its loop; a pair that does not exist fails
\* the message.
RemoveCurrencyPairs ==
    /\ Current("Remove")
    /\ LET cp == Head(tx.todo)
       IN  IF HasCurrencyPair(store, cp)
           THEN /\ store' = RemoveCurrencyPair(store, cp)
                /\ tx' = [tx EXCEPT !.todo = Tail(@)]
           ELSE store' = tx.saved /\ tx' = NoTx
    /\ UNCHANGED <<mmKeeper, phase, height, voteNum>>

EndMsg ==
    /\ tx # NoTx /\ tx.todo = <<>>
    /\ tx' = NoTx
    /\ UNCHANGED <<mmKeeper, store, phase, height, voteNum>>

\* The x/marketmap hook: a new market creates its pair.  For a pair that
\* exists the hook fails, and with it the message that created the market.
AfterMarketCreated ==
    /\ Idle /\ mmKeeper
    /\ store.nextCurrencyPairID < MaxID
    /\ \E cp \in CurrencyPair :
          /\ ~HasCurrencyPair(store, cp)
          /\ store' = CreateCurrencyPair(store, cp)
    /\ UNCHANGED <<mmKeeper, phase, height, tx, voteNum>>

Commit ==
    /\ Idle
    /\ phase' = "PreBlock"
    /\ height' = height + 1
    /\ UNCHANGED <<mmKeeper, store, tx, voteNum>>

\* The chain is stopped after a commit, exported and started from the export.
Restart ==
    /\ phase = "PreBlock" /\ height < MaxHeight
    /\ ValidGenesis(ExportGenesis(store))
    /\ store' = InitGenesis(ExportGenesis(store))
    /\ voteNum' = 0
    /\ UNCHANGED <<mmKeeper, phase, height, tx>>

Next ==
    \/ PreBlock
    \/ BeginBlock
    \/ MsgAddCurrencyPairs
    \/ MsgRemoveCurrencyPairs
    \/ AddCurrencyPairs
    \/ RemoveCurrencyPairs
    \/ EndMsg
    \/ AfterMarketCreated
    \/ Commit
    \/ Restart

Spec == Init /\ [][Next]_vars
-----------------------------------------------------------------------------
(* Properties *)

\* numCPs counts the pairs in state, at every point of a block: SetPrice,
\* Create, Remove, a failed message and a genesis import keep the counter and
\* the map in step, so decrementCPCounter never wraps.
CounterExact == store.numCPs = Cardinality(GetAllCurrencyPairs(store))

\* The id index sends the id of a pair back to that pair, and the next id is
\* above every id in use: a price reported under an id is never written to
\* another pair.
IDIndexConsistent ==
    \A cp \in GetAllCurrencyPairs(store) :
        /\ MatchExact(store, GetIDForCurrencyPair(store, cp)) = {cp}
        /\ GetIDForCurrencyPair(store, cp) < store.nextCurrencyPairID

\* When the votes on a block are put in a proposal, numCPs + numRemoves is at
\* least the number of pairs there was when they were made (GetMaxNumCP): a
\* vote with a price for every pair is not too long after any removals.
VotesFitAfterRemovals ==
    phase = "PreBlock" => voteNum <= store.numCPs + store.numRemoves

\* A chain can be restarted from its own export at any block: Validate accepts
\* what ExportGenesis writes (unique ids below the next id, a nonce only with
\* a price).
ExportIsValidGenesis == ValidGenesis(ExportGenesis(store))

\* Outside a message that is rolled back, a pair that stays in state keeps its
\* id, and its price only changes together with its nonce, which goes up by
\* one: a reader that compares nonces misses no price update.
NonceTellsUpdates ==
    [][\A cp \in GetAllCurrencyPairs(store) \cap GetAllCurrencyPairs(store') :
          LET old == store.currencyPairs[cp]
              new == store'.currencyPairs[cp]
          IN  tx = NoTx =>
                 /\ new.id = old.id
                 /\ new = old \/ new.nonce = old.nonce + 1]_vars
=============================================================================

------------------------- MODULE OracleModuleProofs -------------------------
(***************************************************************************)
(* Proofs about OracleModule, for every set of currency pairs, every       *)
(* genesis and every bound.                                                *)
(***************************************************************************)
EXTENDS OracleModule, OracleStoreProofs

\* The last conjunct of VotesFitAfterRemovals, for a store.
VotesFit(s) == voteNum <= s.numCPs + s.numRemoves

\* The inductive invariant.  The rollback store carries the same facts as the
\* store, and the slots for votes are exact between PreBlock and BeginBlock,
\* where the numRemoves of the previous block is about to be cleared.
IInv ==
    /\ TypeOK
    /\ StoreInv(store)
    /\ phase # "BeginBlock" => VotesFit(store)
    /\ phase = "BeginBlock" => voteNum = store.numCPs
    /\ tx # NoTx => /\ phase = "Deliver"
                    /\ StoreInv(tx.saved)
                    /\ VotesFit(tx.saved)

-----------------------------------------------------------------------------
(* The inductive invariant *)

\* InitGenesis on a valid genesis establishes the inductive invariant.
LEMMA InitInv == Init => IInv
<1> SUFFICES ASSUME NEW g \in Geneses, Start(g)  PROVE IInv
  BY DEF Init
<1>1. g \in Genesis /\ ValidGenesis(g)  BY ModuleAssumption DEF Start
<1>2. StoreInv(store)  BY <1>1, GenesisLemma DEF Start
<1> QED  BY <1>2 DEF Start, IInv, TypeOK, StoreInv, VotesFit, Phases, Store

\* Every handler, and every turn of the loop of a message, keeps it.
LEMMA NextInv == IInv /\ [Next]_vars => IInv'
<1> SUFFICES ASSUME IInv, [Next]_vars  PROVE IInv'
  OBVIOUS
<1> USE DEF IInv
<1>1. CASE PreBlock
  <2>1. PICK prices \in [CurrencyPair -> Price \cup {NoPrice}] :
           store' = WritePrices(store, prices)
    BY <1>1 DEF PreBlock
  <2>2. StoreInv(store') /\ store'.numCPs = store.numCPs
    BY <2>1, WriteLemma
  <2>3. tx = NoTx  BY <1>1 DEF PreBlock
  <2> QED  BY <1>1, <2>2, <2>3 DEF PreBlock, TypeOK, StoreInv, Phases, Store
<1>2. CASE BeginBlock
  <2>1. StoreInv(store') /\ store'.numCPs = store.numCPs /\ store'.numRemoves = 0
    BY <1>2, BeginLemma DEF BeginBlock
  <2>2. tx = NoTx  BY <1>2 DEF BeginBlock
  <2> QED  BY <1>2, <2>1, <2>2
           DEF BeginBlock, TypeOK, StoreInv, VotesFit, Phases, Store
<1>3. ASSUME NEW cps \in Msgs, NEW kind \in {"Add", "Remove"}, StartMsg(kind, cps)
      PROVE  IInv'
  <2>1. cps \in Seq(CurrencyPair)  BY ModuleAssumption DEF Msgs
  <2>2. tx' \in Tx  BY <1>3, <2>1 DEF StartMsg, Tx, StoreInv
  <2>3. tx'.saved = store  BY <1>3 DEF StartMsg
  <2> QED  BY <1>3, <2>2, <2>3 DEF StartMsg, Idle, TypeOK, StoreInv, VotesFit
<1>4. ASSUME NEW kind, Current(kind)
      PROVE  /\ tx \in Tx
             /\ Head(tx.todo) \in CurrencyPair
             /\ [tx EXCEPT !.todo = Tail(@)] \in Tx
             /\ [tx EXCEPT !.todo = Tail(@)].saved = tx.saved
  <2>1. tx \in Tx  BY <1>4 DEF Current, TypeOK
  <2>2. tx.todo \in Seq(CurrencyPair) /\ tx.todo # <<>>  BY <1>4, <2>1 DEF Current, Tx
  <2>3. Head(tx.todo) \in CurrencyPair /\ Tail(tx.todo) \in Seq(CurrencyPair)
    BY <2>2
  <2> QED  BY <2>1, <2>3 DEF Tx
<1>5. CASE AddCurrencyPairs
  <2> DEFINE cp == Head(tx.todo)
  <2>1. /\ tx \in Tx /\ cp \in CurrencyPair
        /\ tx' \in Tx /\ tx'.saved = tx.saved
        /\ tx # NoTx
    BY <1>4, <1>5 DEF AddCurrencyPairs, Current
  <2>2. StoreInv(store') /\ VotesFit(store)'
    <3>1. CASE HasCurrencyPair(store, cp)
      BY <1>5, <2>1, <3>1 DEF AddCurrencyPairs, VotesFit
    <3>2. CASE ~HasCurrencyPair(store, cp)
      <4>1. store' = CreateCurrencyPair(store, cp)
        BY <1>5, <3>2 DEF AddCurrencyPairs
      <4>2. /\ StoreInv(store')
            /\ store'.numCPs = store.numCPs + 1
            /\ store'.numRemoves = store.numRemoves
        BY <2>1, <3>2, <4>1, CreateLemma
      <4> QED  BY <1>5, <2>1, <4>2
               DEF AddCurrencyPairs, VotesFit, TypeOK, StoreInv, Store
    <3> QED  BY <3>1, <3>2
  <2> QED  BY <1>5, <2>1, <2>2 DEF AddCurrencyPairs, TypeOK, StoreInv, VotesFit
<1>6. CASE RemoveCurrencyPairs
  <2> DEFINE cp == Head(tx.todo)
  <2>1. tx \in Tx /\ cp \in CurrencyPair /\ tx # NoTx
    BY <1>4, <1>6 DEF RemoveCurrencyPairs, Current
  <2>2. CASE HasCurrencyPair(store, cp)
    <3>1. store' = RemoveCurrencyPair(store, cp) /\ tx' = [tx EXCEPT !.todo = Tail(@)]
      BY <1>6, <2>2 DEF RemoveCurrencyPairs
    <3>2. tx' \in Tx /\ tx'.saved = tx.saved
      BY <1>4, <1>6, <3>1 DEF RemoveCurrencyPairs
    <3>3. /\ StoreInv(store')
          /\ store'.numCPs + 1 = store.numCPs
          /\ store'.numRemoves = store.numRemoves + 1
      BY <2>1, <2>2, <3>1, RemoveLemma
    <3>4. VotesFit(store)'
      BY <1>6, <2>1, <3>3 DEF RemoveCurrencyPairs, VotesFit, TypeOK, StoreInv, Store
    <3> QED  BY <1>6, <2>1, <3>2, <3>3, <3>4
             DEF RemoveCurrencyPairs, TypeOK, StoreInv, VotesFit
  <2>3. CASE ~HasCurrencyPair(store, cp)
    <3>1. store' = tx.saved /\ tx' = NoTx
      BY <1>6, <2>3 DEF RemoveCurrencyPairs
    <3> QED  BY <1>6, <2>1, <3>1 DEF RemoveCurrencyPairs, TypeOK, StoreInv, VotesFit
  <2> QED  BY <2>2, <2>3
<1>7. CASE EndMsg
  BY <1>7 DEF EndMsg, TypeOK, StoreInv, VotesFit
<1>8. CASE AfterMarketCreated
  <2>1. PICK cp \in CurrencyPair : /\ ~HasCurrencyPair(store, cp)
                                   /\ store' = CreateCurrencyPair(store, cp)
    BY <1>8 DEF AfterMarketCreated
  <2>2. /\ StoreInv(store')
        /\ store'.numCPs = store.numCPs + 1
        /\ store'.numRemoves = store.numRemoves
    BY <2>1, CreateLemma
  <2>3. VotesFit(store)'
    BY <1>8, <2>2 DEF AfterMarketCreated, Idle, VotesFit, TypeOK, StoreInv, Store
  <2> QED  BY <1>8, <2>2, <2>3 DEF AfterMarketCreated, Idle, TypeOK, StoreInv, VotesFit
<1>9. CASE Commit
  BY <1>9 DEF Commit, Idle, TypeOK, StoreInv, VotesFit, Phases
<1>10. CASE Restart
  <2>1. ExportGenesis(store) \in Genesis
    BY DEF ExportGenesis, Genesis, StoreInv, Store
  <2>2. StoreInv(store')
    BY <1>10, <2>1, GenesisLemma DEF Restart
  <2>3. voteNum' = 0 /\ tx = NoTx
    BY <1>10 DEF Restart
  <2> QED  BY <1>10, <2>2, <2>3 DEF Restart, TypeOK, StoreInv, VotesFit, Store
<1>11. CASE UNCHANGED vars
  BY <1>11 DEF vars, TypeOK, StoreInv, VotesFit
<1> QED
  BY <1>1, <1>2, <1>3, <1>5, <1>6, <1>7, <1>8, <1>9, <1>10, <1>11
     DEF Next, MsgAddCurrencyPairs, MsgRemoveCurrencyPairs

\* The inductive invariant holds in every reachable state.
THEOREM Invariant == Spec => []IInv
BY InitInv, NextInv, PTL DEF Spec

-----------------------------------------------------------------------------
(* The properties of OracleModule *)

\* The types of the module's state are kept by every handler.
THEOREM TypeCorrect == Spec => []TypeOK
<1>1. IInv => TypeOK  BY DEF IInv
<1> QED  BY Invariant, <1>1, PTL

\* numCPs counts the pairs in state in every reachable state, so the uint64
\* decrement of RemoveCurrencyPair never wraps.
THEOREM CounterIsExact == Spec => []CounterExact
<1>1. IInv => CounterExact  BY DEF IInv, StoreInv, CounterExact
<1> QED  BY Invariant, <1>1, PTL

\* ids in use are unique and below the next id in every reachable state.
THEOREM IDIndexIsConsistent == Spec => []IDIndexConsistent
<1>1. IInv => IDIndexConsistent
  <2> SUFFICES ASSUME StoreInv(store), NEW cp \in GetAllCurrencyPairs(store)
               PROVE  /\ MatchExact(store, GetIDForCurrencyPair(store, cp)) = {cp}
                      /\ GetIDForCurrencyPair(store, cp) < store.nextCurrencyPairID
    BY DEF IInv, IDIndexConsistent
  <2> QED  BY DEF StoreInv, ValidGenesis, ExportGenesis, GenesisPairs, MatchExact,
                  GetAllCurrencyPairs, GetIDForCurrencyPair
<1> QED  BY Invariant, <1>1, PTL

\* A vote with a price for every pair of the state it was made with fits the
\* limit of GetMaxNumCP in the next proposal, whatever the block removed.
THEOREM VotesAlwaysFit == Spec => []VotesFitAfterRemovals
<1>1. IInv => VotesFitAfterRemovals
  BY DEF IInv, VotesFit, VotesFitAfterRemovals
<1> QED  BY Invariant, <1>1, PTL

\* A chain can always be restarted from its own export.
THEOREM ExportIsAlwaysValid == Spec => []ExportIsValidGenesis
<1>1. IInv => ExportIsValidGenesis  BY DEF IInv, StoreInv, ExportIsValidGenesis
<1> QED  BY Invariant, <1>1, PTL

\* A pair that stays in state keeps its id, and its price changes only with
\* its nonce.
THEOREM NonceAlwaysTells == Spec => NonceTellsUpdates
<1> DEFINE Step ==
      \A cp \in GetAllCurrencyPairs(store) \cap GetAllCurrencyPairs(store') :
          LET old == store.currencyPairs[cp]
              new == store'.currencyPairs[cp]
          IN  tx = NoTx =>
                 /\ new.id = old.id
                 /\ new = old \/ new.nonce = old.nonce + 1
<1>1. IInv /\ [Next]_vars => [Step]_vars
  <2> SUFFICES ASSUME IInv, Next, tx = NoTx,
                      NEW cp \in GetAllCurrencyPairs(store) \cap GetAllCurrencyPairs(store')
               PROVE  \/ store'.currencyPairs[cp] = store.currencyPairs[cp]
                      \/ /\ store'.currencyPairs[cp].id = store.currencyPairs[cp].id
                         /\ store'.currencyPairs[cp].nonce = store.currencyPairs[cp].nonce + 1
    BY DEF Next
  <2>1. cp \in CurrencyPair /\ HasCurrencyPair(store, cp) /\ store \in Store
    BY DEF GetAllCurrencyPairs, HasCurrencyPair, IInv, TypeOK
  <2>2. CASE PreBlock
    <3>1. PICK prices \in [CurrencyPair -> Price \cup {NoPrice}] :
             store' = WritePrices(store, prices)
      BY <2>2 DEF PreBlock
    <3>2. store'.currencyPairs[cp] =
             IF prices[cp] # NoPrice
             THEN SetPriceForCurrencyPair(store, cp, prices[cp]).currencyPairs[cp]
             ELSE store.currencyPairs[cp]
      BY <2>1, <3>1 DEF WritePrices, Store
    <3>3. SetPriceForCurrencyPair(store, cp, prices[cp]).currencyPairs[cp] =
             [id |-> store.currencyPairs[cp].id,
              nonce |-> store.currencyPairs[cp].nonce + 1, price |-> prices[cp]]
      BY <2>1 DEF SetPriceForCurrencyPair, Store, PairMap
    <3> QED  BY <3>2, <3>3
  <2>3. CASE BeginBlock  BY <2>1, <2>3 DEF BeginBlock, BeginBlocker, Store
  <2>4. CASE AfterMarketCreated
    <3>1. PICK new \in CurrencyPair : /\ ~HasCurrencyPair(store, new)
                                      /\ store' = CreateCurrencyPair(store, new)
      BY <2>4 DEF AfterMarketCreated
    <3>2. new # cp  BY <2>1, <3>1
    <3> QED  BY <2>1, <3>1, <3>2 DEF CreateCurrencyPair, Store, PairMap
  <2>5. CASE MsgAddCurrencyPairs \/ MsgRemoveCurrencyPairs \/ EndMsg \/ Commit
    BY <2>5 DEF MsgAddCurrencyPairs, MsgRemoveCurrencyPairs, StartMsg, EndMsg, Commit
  <2>6. CASE Restart
    BY <2>6 DEF Restart, InitGenesis, ExportGenesis
  <2>7. ~AddCurrencyPairs /\ ~RemoveCurrencyPairs
    BY DEF AddCurrencyPairs, RemoveCurrencyPairs, Current
  <2> QED  BY <2>2, <2>3, <2>4, <2>5, <2>6, <2>7 DEF Next
<1>2. NonceTellsUpdates <=> [][Step]_vars
  BY DEF NonceTellsUpdates
<1> QED  BY Invariant, <1>1, <1>2, PTL DEF Spec
=============================================================================

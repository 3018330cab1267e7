-------------------------- MODULE OracleStoreProofs --------------------------
(***************************************************************************)
(* Lemmas about the keeper methods of x/oracle, for the proofs about the   *)
(* module on its own (OracleModuleProofs) and about the chain              *)
(* (OracleABCIProofs).                                                     *)
(***************************************************************************)
EXTENDS OracleStore, FiniteSetTheorems, TLAPS

\* What every store of the module satisfies, the rollback store of a message
\* included: the parts of the inductive invariant that speak of one store.
StoreInv(s) ==
    /\ s \in Store
    /\ s.numCPs = Cardinality(GetAllCurrencyPairs(s))
    /\ ValidGenesis(ExportGenesis(s))

-----------------------------------------------------------------------------
(* Induction *)

\* A set of naturals that is not empty has a least element: the form in which
\* the proofs do induction, on the least counterexample.
LEMMA LeastNatural ==
    ASSUME NEW T, T \subseteq Nat, T # {}
    PROVE  \E n \in T : \A m \in T : n <= m
<1>1. PICK n \in T : \A m \in T : ~ (<<m, n>> \in OpToRel(<, Nat))
  BY NatLessThanWellFounded, WFMin, Zenon
<1>2. \A m \in T : ~(m < n)
  BY <1>1 DEF OpToRel
<1> QED
  BY <1>2

\* Induction up to N: a set that has 0, and i + 1 with every i below N, has all.
LEMMA UpTo ==
    ASSUME NEW N \in Nat, NEW T, 0 \in T, \A i \in 0..(N - 1) : i \in T => i + 1 \in T
    PROVE  \A i \in 0..N : i \in T
<1> DEFINE Out == {i \in 0..N : i \notin T}
<1> SUFFICES ASSUME Out # {} PROVE FALSE
  OBVIOUS
<1>1. Out \subseteq Nat
  OBVIOUS
<1>2. PICK n \in Out : \A m \in Out : n <= m
  BY <1>1, LeastNatural, Zenon
<1>3. n - 1 \in 0..(N - 1) /\ n - 1 \notin Out
  BY <1>2
<1> QED
  BY <1>2, <1>3

\* The runs of N steps from x in S, step i being the function F[i].
Runs(N, S, x, F) ==
    {g \in [0..N -> S] : g[0] = x /\ \A i \in 1..N : g[i] = F[i][g[i - 1]]}

\* There is one, however many steps.
LEMMA Iterate ==
    ASSUME NEW N \in Nat, NEW S, NEW x \in S, NEW F \in [1..N -> [S -> S]]
    PROVE  \E g : g \in Runs(N, S, x, F)
<1> DEFINE Good(n, g) == /\ g \in [0..n -> S]
                         /\ g[0] = x /\ \A i \in 1..n : g[i] = F[i][g[i - 1]]
           T == {n \in 0..N : \E g : Good(n, g)}
<1>1. 0 \in T
  <2>1. Good(0, [i \in 0..0 |-> x])
    OBVIOUS
  <2> HIDE DEF Good
  <2> QED
    BY <2>1
<1>2. ASSUME NEW n \in 0..(N - 1), n \in T
      PROVE  n + 1 \in T
  <2>1. PICK g : Good(n, g)
    <3> HIDE DEF Good
    <3> QED
      BY <1>2
  <2> DEFINE h == [i \in 0..(n + 1) |-> IF i = n + 1 THEN F[n + 1][g[n]] ELSE g[i]]
  <2>2. g[n] \in S /\ F[n + 1] \in [S -> S]
    BY <2>1
  <2>3. h \in [0..(n + 1) -> S]
    BY <2>1, <2>2
  <2>4. h[0] = x /\ h[n + 1] = F[n + 1][h[n]]
    BY <2>1
  <2>5. ASSUME NEW i \in 1..n
        PROVE  h[i] = F[i][h[i - 1]]
    <3>1. h[i] = g[i] /\ h[i - 1] = g[i - 1]
      OBVIOUS
    <3> QED
      BY <2>1, <3>1
  <2>6. Good(n + 1, h)
    <3> HIDE DEF h
    <3>1. \A i \in 1..(n + 1) : i = n + 1 \/ i \in 1..n
      OBVIOUS
    <3>2. \A i \in 1..(n + 1) : h[i] = F[i][h[i - 1]]
      <4> SUFFICES ASSUME NEW i \in 1..(n + 1) PROVE h[i] = F[i][h[i - 1]]
        OBVIOUS
      <4>1. CASE i = n + 1
        BY <2>4, <4>1
      <4> QED
        BY <2>5, <3>1, <4>1
    <3> QED
      BY <2>3, <2>4, <3>2
  <2> HIDE DEF Good
  <2> QED
    BY <2>6
<1>3. N \in T
  <2>1. \A n \in 0..(N - 1) : n \in T => n + 1 \in T
    BY <1>2
  <2> HIDE DEF T
  <2>2. \A i \in 0..N : i \in T
    BY <1>1, <2>1, UpTo, Zenon
  <2> QED
    BY <2>2
<1>4. PICK g : Good(N, g)
  <2> HIDE DEF Good
  <2> QED
    BY <1>3
<1> QED
  BY <1>4 DEF Runs

\* Finitely many natural numbers are bounded.
LEMMA Bounded ==
    ASSUME NEW N \in Nat, NEW f \in [1..N -> Nat]
    PROVE  \E b \in Nat : \A i \in 1..N : f[i] <= b
<1> DEFINE T == {n \in 0..N : \E b \in Nat : \A i \in 1..n : f[i] <= b}
<1>1. 0 \in T
  OBVIOUS
<1>2. ASSUME NEW n \in 0..(N - 1), n \in T
      PROVE  n + 1 \in T
  <2>1. PICK b \in Nat : \A i \in 1..n : f[i] <= b
    BY <1>2
  <2>2. f[n + 1] \in Nat /\ \A i \in 1..(n + 1) : i \in 1..n \/ i = n + 1
    OBVIOUS
  <2>3. \A i \in 1..(n + 1) : f[i] \in Nat
    OBVIOUS
  <2>4. \A i \in 1..(n + 1) : f[i] <= b + f[n + 1]
    BY <2>1, <2>2, <2>3
  <2> QED
    BY <2>2, <2>4
<1>3. \A n \in 0..(N - 1) : n \in T => n + 1 \in T
  BY <1>2
<1>4. N \in T
  <2> HIDE DEF T
  <2>1. \A n \in 0..N : n \in T
    BY <1>1, <1>3, UpTo, Zenon
  <2> QED
    BY <2>1
<1> QED
  BY <1>4

\* A set of naturals that is bounded and not empty has a greatest element.
LEMMA Greatest ==
    ASSUME NEW T, T \subseteq Nat, T # {}, NEW b \in Nat, \A n \in T : n <= b
    PROVE  \E n \in T : \A m \in T : m <= n
<1> DEFINE U == {b - n : n \in T}
<1>1. U \subseteq Nat /\ U # {}
  <2>1. \A n \in T : b - n \in Nat
    OBVIOUS
  <2>2. PICK n \in T : TRUE
    OBVIOUS
  <2>3. b - n \in U
    OBVIOUS
  <2> QED
    BY <2>1, <2>3
<1>2. PICK u \in U : \A v \in U : u <= v
  <2> HIDE DEF U
  <2> QED
    BY <1>1, LeastNatural
<1>3. PICK n \in T : u = b - n
  OBVIOUS
<1>4. ASSUME NEW m \in T
      PROVE  m <= n
  <2>1. b - m \in U
    OBVIOUS
  <2>2. u <= b - m
    BY <1>2, <2>1
  <2> QED
    BY <1>3, <2>2
<1> QED
  BY <1>4

-----------------------------------------------------------------------------
(* Lemmas about the keeper's operators *)

\* The pairs in a store are a finite set.
LEMMA PairsFinite == \A s : IsFiniteSet(GetAllCurrencyPairs(s))
  BY StoreAssumption, FS_Subset DEF GetAllCurrencyPairs

\* CreateCurrencyPair keeps the store's invariant, adds one pair and no
\* removal.
LEMMA CreateLemma ==
  ASSUME NEW s, NEW cp \in CurrencyPair, StoreInv(s), ~HasCurrencyPair(s, cp)
  PROVE  /\ StoreInv(CreateCurrencyPair(s, cp))
         /\ CreateCurrencyPair(s, cp).numCPs = s.numCPs + 1
         /\ CreateCurrencyPair(s, cp).numRemoves = s.numRemoves
<1> DEFINE t == CreateCurrencyPair(s, cp)
           new == [id |-> s.nextCurrencyPairID, nonce |-> 0, price |-> NoPrice]
<1>1. s \in Store  BY DEF StoreInv
<1>2. new \in CurrencyPairState  BY <1>1 DEF Store, CurrencyPairState
<1>3. t = [s EXCEPT !.currencyPairs = [s.currencyPairs EXCEPT ![cp] = new],
                    !.nextCurrencyPairID = s.nextCurrencyPairID + 1,
                    !.numCPs = s.numCPs + 1]
  BY DEF CreateCurrencyPair
<1> HIDE DEF t, new
<1>4. /\ t.currencyPairs = [s.currencyPairs EXCEPT ![cp] = new]
      /\ t.nextCurrencyPairID = s.nextCurrencyPairID + 1
      /\ t.numCPs = s.numCPs + 1
      /\ t.numRemoves = s.numRemoves
      /\ t \in Store
  <2>1. [s.currencyPairs EXCEPT ![cp] = new] \in PairMap
    BY <1>1, <1>2 DEF Store, PairMap
  <2>2. s.nextCurrencyPairID + 1 \in Nat /\ s.numCPs + 1 \in Nat
    BY <1>1 DEF Store
  <2>3. t \in Store  BY <1>1, <1>3, <2>1, <2>2 DEF Store
  <2> QED  BY <1>1, <1>3, <2>3 DEF Store
<1>5. GetAllCurrencyPairs(t) = GetAllCurrencyPairs(s) \cup {cp}
  BY <1>1, <1>2, <1>4, StoreAssumption DEF GetAllCurrencyPairs, Store, PairMap
<1>6. t.numCPs = Cardinality(GetAllCurrencyPairs(t))
  BY <1>4, <1>5, PairsFinite, FS_AddElement DEF StoreInv, HasCurrencyPair
<1>7. ValidGenesis(ExportGenesis(t))
  <2>1. /\ new.id = s.nextCurrencyPairID /\ new.nonce = 0  BY DEF new
  <2>2. ValidGenesis(ExportGenesis(s))  BY DEF StoreInv
  <2> QED  BY <1>1, <1>2, <1>4, <2>1, <2>2, StoreAssumption
     DEF StoreInv, ValidGenesis, ExportGenesis, GenesisPairs, Store, PairMap, CurrencyPairState
<1> QED  BY <1>4, <1>6, <1>7 DEF StoreInv, t

\* RemoveCurrencyPair keeps the store's invariant, and what it takes from
\* numCPs it adds to numRemoves: the counter never wraps.
LEMMA RemoveLemma ==
  ASSUME NEW s, NEW cp \in CurrencyPair, StoreInv(s), HasCurrencyPair(s, cp)
  PROVE  /\ StoreInv(RemoveCurrencyPair(s, cp))
         /\ RemoveCurrencyPair(s, cp).numCPs + 1 = s.numCPs
         /\ RemoveCurrencyPair(s, cp).numRemoves = s.numRemoves + 1
<1> DEFINE t == RemoveCurrencyPair(s, cp)
<1>1. s \in Store  BY DEF StoreInv
<1>2. /\ t.currencyPairs = [s.currencyPairs EXCEPT ![cp] = NoPair]
      /\ t.nextCurrencyPairID = s.nextCurrencyPairID
      /\ t.numCPs = decrementCPCounter(s.numCPs)
      /\ t.numRemoves = s.numRemoves + 1
  BY <1>1 DEF RemoveCurrencyPair, Store
<1>3. GetAllCurrencyPairs(t) = GetAllCurrencyPairs(s) \ {cp}
  BY <1>1, <1>2 DEF GetAllCurrencyPairs, Store, PairMap
<1>4. /\ Cardinality(GetAllCurrencyPairs(t)) = Cardinality(GetAllCurrencyPairs(s)) - 1
      /\ Cardinality(GetAllCurrencyPairs(s)) \in Nat
      /\ Cardinality(GetAllCurrencyPairs(t)) \in Nat
  BY <1>3, PairsFinite, FS_RemoveElement, FS_CardinalityType DEF HasCurrencyPair
<1>5. s.numCPs # 0 /\ t.numCPs = s.numCPs - 1
  BY <1>2, <1>4 DEF StoreInv, decrementCPCounter
<1>6. t \in Store
  <2>1. t.currencyPairs \in PairMap  BY <1>1, <1>2 DEF Store, PairMap
  <2>2. t = [s EXCEPT !.currencyPairs = t.currencyPairs,
                      !.numRemoves = t.numRemoves, !.numCPs = t.numCPs]
    BY <1>1, <1>2 DEF RemoveCurrencyPair, Store
  <2>3. t.numCPs \in Nat /\ t.numRemoves \in Nat  BY <1>1, <1>2, <1>5 DEF Store
  <2> HIDE DEF t
  <2> QED  BY <1>1, <2>1, <2>2, <2>3 DEF Store
<1>7. ValidGenesis(ExportGenesis(t))
  BY <1>1, <1>2 DEF StoreInv, ValidGenesis, ExportGenesis, GenesisPairs, Store, PairMap
<1> QED  BY <1>1, <1>2, <1>4, <1>5, <1>6, <1>7 DEF StoreInv, Store

\* WritePrices keeps the store's invariant and its counters.
LEMMA WriteLemma ==
  ASSUME NEW s, NEW prices \in [CurrencyPair -> Price \cup {NoPrice}], StoreInv(s)
  PROVE  /\ StoreInv(WritePrices(s, prices))
         /\ WritePrices(s, prices).numCPs = s.numCPs
         /\ WritePrices(s, prices).numRemoves = s.numRemoves
<1> DEFINE t == WritePrices(s, prices)
           written(cp) == [id |-> s.currencyPairs[cp].id,
                           nonce |-> s.currencyPairs[cp].nonce + 1,
                           price |-> prices[cp]]
           map == [cp \in CurrencyPair |->
                     IF HasCurrencyPair(s, cp) /\ prices[cp] # NoPrice
                     THEN written(cp) ELSE s.currencyPairs[cp]]
<1>1. s \in Store  BY DEF StoreInv
<1>2. \A cp \in CurrencyPair : HasCurrencyPair(s, cp) =>
         SetPriceForCurrencyPair(s, cp, prices[cp]).currencyPairs[cp] = written(cp)
  BY <1>1 DEF SetPriceForCurrencyPair, Store, PairMap
<1>3. t = [s EXCEPT !.currencyPairs = map]
  BY <1>2 DEF WritePrices
<1>4. \A cp \in CurrencyPair : HasCurrencyPair(s, cp) =>
         s.currencyPairs[cp] \in CurrencyPairState
  BY <1>1 DEF HasCurrencyPair, GetAllCurrencyPairs, Store, PairMap
<1>5. \A cp \in CurrencyPair : HasCurrencyPair(s, cp) =>
         /\ written(cp) \in CurrencyPairState
         /\ written(cp).id = s.currencyPairs[cp].id
         /\ written(cp).price = prices[cp]
  BY <1>4 DEF CurrencyPairState
<1>6. map \in PairMap
  BY <1>1, <1>5 DEF Store, PairMap
<1>7. /\ t \in Store
      /\ t.currencyPairs = map
      /\ t.nextCurrencyPairID = s.nextCurrencyPairID
      /\ t.numCPs = s.numCPs
      /\ t.numRemoves = s.numRemoves
  <2> HIDE DEF t, map
  <2> QED  BY <1>1, <1>3, <1>6 DEF Store
<1>8. GetAllCurrencyPairs(t) = GetAllCurrencyPairs(s)
  <2> HIDE DEF t, written
  <2> QED  BY <1>5, <1>7, StoreAssumption DEF GetAllCurrencyPairs, HasCurrencyPair
<1>9. ValidGenesis(ExportGenesis(t))
  <2>1. ValidGenesis(ExportGenesis(s))  BY DEF StoreInv
  <2>2. \A cp \in GetAllCurrencyPairs(s) :
           /\ t.currencyPairs[cp].id = s.currencyPairs[cp].id
           /\ t.currencyPairs[cp] = s.currencyPairs[cp]
                \/ t.currencyPairs[cp].price # NoPrice
    <3> HIDE DEF t, written
    <3> QED  BY <1>5, <1>7 DEF GetAllCurrencyPairs, HasCurrencyPair
  <2> HIDE DEF t, map
  <2> QED  BY <1>7, <1>8, <2>1, <2>2
           DEF ValidGenesis, ExportGenesis, GenesisPairs, GetAllCurrencyPairs
<1> QED  BY <1>7, <1>8, <1>9 DEF StoreInv

\* BeginBlocker keeps the store's invariant; only numRemoves changes.
LEMMA BeginLemma ==
  ASSUME NEW s, StoreInv(s)
  PROVE  StoreInv(BeginBlocker(s)) /\ BeginBlocker(s).numCPs = s.numCPs
                                   /\ BeginBlocker(s).numRemoves = 0
<1>1. s \in Store  BY DEF StoreInv
<1>2. /\ BeginBlocker(s) \in Store
      /\ BeginBlocker(s).currencyPairs = s.currencyPairs
      /\ BeginBlocker(s).nextCurrencyPairID = s.nextCurrencyPairID
      /\ BeginBlocker(s).numCPs = s.numCPs
      /\ BeginBlocker(s).numRemoves = 0
  BY <1>1 DEF BeginBlocker, Store
<1> QED  BY <1>2 DEF StoreInv, GetAllCurrencyPairs, ExportGenesis

\* A store made from a valid genesis satisfies the store's invariant.
LEMMA GenesisLemma ==
  ASSUME NEW g \in Genesis, ValidGenesis(g)
  PROVE  StoreInv(InitGenesis(g))
<1>1. Cardinality(GenesisPairs(g)) \in Nat
  BY StoreAssumption, FS_Subset, FS_CardinalityType DEF GenesisPairs
<1>2. InitGenesis(g) \in Store  BY <1>1 DEF InitGenesis, Genesis, Store
<1>3. GetAllCurrencyPairs(InitGenesis(g)) = GenesisPairs(g)
  BY DEF InitGenesis, GetAllCurrencyPairs, GenesisPairs
<1>4. ExportGenesis(InitGenesis(g)) = g
  BY DEF InitGenesis, ExportGenesis, Genesis
<1> QED  BY <1>2, <1>3, <1>4 DEF StoreInv, InitGenesis
=============================================================================

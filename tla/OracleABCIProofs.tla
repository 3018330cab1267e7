-------------------------- MODULE OracleABCIProofs --------------------------
(***************************************************************************)
(* Proofs about the chain, for any validators, powers and tokens with less *)
(* than a third of the power in Byz, whatever those validators propose and *)
(* vote, for both strategies, and for any rounds, restarts and messages.   *)
(***************************************************************************)
EXTENDS OracleABCI, OracleStoreProofs

-----------------------------------------------------------------------------
(* Sums over the validators *)

\* What validator i adds to the sum of f over S.
Weight(f, S, i) == IF Validators[i] \in S THEN f[Validators[i]] ELSE 0

\* g has the partial sums of f over S.
PartialSums(f, S, g) ==
    /\ g \in [0..Len(Validators) -> Nat]
    /\ g[0] = 0
    /\ \A i \in 1..Len(Validators) : g[i] = g[i - 1] + Weight(f, S, i)

\* What the sums are of.
LEMMA WeightTypes == Power \in [Node -> Nat] /\ Tokens \in [Node -> Nat]
BY ABCIAssumption

\* SumOf adds up the validators of S in their order.
LEMMA SumDef ==
    ASSUME NEW f \in [Node -> Nat], NEW S
    PROVE  \E g : PartialSums(f, S, g) /\ SumOf(f, S) = g[Len(Validators)]
<1> DEFINE N == Len(Validators)
           w(i) == Weight(f, S, i)
           sum[i \in 0..N] == IF i = 0 THEN 0 ELSE sum[i - 1] + w(i)
           F == [i \in 1..N |-> [x \in Nat |-> x + w(i)]]
<1>1. N \in Nat /\ \A i \in 1..N : w(i) \in Nat
  BY ABCIAssumption DEF Node, Weight
<1>2. SumOf(f, S) = sum[N]
  BY Zenon DEF SumOf, Weight
<1> HIDE DEF w, N
<1>3. PICK g : g \in Runs(N, Nat, 0, F)
  <2>1. F \in [1..N -> [Nat -> Nat]]
    BY <1>1
  <2>2. 0 \in Nat
    OBVIOUS
  <2> HIDE DEF F
  <2> QED
    BY <1>1, <2>1, <2>2, Iterate
<1>4. g = [i \in 0..N |-> IF i = 0 THEN 0 ELSE g[i - 1] + w(i)]
  <2>1. ASSUME NEW i \in 0..N
        PROVE  g[i] = IF i = 0 THEN 0 ELSE g[i - 1] + w(i)
    <3>1. CASE i # 0
      <4>1. i \in 1..N /\ g[i - 1] \in Nat
        BY <1>1, <1>3, <3>1 DEF Runs
      <4> QED
        BY <1>3, <3>1, <4>1 DEF Runs
    <3> QED
      BY <1>3, <3>1 DEF Runs
  <2> QED
    BY <1>3, <2>1 DEF Runs
<1>5. sum = [i \in 0..N |-> IF i = 0 THEN 0 ELSE sum[i - 1] + w(i)]
  BY <1>4, Zenon
<1> HIDE DEF sum
<1>6. \A i \in 0..N : sum[i] \in Nat
  <2> DEFINE T == {i \in 0..N : sum[i] \in Nat}
  <2>1. 0 \in T
    BY <1>1, <1>5
  <2>2. ASSUME NEW i \in 0..(N - 1), sum[i] \in Nat
        PROVE  sum[i + 1] \in Nat
    <3>1. i + 1 \in 1..N /\ sum[i + 1] = sum[i] + w(i + 1)
      BY <1>1, <1>5
    <3> QED
      BY <1>1, <2>2, <3>1
  <2>4. \A i \in 0..(N - 1) : i \in T => i + 1 \in T
    BY <1>1, <2>2
  <2> HIDE DEF T
  <2>3. \A i \in 0..N : i \in T
    BY <1>1, <2>1, <2>4, UpTo, Zenon
  <2> QED
    BY <2>3 DEF T
<1>7. sum \in [0..N -> Nat] /\ sum[0] = 0 /\ \A i \in 1..N : sum[i] = sum[i - 1] + w(i)
  BY <1>1, <1>5, <1>6
<1> QED
  BY <1>2, <1>7 DEF N, w, PartialSums

\* The sum over two disjoint sets is that over the one and that over the other.
LEMMA SumSplit ==
    ASSUME NEW f \in [Node -> Nat], NEW S, NEW T, S \cap T = {}
    PROVE  SumOf(f, S \cup T) = SumOf(f, S) + SumOf(f, T)
<1> DEFINE N == Len(Validators)
           w(i, X) == Weight(f, X, i)
<1>1. PICK a : PartialSums(f, S, a) /\ SumOf(f, S) = a[N]
  BY SumDef
<1>2. PICK b : PartialSums(f, T, b) /\ SumOf(f, T) = b[N]
  BY SumDef
<1>3. PICK c : PartialSums(f, S \cup T, c) /\ SumOf(f, S \cup T) = c[N]
  BY SumDef
<1>4. N \in Nat /\ \A i \in 1..N : f[Validators[i]] \in Nat
  BY ABCIAssumption DEF Node
<1>5. \A i \in 1..N : /\ w(i, S) \in Nat /\ w(i, T) \in Nat
                      /\ w(i, S \cup T) = w(i, S) + w(i, T)
  BY <1>4 DEF Weight
<1> HIDE DEF w, N
<1> DEFINE I == {i \in 0..N : c[i] = a[i] + b[i]}
<1>6. 0 \in I
  BY <1>1, <1>2, <1>3, <1>4 DEF PartialSums
<1>7. ASSUME NEW i \in 0..(N - 1), c[i] = a[i] + b[i]
      PROVE  c[i + 1] = a[i + 1] + b[i + 1]
  <2>1. i + 1 \in 1..N /\ i \in 0..N /\ (i + 1) - 1 = i
    BY <1>4
  <2>2. /\ a[i + 1] = a[i] + w(i + 1, S) /\ b[i + 1] = b[i] + w(i + 1, T)
        /\ c[i + 1] = c[i] + w(i + 1, S \cup T)
    BY <1>1, <1>2, <1>3, <2>1 DEF PartialSums, N, w
  <2>3. w(i + 1, S) \in Nat /\ w(i + 1, T) \in Nat /\ a[i] \in Nat /\ b[i] \in Nat
    BY <1>1, <1>2, <1>5, <2>1 DEF PartialSums, N
  <2>4. w(i + 1, S \cup T) = w(i + 1, S) + w(i + 1, T)
    BY <1>5, <2>1
  <2> QED
    BY <1>7, <2>2, <2>3, <2>4
<1>8. \A i \in 0..(N - 1) : i \in I => i + 1 \in I
  BY <1>4, <1>7
<1>9. N \in I
  <2> HIDE DEF I
  <2>1. \A i \in 0..N : i \in I
    BY <1>4, <1>6, <1>8, UpTo, Zenon
  <2> QED
    BY <1>4, <2>1
<1> QED
  BY <1>1, <1>2, <1>3, <1>9

\* A sum is a natural number, and larger sets do not have smaller sums.
LEMMA SumOrder ==
    ASSUME NEW f \in [Node -> Nat], NEW S, NEW T, S \subseteq T
    PROVE  SumOf(f, S) \in Nat /\ SumOf(f, T) \in Nat /\ SumOf(f, S) <= SumOf(f, T)
<1>1. \A X : SumOf(f, X) \in Nat
  <2> SUFFICES ASSUME NEW X PROVE SumOf(f, X) \in Nat
    OBVIOUS
  <2>1. PICK g : PartialSums(f, X, g) /\ SumOf(f, X) = g[Len(Validators)]
    BY SumDef
  <2>2. Len(Validators) \in Nat
    BY ABCIAssumption
  <2> QED
    BY <2>1, <2>2 DEF PartialSums
<1>2. T = S \cup (T \ S) /\ S \cap (T \ S) = {}
  OBVIOUS
<1>3. SumOf(f, T) = SumOf(f, S) + SumOf(f, T \ S)
  BY <1>2, SumSplit
<1> QED
  BY <1>1, <1>3

\* The power of validators is a natural number.
LEMMA PowerType == \A S : PowerOf(S) \in Nat
<1> SUFFICES ASSUME NEW S PROVE SumOf(Power, S) \in Nat
  BY DEF PowerOf
<1> QED
  BY WeightTypes, SumOrder

\* The validators in Byz are no quorum on their own.
LEMMA QuorumHasHonest ==
    ASSUME NEW S \in SUBSET Honest, IsQuorum(Byz \cup S)
    PROVE  S # {}
<1>1. PowerOf(Byz) \in Nat /\ PowerOf(Node) \in Nat
  BY PowerType
<1>2. 3 * PowerOf(Byz) < PowerOf(Node)
  BY ABCIAssumption
<1>3. ~IsQuorum(Byz)
  BY <1>1, <1>2 DEF IsQuorum
<1>4. S = {} => Byz \cup S = Byz
  OBVIOUS
<1> QED
  BY <1>3, <1>4

-----------------------------------------------------------------------------
(* The stake-weighted median *)

\* Whatever the validators in Byz vote, the median of the votes lies between two
\* prices of honest validators: those in Byz have less than half of the weight of
\* any set of voters that reaches the power threshold.
THEOREM MedianInRange ==
    ASSUME NEW price \in [Node -> Nat \cup {NoPrice}], Median(price) # NoPrice
    PROVE  /\ Median(price) \in Nat
           /\ \E low, high \in Honest :
                 /\ price[low] \in Nat /\ price[high] \in Nat
                 /\ price[low] <= Median(price) /\ Median(price) <= price[high]
<1> DEFINE voters == {n \in Node : price[n] # NoPrice}
           middle == TokensOf(voters) \div 2
           upto(m) == {k \in voters : price[k] <= price[m]}
           reach == {price[n] : n \in {m \in voters : TokensOf(upto(m)) >= middle}}
           H == voters \ Byz
<1>1. /\ 1000 * TokensOf(voters) >= 667 * TokensOf(Node)
      /\ Median(price) = Min(reach)
  BY DEF Median, ComputeMedian
<1>2. \A n \in voters : price[n] \in Nat
  OBVIOUS
<1>3. \A S, T : S \subseteq T =>
         TokensOf(S) \in Nat /\ TokensOf(T) \in Nat /\ TokensOf(S) <= TokensOf(T)
  BY WeightTypes, SumOrder DEF TokensOf
<1>4. TokensOf(voters) \in Nat /\ TokensOf(Byz) \in Nat /\ TokensOf(Node) \in Nat
  BY <1>3
<1>5. middle \in Nat /\ middle > TokensOf(Byz) /\ TokensOf(voters) - TokensOf(Byz) >= middle
  BY <1>1, <1>4, ABCIAssumption
<1>6. TokensOf(H) >= middle
  <2>1. voters = H \cup (voters \cap Byz) /\ H \cap (voters \cap Byz) = {}
    OBVIOUS
  <2>2. TokensOf(voters) = TokensOf(H) + TokensOf(voters \cap Byz)
    BY <2>1, WeightTypes, SumSplit DEF TokensOf
  <2>3. TokensOf(voters \cap Byz) <= TokensOf(Byz)
    BY <1>3
  <2> QED
    BY <1>3, <1>4, <1>5, <2>2, <2>3
<1>7. H # {}
  <2>1. TokensOf({}) = TokensOf({}) + TokensOf({})
    BY WeightTypes, SumSplit DEF TokensOf
  <2>2. TokensOf({}) = 0
    BY <1>3, <2>1
  <2> QED
    BY <1>4, <1>5, <1>6, <2>2
<1>8. PICK high \in H : \A n \in H : price[n] <= price[high]
  <2> DEFINE P == {price[n] : n \in H}
             N == Len(Validators)
             f == [i \in 1..N |-> IF price[Validators[i]] \in Nat THEN price[Validators[i]] ELSE 0]
  <2>1. N \in Nat /\ f \in [1..N -> Nat]
    BY ABCIAssumption
  <2>2. PICK b \in Nat : \A i \in 1..N : f[i] <= b
    <3> HIDE DEF f, N
    <3> QED
      BY <2>1, Bounded
  <2>3. \A n \in Node : \E i \in 1..N : Validators[i] = n
    <3>1. Validators \in Seq(Int)
      BY ABCIAssumption
    <3>2. DOMAIN Validators = 1..Len(Validators)
      BY <3>1
    <3> QED
      BY <3>2, Zenon DEF Node
  <2>4. \A n \in H : price[n] \in Nat /\ price[n] <= b
    BY <1>2, <2>2, <2>3
  <2>5. P \subseteq Nat /\ P # {} /\ \A x \in P : x <= b
    BY <1>7, <2>4
  <2>6. PICK x \in P : \A y \in P : y <= x
    <3> HIDE DEF P
    <3> QED
      BY <2>5, Greatest
  <2> QED
    BY <2>6
<1>9. high \in voters /\ price[high] \in Nat
  BY <1>2
<1>10. price[high] \in reach
  <2>1. H \subseteq upto(high)
    BY <1>8
  <2>2. TokensOf(upto(high)) >= middle
    <3> HIDE DEF upto, H, middle
    <3> QED
      BY <1>3, <1>5, <1>6, <2>1
  <2> QED
    BY <1>9, <2>2
<1>11. /\ Min(reach) \in reach
       /\ \A x \in reach : Min(reach) <= x
  <2>1. reach \subseteq Nat /\ reach # {}
    BY <1>2, <1>10
  <2>2. \E x \in reach : \A y \in reach : x <= y
    <3> HIDE DEF reach
    <3> QED
      BY <2>1, LeastNatural
  <2> HIDE DEF reach
  <2> QED
    BY <2>2 DEF Min
<1>12. PICK r \in voters : TokensOf(upto(r)) >= middle /\ Min(reach) = price[r]
  BY <1>11
<1>13. PICK low \in upto(r) : low \notin Byz
  <2>1. TokensOf(upto(r)) > TokensOf(Byz) /\ TokensOf(upto(r)) \in Nat
    <3> HIDE DEF upto, middle
    <3> QED
      BY <1>3, <1>4, <1>5, <1>12
  <2>2. ~(upto(r) \subseteq Byz)
    <3> HIDE DEF upto
    <3> QED
      BY <1>3, <1>4, <2>1
  <2> QED
    BY <2>2
<1>14. low \in Honest /\ price[low] \in Nat /\ price[low] <= price[r]
  BY <1>2, <1>13 DEF Honest
<1>15. high \in Honest /\ Min(reach) <= price[high]
  BY <1>10, <1>11 DEF Honest
<1>16. Median(price) = price[r] /\ price[r] \in Nat
  BY <1>1, <1>2, <1>12
<1> HIDE DEF voters, reach, H, upto, middle
<1> QED
  BY <1>1, <1>9, <1>14, <1>15, <1>16

-----------------------------------------------------------------------------
(* Accepted proposals *)

\* A vote that validateVoteExtension accepts can be decoded, in the PreBlocker too.
LEMMA ValidVoteDecodes ==
    ASSUME NEW s, NEW mode, NEW vote, ValidVote(s, mode, vote)
    PROVE  /\ vote.ext # Undecodable
           /\ \A id \in ID : Decode(vote.ext)[id] # TooLong
<1>1. CASE vote.ext = NoExt
  BY <1>1, ABCIValues DEF Decode, EmptyExt
<1>2. CASE vote.ext # NoExt
  BY <1>2 DEF ValidVote, ValidateOracleVoteExtension
<1> QED
  BY <1>1, <1>2

\* At least one honest validator has processed a proposal that was accepted.
LEMMA AcceptedDecodes ==
    ASSUME NEW ec, NEW lc, Accepted(ec, lc)
    PROVE  ~PreBlockFails(ec)
<1>1. PICK n \in Honest : ProcessProposal(store[n], ec, lc)
  BY QuorumHasHonest DEF Accepted
<1>2. \A i \in DOMAIN ec.votes : ValidVote(store[n], "ProcessProposal", ec.votes[i])
  BY <1>1 DEF ProcessProposal
<1> QED
  BY <1>2, ValidVoteDecodes DEF PreBlockFails

\* Whoever proposes, the PreBlocker does not fail on a proposal that was accepted:
\* a decided block does not halt the chain.
THEOREM PreBlockAlwaysSucceeds == Spec => []PreBlockNeverFails
<1>1. Init => PreBlockNeverFails
  BY DEF Init, PreBlockNeverFails, HasInfo
<1>2. PreBlockNeverFails /\ [Next]_vars => PreBlockNeverFails'
  <2> SUFFICES ASSUME PreBlockNeverFails, [Next]_vars
               PROVE  PreBlockNeverFails'
    OBVIOUS
  <2> USE DEF PreBlockNeverFails, HasInfo
  <2>1. ASSUME NEW ec, NEW lc, Accepted(ec, lc), proposal' = ec, UNCHANGED height
        PROVE  PreBlockNeverFails'
    BY <2>1, AcceptedDecodes DEF PreBlockFails, VoteExtensionsEnabled
  <2>2. ASSUME NEW n \in Honest, Propose(n)
        PROVE  PreBlockNeverFails'
    BY <2>1, <2>2 DEF Propose
  <2>3. CASE ProposeByz
    BY <2>1, <2>3 DEF ProposeByz
  <2>4. CASE ProposeWithoutInfo \/ NextRound \/ FinalizeBlock
    BY <2>4 DEF ProposeWithoutInfo, NextRound, FinalizeBlock
  <2>5. CASE UNCHANGED <<proposal, height>>
    BY <2>5 DEF PreBlockFails, VoteExtensionsEnabled
  <2>6. ASSUME NEW n \in Honest, ExtendVote(n) \/ Restart(n)
        PROVE  UNCHANGED <<proposal, height>>
    BY <2>6 DEF ExtendVote, Restart
  <2> QED
    BY <2>2, <2>3, <2>4, <2>5, <2>6 DEF Next, vars
<1> QED
  BY <1>1, <1>2, PTL DEF Spec

-----------------------------------------------------------------------------
(* What the caches of the PreBlocker's strategy may hold *)

\* FromID and getOnChainPrice of a strategy that has cached nothing.
StateFromID(s, id) == IF MatchExact(s, id) # {} THEN GetCurrencyPairFromID(s, id) ELSE NoValue

StatePrice(s, cp) ==
    IF GetPriceForCurrencyPair(s, cp) = NoPrice THEN 0 ELSE GetPriceForCurrencyPair(s, cp)

\* What a strategy cached at height h is what it would read from s; nothing that
\* it cached is from a later height.
Fresh(c, s, h) ==
    /\ c.idHeight \in 0..h /\ c.height \in 0..h
    /\ c.idHeight = h => \A id \in ID : c.ids[id] \in {NoValue, StateFromID(s, id)}
    /\ c.height = h => \A cp \in CurrencyPair : c.prices[cp] \in {NoValue, StatePrice(s, cp)}

\* A fresh cache cannot be told from an empty one.
LEMMA FreshReads ==
    ASSUME NEW c, NEW s, NEW h, Fresh(c, s, h)
    PROVE  /\ \A id \in ID : FromID(s, c, h, id) = StateFromID(s, id)
           /\ \A cp \in CurrencyPair : getOnChainPrice(s, c, h, cp) = StatePrice(s, cp)
<1>1. \A id \in ID : IDCache(c, h)[id] \in {NoValue, StateFromID(s, id)}
  BY DEF Fresh, IDCache, NoIDs
<1>2. \A cp \in CurrencyPair : PriceCache(c, h)[cp] \in {NoValue, StatePrice(s, cp)}
  BY DEF Fresh, PriceCache, NoPrices
<1>3. \A id \in ID : FromID(s, c, h, id) = StateFromID(s, id)
  BY <1>1 DEF FromID, StateFromID
<1>4. \A cp \in CurrencyPair : getOnChainPrice(s, c, h, cp) = StatePrice(s, cp)
  BY <1>2 DEF getOnChainPrice, StatePrice
<1> QED
  BY <1>3, <1>4

\* What a strategy remembers of the state it reads is fresh.
LEMMA FreshRemember ==
    ASSUME NEW c, NEW s, NEW h \in Nat, NEW ids, NEW pairs, Fresh(c, s, h)
    PROVE  Fresh(Remember(s, c, h, ids, pairs), s, h)
<1> DEFINE r == Remember(s, c, h, ids, pairs)
<1>1. /\ r.idHeight \in 0..h
      /\ r.height \in 0..h
  BY DEF Remember, Fresh
<1>2. ASSUME r.idHeight = h, NEW id \in ID
      PROVE  r.ids[id] \in {NoValue, StateFromID(s, id)}
  <2>1. FromID(s, c, h, id) = StateFromID(s, id)
    BY FreshReads
  <2>2. IDCache(c, h)[id] \in {NoValue, StateFromID(s, id)}
    BY DEF Fresh, IDCache, NoIDs
  <2> QED
    BY <1>2, <2>1, <2>2 DEF Remember, Fresh
<1>3. ASSUME r.height = h, NEW cp \in CurrencyPair
      PROVE  r.prices[cp] \in {NoValue, StatePrice(s, cp)}
  <2>1. getOnChainPrice(s, c, h, cp) = StatePrice(s, cp)
    BY FreshReads
  <2>2. PriceCache(c, h)[cp] \in {NoValue, StatePrice(s, cp)}
    BY DEF Fresh, PriceCache, NoPrices
  <2> QED
    BY <1>3, <2>1, <2>2 DEF Remember, Fresh
<1>4. Fresh(r, s, h)
  <2> HIDE DEF r
  <2> QED
    BY <1>1, <1>2, <1>3 DEF Fresh
<1> QED
  BY <1>4

\* What a vote says of a pair does not depend on what was cached.
LEMMA FreshVotePrice ==
    ASSUME NEW c, NEW d, NEW s, NEW h, Fresh(c, s, h), Fresh(d, s, h),
           NEW e, NEW cp \in CurrencyPair
    PROVE  VotePrice(s, c, h, e, cp) = VotePrice(s, d, h, e, cp)
<1> DEFINE named(x) == {id \in ID : e[id] # NoValue /\ FromID(s, x, h, id) = cp}
<1>1. named(c) = named(d)
  BY FreshReads
<1>2. getOnChainPrice(s, c, h, cp) = getOnChainPrice(s, d, h, cp)
  BY FreshReads
<1>3. \A bz : GetDecodedPrice(s, c, h, cp, bz) = GetDecodedPrice(s, d, h, cp, bz)
  BY <1>2 DEF GetDecodedPrice
<1>4. \A x : VotePrice(s, x, h, e, cp) =
               IF named(x) = {} THEN NoPrice
               ELSE GetDecodedPrice(s, x, h, cp, e[CHOOSE id \in named(x) : TRUE])
  BY DEF VotePrice
<1> HIDE DEF named
<1> QED
  BY <1>1, <1>3, <1>4

\* Nor do the prices that the PreBlocker writes.
LEMMA FreshAggregate ==
    ASSUME NEW c, NEW d, NEW s, NEW h, Fresh(c, s, h), Fresh(d, s, h), NEW ec
    PROVE  AggregateOracleVotes(s, c, h, ec) = AggregateOracleVotes(s, d, h, ec)
<1> DEFINE vote == [n \in Node |-> CHOOSE i \in DOMAIN ec.votes : ec.votes[i].addr = n]
           says(x, cp) == [n \in Node |-> VotePrice(s, x, h, Decode(ec.votes[vote[n]].ext), cp)]
<1>1. \A x : AggregateOracleVotes(s, x, h, ec) = [cp \in CurrencyPair |-> Median(says(x, cp))]
  BY DEF AggregateOracleVotes
<1>2. \A cp \in CurrencyPair : says(c, cp) = says(d, cp)
  <2> HIDE DEF vote
  <2> QED
    BY FreshVotePrice
<1> HIDE DEF says
<1> QED
  BY <1>1, <1>2

-----------------------------------------------------------------------------
(* Agreement *)

\* The inductive invariant: the honest validators have the same store, and what
\* their PreBlockers cached at the current height is of that store.
AgreeInv ==
    /\ height \in Nat
    /\ NodesAgree
    /\ preCache = [n \in Honest |-> preCache[n]]
    /\ \A n \in Honest : Fresh(preCache[n], store[n], height)

\* What the PreBlocker leaves in its caches is fresh.
LEMMA PreBlockerFresh ==
    ASSUME AgreeInv, NEW n \in Honest, NEW ec
    PROVE  Fresh(PreBlockerCache(store[n], preCache[n], ec), store[n], height)
BY FreshRemember DEF PreBlockerCache, AgreeInv

\* The honest validators compute the same state for a block.
LEMMA PreBlockersAgree ==
    ASSUME AgreeInv, NEW m \in Honest, NEW n \in Honest, NEW ec
    PROVE  PreBlocker(store[m], preCache[m], ec) = PreBlocker(store[n], preCache[n], ec)
<1>1. store[m] = store[n]
  BY DEF AgreeInv, NodesAgree
<1>2. Fresh(preCache[m], store[n], height) /\ Fresh(preCache[n], store[n], height)
  BY <1>1 DEF AgreeInv
<1>3. AggregateOracleVotes(store[n], preCache[m], height, ec) =
      AggregateOracleVotes(store[n], preCache[n], height, ec)
  BY <1>2, FreshAggregate
<1> QED
  BY <1>1, <1>3 DEF PreBlocker

\* A strategy is new at the start and after a restart.
LEMMA NewIsFresh ==
    ASSUME NEW s, NEW h \in Nat
    PROVE  Fresh(NewStrategy, s, h)
BY DEF Fresh, NewStrategy, NoIDs, NoPrices

\* The caches of the nodes agree at the start.
LEMMA AgreeInit == Init => AgreeInv
BY NewIsFresh DEF Init, AgreeInv, NodesAgree

\* A block written by one node's PreBlocker is written so by all: AgreeInv is
\* inductive.
LEMMA AgreeStep == AgreeInv /\ [Next]_vars => AgreeInv'
<1> SUFFICES ASSUME AgreeInv, [Next]_vars
             PROVE  AgreeInv'
  OBVIOUS
<1>1. CASE UNCHANGED <<height, store, preCache>>
  BY <1>1 DEF AgreeInv, NodesAgree
<1>2. CASE ProposeWithoutInfo \/ ProposeByz \/ NextRound
  BY <1>1, <1>2 DEF ProposeWithoutInfo, ProposeByz, NextRound
<1>3. ASSUME NEW n \in Honest, Propose(n)
      PROVE  AgreeInv'
  BY <1>1, <1>3 DEF Propose
<1>4. ASSUME NEW n \in Honest, UNCHANGED <<height, store>>, NEW c,
             Fresh(c, store[n], height), preCache' = [preCache EXCEPT ![n] = c]
      PROVE  AgreeInv'
  BY <1>4 DEF AgreeInv, NodesAgree
<1>5. ASSUME NEW n \in Honest, ExtendVote(n)
      PROVE  AgreeInv'
  <2>1. CASE PreBlockFails(proposal)
    BY <1>1, <1>5, <2>1 DEF ExtendVote
  <2>2. CASE ~PreBlockFails(proposal)
    <3> DEFINE c == PreBlockerCache(store[n], preCache[n], proposal)
    <3>1. UNCHANGED <<height, store>> /\ preCache' = [preCache EXCEPT ![n] = c]
      BY <1>5, <2>2 DEF ExtendVote
    <3>2. Fresh(c, store[n], height)
      BY PreBlockerFresh
    <3> HIDE DEF c
    <3> QED
      BY <1>4, <3>1, <3>2
  <2> QED
    BY <2>1, <2>2
<1>6. ASSUME NEW n \in Honest, Restart(n)
      PROVE  AgreeInv'
  <2>1. Fresh(NewStrategy, store[n], height)
    BY NewIsFresh DEF AgreeInv
  <2> QED
    BY <1>4, <1>6, <2>1 DEF Restart
<1>7. CASE FinalizeBlock
  <2>1. PICK msgs \in BlockMsgs : store' = [n \in Honest |->
            DeliverAll(BeginBlocker(PreBlocker(store[n], preCache[n], proposal)), msgs)]
    BY <1>7 DEF FinalizeBlock
  <2>2. NodesAgree'
    BY <2>1, PreBlockersAgree DEF NodesAgree
  <2>3. preCache' = [n \in Honest |-> PreBlockerCache(store[n], preCache[n], proposal)]
    BY <1>7 DEF FinalizeBlock
  <2>4. height \in Nat /\ height' = height + 1
    BY <1>7 DEF FinalizeBlock, AgreeInv
  <2>5. ASSUME NEW n \in Honest
        PROVE  Fresh(preCache'[n], store'[n], height')
    <3>1. Fresh(preCache'[n], store[n], height)
      BY <2>3, PreBlockerFresh
    <3> QED
      BY <2>4, <3>1 DEF Fresh
  <2> QED
    BY <2>2, <2>3, <2>4, <2>5 DEF AgreeInv
<1> QED
  BY <1>1, <1>2, <1>3, <1>5, <1>6, <1>7 DEF Next, vars

\* The honest validators compute the same x/oracle state for every block,
\* although each has strategies of its own with caches of its own.
THEOREM NodesAlwaysAgree == Spec => []NodesAgree
<1>1. AgreeInv => NodesAgree
  BY DEF AgreeInv
<1> QED
  BY <1>1, AgreeInit, AgreeStep, PTL DEF Spec

-----------------------------------------------------------------------------
(* What the messages of a block make of a store *)

Msg == [kind : {"Add", "Remove"}, cp : CurrencyPair]

\* t is s after messages: pairs keep their id and price or have a new id, and the
\* pairs that are gone are counted.
Later(s, t) ==
    /\ StoreInv(t)
    /\ s.nextCurrencyPairID <= t.nextCurrencyPairID
    /\ s.nextCurrencyPairID <= MaxID => t.nextCurrencyPairID <= MaxID
    /\ s.numCPs + s.numRemoves <= t.numCPs + t.numRemoves
    /\ \A cp \in GetAllCurrencyPairs(t) :
          \/ cp \in GetAllCurrencyPairs(s) /\ t.currencyPairs[cp] = s.currencyPairs[cp]
          \/ t.currencyPairs[cp].id >= s.nextCurrencyPairID

\* What comes after a later store is later.
LEMMA LaterIsTransitive ==
    ASSUME NEW s, NEW t, NEW u, StoreInv(s), Later(s, t), Later(t, u)
    PROVE  Later(s, u)
<1>1. s \in Store /\ t \in Store /\ u \in Store
  BY DEF Later, StoreInv
<1>2. /\ s.nextCurrencyPairID \in Nat /\ t.nextCurrencyPairID \in Nat
      /\ u.nextCurrencyPairID \in Nat
      /\ s.numCPs + s.numRemoves \in Nat /\ t.numCPs + t.numRemoves \in Nat
      /\ u.numCPs + u.numRemoves \in Nat
  BY <1>1 DEF Store
<1>3. \A cp \in GetAllCurrencyPairs(u) : u.currencyPairs[cp].id \in Nat
  BY <1>1 DEF Store, PairMap, CurrencyPairState, GetAllCurrencyPairs
<1>4. MaxID \in Nat
  BY ABCIAssumption
<1>5. ASSUME NEW cp \in GetAllCurrencyPairs(u)
      PROVE  \/ cp \in GetAllCurrencyPairs(s) /\ u.currencyPairs[cp] = s.currencyPairs[cp]
             \/ u.currencyPairs[cp].id >= s.nextCurrencyPairID
  <2>1. CASE u.currencyPairs[cp].id >= t.nextCurrencyPairID
    BY <1>2, <1>3, <2>1 DEF Later
  <2>2. CASE cp \in GetAllCurrencyPairs(t) /\ u.currencyPairs[cp] = t.currencyPairs[cp]
    BY <2>2 DEF Later
  <2> QED
    BY <2>1, <2>2 DEF Later
<1>6. /\ StoreInv(u)
      /\ s.nextCurrencyPairID <= u.nextCurrencyPairID
      /\ s.nextCurrencyPairID <= MaxID => u.nextCurrencyPairID <= MaxID
      /\ s.numCPs + s.numRemoves <= u.numCPs + u.numRemoves
  BY <1>2, <1>4 DEF Later
<1> QED
  BY <1>5, <1>6 DEF Later

\* One message.
LEMMA DeliverLater ==
    ASSUME NEW s, StoreInv(s), NEW msg \in Msg
    PROVE  Later(s, Deliver(s, msg))
<1>1. msg.cp \in CurrencyPair /\ msg.kind \in {"Add", "Remove"} /\ s \in Store
  BY DEF Msg, StoreInv
<1>2. /\ s.nextCurrencyPairID \in Nat /\ s.numCPs \in Nat /\ s.numRemoves \in Nat
      /\ \A cp \in GetAllCurrencyPairs(s) : s.currencyPairs[cp].id \in Nat
  BY <1>1 DEF Store, PairMap, CurrencyPairState, GetAllCurrencyPairs
<1>3. CASE msg.kind = "Add" /\ ~HasCurrencyPair(s, msg.cp) /\ s.nextCurrencyPairID < MaxID
  <2> DEFINE t == CreateCurrencyPair(s, msg.cp)
  <2>1. Deliver(s, msg) = t
    BY <1>3 DEF Deliver
  <2>2. /\ StoreInv(t) /\ t.numCPs = s.numCPs + 1 /\ t.numRemoves = s.numRemoves
    BY <1>1, <1>3, CreateLemma
  <2>3. /\ t.nextCurrencyPairID = s.nextCurrencyPairID + 1
        /\ t.currencyPairs = [s.currencyPairs EXCEPT ![msg.cp] =
               [id |-> s.nextCurrencyPairID, nonce |-> 0, price |-> NoPrice]]
    BY <1>1 DEF CreateCurrencyPair, Store
  <2>4. ASSUME NEW cp \in GetAllCurrencyPairs(t), cp # msg.cp
        PROVE  cp \in GetAllCurrencyPairs(s) /\ t.currencyPairs[cp] = s.currencyPairs[cp]
    BY <1>1, <2>3, <2>4 DEF GetAllCurrencyPairs, Store, PairMap
  <2>5. t.currencyPairs[msg.cp].id = s.nextCurrencyPairID
    BY <1>1, <2>3 DEF Store, PairMap
  <2> HIDE DEF t
  <2> QED
    BY <1>2, <1>3, <2>1, <2>2, <2>3, <2>4, <2>5, ABCIAssumption DEF Later
<1>4. CASE msg.kind = "Remove" /\ HasCurrencyPair(s, msg.cp)
  <2> DEFINE t == RemoveCurrencyPair(s, msg.cp)
  <2>1. Deliver(s, msg) = t
    BY <1>4 DEF Deliver
  <2>2. /\ StoreInv(t) /\ t.numCPs + 1 = s.numCPs /\ t.numRemoves = s.numRemoves + 1
    BY <1>1, <1>4, RemoveLemma
  <2>3. /\ t.nextCurrencyPairID = s.nextCurrencyPairID
        /\ t.currencyPairs = [s.currencyPairs EXCEPT ![msg.cp] = NoPair]
    BY <1>1 DEF RemoveCurrencyPair, Store
  <2>4. ASSUME NEW cp \in GetAllCurrencyPairs(t)
        PROVE  cp \in GetAllCurrencyPairs(s) /\ t.currencyPairs[cp] = s.currencyPairs[cp]
    BY <1>1, <2>3 DEF GetAllCurrencyPairs, Store, PairMap
  <2>5. t.numCPs \in Nat
    BY <2>2 DEF StoreInv, Store
  <2> HIDE DEF t
  <2> QED
    BY <1>2, <2>1, <2>2, <2>3, <2>4, <2>5, ABCIAssumption DEF Later
<1>5. CASE Deliver(s, msg) = s
  BY <1>2, <1>5 DEF Later
<1> QED
  BY <1>1, <1>3, <1>4, <1>5 DEF Deliver

\* All messages of a block.
LEMMA DeliverAllLater ==
    ASSUME NEW s, StoreInv(s), NEW msgs \in Seq(Msg)
    PROVE  Later(s, DeliverAll(s, msgs))
<1> DEFINE N == Len(msgs)
           S == {t \in Store : StoreInv(t)}
           F == [i \in 1..N |-> [t \in S |-> Deliver(t, msgs[i])]]
           run[i \in 0..N] == IF i = 0 THEN s ELSE Deliver(run[i - 1], msgs[i])
<1>1. DeliverAll(s, msgs) = run[N]
  BY Zenon DEF DeliverAll
<1>2. N \in Nat /\ \A i \in 1..N : msgs[i] \in Msg
  OBVIOUS
<1>3. s \in S /\ \A t : StoreInv(t) <=> t \in S
  BY DEF StoreInv
<1> HIDE DEF N, S, run
<1>4. \A i \in 1..N : \A t \in S : Deliver(t, msgs[i]) \in S
  BY <1>2, <1>3, DeliverLater DEF Later
<1>5. PICK g : g \in Runs(N, S, s, F)
  <2>1. F \in [1..N -> [S -> S]]
    BY <1>4
  <2> HIDE DEF F
  <2> QED
    BY <1>2, <1>3, <2>1, Iterate
<1>6. g = [i \in 0..N |-> IF i = 0 THEN s ELSE Deliver(g[i - 1], msgs[i])]
  <2>1. ASSUME NEW i \in 0..N
        PROVE  g[i] = IF i = 0 THEN s ELSE Deliver(g[i - 1], msgs[i])
    <3>1. CASE i # 0
      <4>1. i \in 1..N /\ g[i - 1] \in S
        BY <1>2, <1>5, <3>1 DEF Runs
      <4> QED
        BY <1>5, <3>1, <4>1 DEF Runs
    <3> QED
      BY <1>5, <3>1 DEF Runs
  <2> QED
    BY <1>5, <2>1 DEF Runs
<1>7. run = [i \in 0..N |-> IF i = 0 THEN s ELSE Deliver(run[i - 1], msgs[i])]
  BY <1>6, Zenon DEF run
<1> DEFINE T == {i \in 0..N : Later(s, run[i])}
<1>8. 0 \in T
  <2>1. run[0] = s
    BY <1>2, <1>7
  <2>2. Later(s, s)
    BY DEF Later, StoreInv, Store
  <2> QED
    BY <1>2, <2>1, <2>2
<1>9. ASSUME NEW i \in 0..(N - 1), Later(s, run[i])
      PROVE  Later(s, run[i + 1])
  <2>1. i + 1 \in 1..N /\ run[i + 1] = Deliver(run[i], msgs[i + 1])
    BY <1>2, <1>7
  <2>2. Later(run[i], run[i + 1])
    BY <1>2, <1>9, <2>1, DeliverLater DEF Later
  <2> QED
    BY <1>9, <2>2, LaterIsTransitive
<1>10. \A i \in 0..(N - 1) : i \in T => i + 1 \in T
  BY <1>2, <1>9
<1>11. N \in T
  <2> HIDE DEF T
  <2>1. \A i \in 0..N : i \in T
    BY <1>2, <1>8, <1>10, UpTo, Zenon
  <2> QED
    BY <1>2, <2>1
<1> QED
  BY <1>1, <1>11

-----------------------------------------------------------------------------
(* Votes in accepted proposals *)

\* A vote of validator n in a commit of the last height: it has its extension of
\* that height, or any if it is in Byz.
IsVote(v, n) ==
    \/ v = AbsentVote(n)
    \/ \E e \in Extension : v = CommitVote(n, e) /\ (n \in Honest => e = last.ext[n])

\* The extension of the vote of n in a proposal is the one that n made, or empty.
Authentic(v, n) ==
    /\ v.addr = n
    /\ v.ext \in Extension
    /\ n \in Honest => v.ext \in {NoExt, last.ext[n]}

AuthenticCommit(ec) ==
    /\ DOMAIN ec.votes = DOMAIN Validators
    /\ \A i \in DOMAIN Validators : Authentic(ec.votes[i], Validators[i])

\* The extensions of the last height are extensions, where there are any.
LastTyped == \A n \in Honest : last.ext[n] \in Extension \cup {NoValue}

\* A commit of the last height has one vote per validator.
LEMMA CommitVotes ==
    ASSUME LastTyped, NEW c \in Commits
    PROVE  /\ c = [round |-> last.round, votes |-> c.votes]
           /\ c.votes = [i \in DOMAIN Validators |-> c.votes[i]]
           /\ \A i \in DOMAIN Validators : IsVote(c.votes[i], Validators[i])
<1>1. PICK S \in SUBSET Node, b \in [Byz -> ByzExts] :
         /\ \A n \in S \ Byz : last.ext[n] # NoValue
         /\ c = CommitOf(S, Exts(b))
  BY DEF Commits
<1>2. \A n \in S : Exts(b)[n] \in Extension /\ (n \in Honest => Exts(b)[n] = last.ext[n])
  BY <1>1, ABCIAssumption DEF Exts, Honest, LastTyped
<1>3. \A i \in DOMAIN Validators :
         c.votes[i] = IF Validators[i] \in S
                      THEN CommitVote(Validators[i], Exts(b)[Validators[i]])
                      ELSE AbsentVote(Validators[i])
  BY <1>1 DEF CommitOf
<1> QED
  BY <1>1, <1>2, <1>3 DEF CommitOf, IsVote

\* A vote as it is in the commit, or pruned, is authentic.
LEMMA KeptVote ==
    ASSUME NEW v, NEW n, IsVote(v, n)
    PROVE  Authentic(v, n) /\ Authentic(Prune(v), n)
<1>1. NoExt \in Extension
  BY DEF Extension
<1>2. CASE v = AbsentVote(n)
  BY <1>1, <1>2 DEF Authentic, AbsentVote, Prune
<1>3. ASSUME NEW e \in Extension, v = CommitVote(n, e), n \in Honest => e = last.ext[n]
      PROVE  Authentic(v, n) /\ Authentic(Prune(v), n)
  BY <1>1, <1>3 DEF Authentic, CommitVote, Prune
<1> QED
  BY <1>2, <1>3 DEF IsVote

\* A vote whose extension was exchanged only passes if it was exchanged for itself.
LEMMA ExchangedVote ==
    ASSUME NEW v, NEW n, NEW e, IsVote(v, n), NEW w, w = [v EXCEPT !.ext = e], NEW r,
           w.flag = "Commit" => VerifySignature(w, height - 1, r),
           w.flag # "Commit" => w.ext = NoExt
    PROVE  Authentic(w, n)
<1>1. NoExt \in Extension
  BY DEF Extension
<1>2. CASE v = AbsentVote(n)
  <2>1. w.flag = "Absent" /\ w.addr = n
    BY <1>2 DEF AbsentVote
  <2> QED
    BY <1>1, <2>1 DEF Authentic
<1>3. ASSUME NEW x \in Extension, v = CommitVote(n, x), n \in Honest => x = last.ext[n]
      PROVE  Authentic(w, n)
  <2>1. /\ w.flag = "Commit" /\ w.addr = n /\ w.ext = e
        /\ w.sig = Sign(n, x, height - 1, last.round)
    BY <1>3 DEF CommitVote
  <2>2. w.sig = Sign(n, e, height - 1, r)
    BY <2>1 DEF VerifySignature
  <2>3. e = x
    BY <2>1, <2>2 DEF Sign
  <2> QED
    BY <1>3, <2>1, <2>3 DEF Authentic
<1> QED
  BY <1>2, <1>3 DEF IsVote

\* What PrepareProposal makes of a commit has authentic votes.
LEMMA PreparedIsAuthentic ==
    ASSUME LastTyped, NEW local \in Commits, NEW s,
           PrepareProposal(s, local) # NoProposal
    PROVE  AuthenticCommit(PrepareProposal(s, local))
<1> DEFINE ec == PrepareProposal(s, local)
           v == [i \in DOMAIN Validators |->
                   IF ValidVote(s, "PrepareProposal", local.votes[i]) THEN local.votes[i]
                   ELSE Prune(local.votes[i])]
<1>1. ec = [local EXCEPT !.votes =
               [i \in DOMAIN local.votes |->
                   IF ValidVote(s, "PrepareProposal", local.votes[i]) THEN local.votes[i]
                   ELSE Prune(local.votes[i])]]
  BY DEF PrepareProposal
<1>2. /\ local = [round |-> last.round, votes |-> local.votes]
      /\ DOMAIN local.votes = DOMAIN Validators
      /\ \A i \in DOMAIN Validators : IsVote(local.votes[i], Validators[i])
  BY CommitVotes
<1>3. ec = [local EXCEPT !.votes = v]
  BY <1>1, <1>2
<1>4. ec.votes = v
  <2> HIDE DEF ec, v
  <2> QED
    BY <1>2, <1>3
<1>5. \A i \in DOMAIN Validators : Authentic(v[i], Validators[i])
  BY <1>2, KeptVote
<1>6. DOMAIN v = DOMAIN Validators
  OBVIOUS
<1> QED
  <2> HIDE DEF ec, v
  <2>1. AuthenticCommit(ec)
    BY <1>4, <1>5, <1>6 DEF AuthenticCommit
  <2> QED
    BY <2>1 DEF ec

\* What a proposer in Byz makes of a commit and an honest validator accepts has
\* authentic votes: an extension is only exchanged for one with the same signature,
\* and a vote stands only at the place of its validator.
LEMMA TamperedIsAuthentic ==
    ASSUME LastTyped, NEW lc \in Commits, NEW ec \in Tampered(lc), Accepted(ec, lc)
    PROVE  AuthenticCommit(ec)
<1>1. /\ lc = [round |-> last.round, votes |-> lc.votes]
      /\ lc.votes = [i \in DOMAIN Validators |-> lc.votes[i]]
      /\ \A i \in DOMAIN Validators : IsVote(lc.votes[i], Validators[i])
  BY CommitVotes
<1>2. \A i \in DOMAIN Validators : lc.votes[i].addr = Validators[i]
  BY <1>1, KeptVote DEF Authentic
<1>3. PICK n \in Honest : ProcessProposal(store[n], ec, lc)
  BY QuorumHasHonest DEF Accepted
<1>4. /\ ValidateExtendedCommitAgainstLastCommit(ec, lc)
      /\ \A i \in DOMAIN ec.votes :
            /\ ec.votes[i].flag = "Commit" => VerifySignature(ec.votes[i], height - 1, ec.round)
            /\ ec.votes[i].flag # "Commit" => ec.votes[i].ext = NoExt
  BY <1>3 DEF ProcessProposal, ValidateVoteExtensions
<1>5. ASSUME NEW I \in SUBSET DOMAIN lc.votes,
             ec = [lc EXCEPT !.votes = [i \in DOMAIN lc.votes |->
                      IF i \in I THEN Prune(lc.votes[i]) ELSE lc.votes[i]]]
      PROVE  AuthenticCommit(ec)
  <2> DEFINE v == [i \in DOMAIN Validators |->
                      IF i \in I THEN Prune(lc.votes[i]) ELSE lc.votes[i]]
  <2>1. ec.votes = v
    BY <1>1, <1>5
  <2>2. \A i \in DOMAIN Validators : Authentic(v[i], Validators[i])
    BY <1>1, KeptVote
  <2> QED
    BY <2>1, <2>2 DEF AuthenticCommit
<1>6. ASSUME NEW i \in DOMAIN lc.votes, NEW e, ec = [lc EXCEPT !.votes[i].ext = e]
      PROVE  AuthenticCommit(ec)
  <2> DEFINE w == [lc.votes[i] EXCEPT !.ext = e]
  <2>1. i \in DOMAIN Validators /\ ec.votes = [lc.votes EXCEPT ![i] = w]
    BY <1>1, <1>6
  <2>2. ec.votes[i] = w /\ DOMAIN ec.votes = DOMAIN Validators
    BY <1>1, <2>1
  <2>3. Authentic(w, Validators[i])
    BY <1>1, <1>4, <2>1, <2>2, ExchangedVote, ZenonT(40)
  <2>4. \A j \in DOMAIN Validators : j # i => Authentic(ec.votes[j], Validators[j])
    <3> HIDE DEF w
    <3> QED
      BY <1>1, <2>1, KeptVote
  <2> QED
    BY <2>2, <2>3, <2>4 DEF AuthenticCommit
<1>7. ASSUME NEW i \in DOMAIN lc.votes, NEW j \in DOMAIN lc.votes,
             ec = [lc EXCEPT !.votes[i] = lc.votes[j]]
      PROVE  AuthenticCommit(ec)
  <2>1. /\ i \in DOMAIN Validators /\ j \in DOMAIN Validators
        /\ ec.votes = [lc.votes EXCEPT ![i] = lc.votes[j]]
    BY <1>1, <1>7
  <2>2. DOMAIN ec.votes = DOMAIN Validators /\ ec.votes[i] = lc.votes[j]
    BY <1>1, <2>1
  <2>3. ec.votes[i].addr = lc.votes[i].addr
    BY <1>4, <2>1, <2>2 DEF ValidateExtendedCommitAgainstLastCommit
  <2>4. i = j
    BY <1>2, <2>1, <2>2, <2>3, ABCIAssumption
  <2>5. ec.votes = lc.votes
    BY <1>1, <2>1, <2>4
  <2> QED
    BY <1>1, <2>5, KeptVote DEF AuthenticCommit
<1> QED
  BY <1>5, <1>6, <1>7 DEF Tampered

-----------------------------------------------------------------------------
(* What the PreBlocker makes of a store.  A price is a big.Int that is not   *)
(* negative: AnyPrice says that all of them can be written.                  *)

AnyPrice == Price = Nat

\* A proposal that the PreBlocker can be run on.
GoodProposal(ec) == VoteExtensionsEnabled => AuthenticCommit(ec) /\ ~PreBlockFails(ec)

\* The votes of a good proposal decode to encoded prices.
LEMMA GoodVotes ==
    ASSUME NEW ec, GoodProposal(ec), VoteExtensionsEnabled, NEW i \in DOMAIN Validators
    PROVE  \A id \in ID : Decode(ec.votes[i].ext)[id] \in Int \cup {NoValue, Garbled}
<1>1. /\ DOMAIN ec.votes = DOMAIN Validators
      /\ ec.votes[i].ext \in Extension /\ ec.votes[i].ext # Undecodable
      /\ \A id \in ID : Decode(ec.votes[i].ext)[id] # TooLong
  BY DEF GoodProposal, AuthenticCommit, Authentic, PreBlockFails
<1> QED
  BY <1>1 DEF Extension, PriceMap, Decode, EmptyExt

\* GetOracleVotes finds the vote of every validator.
LEMMA VoteFound ==
    ASSUME NEW ec, AuthenticCommit(ec), NEW n \in Node
    PROVE  /\ (CHOOSE i \in DOMAIN ec.votes : ec.votes[i].addr = n) \in DOMAIN Validators
           /\ Validators[CHOOSE i \in DOMAIN ec.votes : ec.votes[i].addr = n] = n
<1>1. PICK j \in DOMAIN Validators : Validators[j] = n
  BY DEF Node
<1>2. j \in DOMAIN ec.votes /\ ec.votes[j].addr = n
  BY <1>1 DEF AuthenticCommit, Authentic
<1> DEFINE k == CHOOSE i \in DOMAIN ec.votes : ec.votes[i].addr = n
<1>3. k \in DOMAIN ec.votes /\ ec.votes[k].addr = n
  BY <1>2
<1> HIDE DEF k
<1>4. k \in DOMAIN Validators /\ Validators[k] = n
  BY <1>3 DEF AuthenticCommit, Authentic
<1> QED
  BY <1>4 DEF k

\* The pair of an id is in state, and has that id; ids are not shared.
LEMMA NamedPair ==
    ASSUME NEW s, StoreInv(s), NEW id, NEW cp \in CurrencyPair
    PROVE  StateFromID(s, id) = cp <=> HasCurrencyPair(s, cp) /\ GetIDForCurrencyPair(s, cp) = id
<1>1. \A c, d \in GetAllCurrencyPairs(s) : s.currencyPairs[c].id = s.currencyPairs[d].id => c = d
  BY DEF StoreInv, ValidGenesis, ExportGenesis, GenesisPairs, GetAllCurrencyPairs
<1>2. ASSUME StateFromID(s, id) = cp
      PROVE  HasCurrencyPair(s, cp) /\ GetIDForCurrencyPair(s, cp) = id
  <2>1. MatchExact(s, id) # {}
    BY <1>2, ABCIValues DEF StateFromID
  <2>2. cp \in MatchExact(s, id)
    BY <1>2, <2>1 DEF StateFromID, GetCurrencyPairFromID
  <2> QED
    BY <2>2 DEF MatchExact, HasCurrencyPair, GetIDForCurrencyPair
<1>3. ASSUME HasCurrencyPair(s, cp), GetIDForCurrencyPair(s, cp) = id
      PROVE  StateFromID(s, id) = cp
  <2>1. MatchExact(s, id) = {cp}
    BY <1>1, <1>3 DEF MatchExact, HasCurrencyPair, GetIDForCurrencyPair
  <2> QED
    BY <2>1 DEF StateFromID, GetCurrencyPairFromID
<1> QED
  BY <1>2, <1>3

\* The on-chain price of a pair in state is a natural number.
LEMMA StatePriceType ==
    ASSUME NEW s, StoreInv(s), NEW cp, HasCurrencyPair(s, cp)
    PROVE  StatePrice(s, cp) \in Nat
<1>1. s.currencyPairs[cp] \in CurrencyPairState
  BY DEF StoreInv, Store, PairMap, HasCurrencyPair, GetAllCurrencyPairs
<1> QED
  BY <1>1, ABCIAssumption DEF StatePrice, GetPriceForCurrencyPair, CurrencyPairState

\* A vote says a natural number of a pair, or nothing.
LEMMA VotePriceType ==
    ASSUME NEW s, StoreInv(s), NEW c, NEW h, Fresh(c, s, h), NEW e, NEW cp \in CurrencyPair,
           \A id \in ID : e[id] \in Int \cup {NoValue, Garbled}
    PROVE  VotePrice(s, c, h, e, cp) \in Nat \cup {NoPrice}
<1> DEFINE ids == {id \in ID : e[id] # NoValue /\ FromID(s, c, h, id) = cp}
           k == CHOOSE id \in ids : TRUE
<1>1. CASE ids = {}
  BY <1>1 DEF VotePrice
<1>2. CASE ids # {}
  <2>1. k \in ids
    BY <1>2
  <2>2. e[k] \in Int \cup {Garbled}
    BY <2>1
  <2>3. FromID(s, c, h, k) = StateFromID(s, k) /\ FromID(s, c, h, k) = cp
    BY <2>1, FreshReads
  <2>4. getOnChainPrice(s, c, h, cp) \in Nat
    <3>1. StateFromID(s, k) = cp
      BY <2>3
    <3> HIDE DEF k
    <3>2. HasCurrencyPair(s, cp)
      BY <3>1, NamedPair
    <3>3. getOnChainPrice(s, c, h, cp) = StatePrice(s, cp)
      BY FreshReads
    <3> QED
      BY <3>2, <3>3, StatePriceType
  <2>5. VotePrice(s, c, h, e, cp) = GetDecodedPrice(s, c, h, cp, e[k])
    BY <1>2 DEF VotePrice
  <2> HIDE DEF k
  <2> QED
    BY <2>2, <2>4, <2>5 DEF GetDecodedPrice
<1> QED
  BY <1>1, <1>2

\* The prices that the PreBlocker writes are prices.
LEMMA AggregateType ==
    ASSUME NEW s, StoreInv(s), NEW c, Fresh(c, s, height), NEW ec, GoodProposal(ec),
           VoteExtensionsEnabled
    PROVE  AggregateOracleVotes(s, c, height, ec) \in [CurrencyPair -> Nat \cup {NoPrice}]
<1> DEFINE vote == [n \in Node |-> CHOOSE i \in DOMAIN ec.votes : ec.votes[i].addr = n]
           says(cp) == [n \in Node |-> VotePrice(s, c, height, Decode(ec.votes[vote[n]].ext), cp)]
<1>1. AggregateOracleVotes(s, c, height, ec) = [cp \in CurrencyPair |-> Median(says(cp))]
  BY DEF AggregateOracleVotes
<1>2. \A n \in Node : vote[n] \in DOMAIN Validators
  BY VoteFound DEF GoodProposal
<1> HIDE DEF vote
<1>3. \A cp \in CurrencyPair : says(cp) \in [Node -> Nat \cup {NoPrice}]
  BY <1>2, GoodVotes, VotePriceType
<1> HIDE DEF says
<1>4. \A cp \in CurrencyPair : Median(says(cp)) \in Nat \cup {NoPrice}
  BY <1>3, MedianInRange
<1> QED
  BY <1>1, <1>4

\* The PreBlocker keeps the store's invariant, its pairs and its counters.
LEMMA PreBlockerLemma ==
    ASSUME AnyPrice, NEW s, StoreInv(s), NEW c, Fresh(c, s, height), NEW ec, GoodProposal(ec)
    PROVE  LET t == PreBlocker(s, c, ec)
           IN  /\ StoreInv(t)
               /\ t.numCPs = s.numCPs /\ t.numRemoves = s.numRemoves
               /\ t.nextCurrencyPairID = s.nextCurrencyPairID
               /\ GetAllCurrencyPairs(t) = GetAllCurrencyPairs(s)
               /\ \A cp \in GetAllCurrencyPairs(s) :
                     GetIDForCurrencyPair(t, cp) = GetIDForCurrencyPair(s, cp)
<1>1. CASE ~VoteExtensionsEnabled
  BY <1>1 DEF PreBlocker
<1>2. CASE VoteExtensionsEnabled
  <2> DEFINE prices == AggregateOracleVotes(s, c, height, ec)
             t == WritePrices(s, prices)
  <2>1. PreBlocker(s, c, ec) = t
    BY <1>2 DEF PreBlocker
  <2>2. prices \in [CurrencyPair -> Price \cup {NoPrice}]
    BY <1>2, AggregateType DEF AnyPrice
  <2> HIDE DEF prices
  <2>3. StoreInv(t) /\ t.numCPs = s.numCPs /\ t.numRemoves = s.numRemoves
    BY <2>2, WriteLemma
  <2>4. s \in Store
    BY DEF StoreInv
  <2>5. t.nextCurrencyPairID = s.nextCurrencyPairID
    BY <2>4 DEF WritePrices, Store
  <2>6. \A cp \in CurrencyPair : t.currencyPairs[cp] =
            IF HasCurrencyPair(s, cp) /\ prices[cp] # NoPrice
            THEN [id |-> s.currencyPairs[cp].id,
                  nonce |-> s.currencyPairs[cp].nonce + 1, price |-> prices[cp]]
            ELSE s.currencyPairs[cp]
    BY <2>4 DEF WritePrices, SetPriceForCurrencyPair, Store, PairMap
  <2> HIDE DEF t
  <2>7. ASSUME NEW cp \in CurrencyPair
        PROVE  /\ cp \in GetAllCurrencyPairs(t) <=> cp \in GetAllCurrencyPairs(s)
               /\ cp \in GetAllCurrencyPairs(s) => t.currencyPairs[cp].id = s.currencyPairs[cp].id
    <3>1. CASE ~(HasCurrencyPair(s, cp) /\ prices[cp] # NoPrice)
      BY <2>6, <3>1 DEF GetAllCurrencyPairs
    <3>2. CASE HasCurrencyPair(s, cp) /\ prices[cp] # NoPrice
      <4>1. s.currencyPairs[cp] \in CurrencyPairState
        BY <2>4, <3>2 DEF HasCurrencyPair, GetAllCurrencyPairs, Store, PairMap
      <4> DEFINE new == [id |-> s.currencyPairs[cp].id,
                         nonce |-> s.currencyPairs[cp].nonce + 1, price |-> prices[cp]]
      <4>2. new \in CurrencyPairState /\ new.id = s.currencyPairs[cp].id
        BY <2>2, <4>1 DEF CurrencyPairState
      <4>3. t.currencyPairs[cp] = new
        BY <2>6, <3>2
      <4> HIDE DEF new
      <4> QED
        BY <3>2, <4>2, <4>3, StoreAssumption DEF HasCurrencyPair, GetAllCurrencyPairs
    <3> QED
      BY <3>1, <3>2
  <2>8. GetAllCurrencyPairs(t) = GetAllCurrencyPairs(s)
    BY <2>7 DEF GetAllCurrencyPairs
  <2>9. \A cp \in GetAllCurrencyPairs(s) : t.currencyPairs[cp].id = s.currencyPairs[cp].id
    BY <2>7 DEF GetAllCurrencyPairs
  <2> QED
    BY <2>1, <2>3, <2>5, <2>8, <2>9 DEF GetIDForCurrencyPair
<1> QED
  BY <1>1, <1>2

-----------------------------------------------------------------------------
(* The extension of an honest validator *)

\* It is empty or has at most max prices, each a number.
HonestExt(e, max) ==
    \/ e = NoExt
    \/ e \in [ID -> Int \cup {NoValue}] /\ NumPrices(e) <= max

\* The prices that a strategy caches are on-chain prices.
CacheType(c, h) == c.height \in 0..h /\ c.prices \in [CurrencyPair -> Nat \cup {NoValue}]

Quote == [CurrencyPair -> Price \cup {NoPrice}]

\* What getOnChainPrice answers, from state or from a cache of whatever round.
LEMMA OnChainType ==
    ASSUME NEW s, StoreInv(s), NEW h, NEW c, CacheType(c, h), NEW cp, HasCurrencyPair(s, cp)
    PROVE  getOnChainPrice(s, c, h, cp) \in Nat
<1>1. cp \in CurrencyPair
  BY DEF HasCurrencyPair, GetAllCurrencyPairs
<1>2. PriceCache(c, h)[cp] \in Nat \cup {NoValue}
  BY <1>1 DEF PriceCache, CacheType, NoPrices
<1>3. StatePrice(s, cp) \in Nat
  BY StatePriceType
<1> QED
  BY <1>2, <1>3 DEF getOnChainPrice, StatePrice

\* transformOracleServicePrices names every pair once: it makes no more prices
\* than there are pairs.
LEMMA TransformLemma ==
    ASSUME NEW s, StoreInv(s), NEW c, CacheType(c, height), NEW quote \in Quote
    PROVE  HonestExt(Transform(s, c, quote), s.numCPs)
<1> DEFINE known == {cp \in GetAllCurrencyPairs(s) : quote[cp] # NoPrice}
           named == [id \in ID |-> {cp \in known : GetIDForCurrencyPair(s, cp) = id}]
           pick(id) == CHOOSE cp \in named[id] : TRUE
           e == Transform(s, c, quote)
           ids == {id \in ID : e[id] # NoValue}
           all == {GetIDForCurrencyPair(s, cp) : cp \in GetAllCurrencyPairs(s)}
<1>1. e = [id \in ID |-> IF named[id] = {} THEN NoValue
                         ELSE GetEncodedPrice(s, c, height, pick(id), quote[pick(id)])]
  BY Zenon DEF Transform
<1>2. ASSUME NEW id \in ID, named[id] # {}
      PROVE  /\ GetEncodedPrice(s, c, height, pick(id), quote[pick(id)]) \in Int
             /\ id \in all
  <2>1. pick(id) \in named[id]
    BY <1>2
  <2>2. pick(id) \in known /\ GetIDForCurrencyPair(s, pick(id)) = id
    BY <2>1
  <2>3. HasCurrencyPair(s, pick(id)) /\ pick(id) \in CurrencyPair /\ quote[pick(id)] # NoPrice
    BY <2>2 DEF HasCurrencyPair, GetAllCurrencyPairs
  <2> HIDE DEF pick
  <2>4. getOnChainPrice(s, c, height, pick(id)) \in Nat
    BY <2>3, OnChainType
  <2>5. quote[pick(id)] \in Nat
    BY <2>3, ABCIAssumption DEF Quote
  <2> QED
    BY <2>2, <2>4, <2>5 DEF GetEncodedPrice
<1> HIDE DEF named, pick
<1>3. e \in [ID -> Int \cup {NoValue}]
  BY <1>1, <1>2
<1>4. ids \subseteq all
  BY <1>1, <1>2
<1>5. IsFiniteSet(all) /\ Cardinality(all) <= Cardinality(GetAllCurrencyPairs(s))
  <2> DEFINE f == [cp \in GetAllCurrencyPairs(s) |-> GetIDForCurrencyPair(s, cp)]
  <2>1. f \in Surjection(GetAllCurrencyPairs(s), all)
    BY DEF Surjection
  <2> HIDE DEF f, all
  <2> QED
    BY <2>1, PairsFinite, FS_Surjection
<1>6. Cardinality(ids) <= Cardinality(all) /\ Cardinality(ids) \in Nat
      /\ Cardinality(all) \in Nat /\ Cardinality(GetAllCurrencyPairs(s)) \in Nat
  <2> HIDE DEF ids, all
  <2> QED
    BY <1>4, <1>5, PairsFinite, FS_Subset, FS_CardinalityType
<1>7. Cardinality(ids) <= s.numCPs
  BY <1>5, <1>6 DEF StoreInv
<1> HIDE DEF e
<1>8. HonestExt(e, s.numCPs)
  BY <1>3, <1>7 DEF HonestExt, NumPrices
<1> QED
  BY <1>8 DEF e

\* What the vote handler's strategy remembers are on-chain prices.
LEMMA RememberLemma ==
    ASSUME NEW s, StoreInv(s), NEW c, height \in Nat, CacheType(c, height),
           NEW known \in SUBSET GetAllCurrencyPairs(s)
    PROVE  CacheType(Remember(s, c, height, {}, known), height)
<1> DEFINE r == Remember(s, c, height, {}, known)
<1>1. r.height \in 0..height
  BY DEF Remember, CacheType
<1>2. CASE known = {} \/ Strategy # "delta"
  BY <1>1, <1>2 DEF Remember, CacheType
<1>3. CASE ~(known = {} \/ Strategy # "delta")
  <2>1. r.prices = [cp \in CurrencyPair |->
                       IF cp \in known THEN getOnChainPrice(s, c, height, cp)
                       ELSE PriceCache(c, height)[cp]]
    BY <1>3 DEF Remember
  <2>2. \A cp \in known : getOnChainPrice(s, c, height, cp) \in Nat
    BY OnChainType DEF HasCurrencyPair
  <2>3. \A cp \in CurrencyPair : PriceCache(c, height)[cp] \in Nat \cup {NoValue}
    BY DEF PriceCache, CacheType, NoPrices
  <2> HIDE DEF r
  <2>4. CacheType(r, height)
    BY <1>1, <2>1, <2>2, <2>3 DEF CacheType
  <2> QED
    BY <2>4 DEF r
<1> QED
  BY <1>2, <1>3

-----------------------------------------------------------------------------
(* The invariant of the chain *)

\* The heights are bounded, and the PreBlocker can be run on the proposal.
ProposalInv ==
    /\ height \in 1..(MaxHeight + 1) /\ round \in Nat
    /\ proposal # NoProposal => height <= MaxHeight /\ GoodProposal(proposal)
    /\ ~VoteExtensionsEnabled => proposal \in {NoProposal, NoInfo}

\* The stores satisfy the invariant of x/oracle.
StoresInv == \A n \in Honest : StoreInv(store[n]) /\ store[n].nextCurrencyPairID <= MaxID

\* What the honest validators voted in this round has as many prices as the state
\* allows, and what they cached are on-chain prices.
VotesInv ==
    /\ ext = [n \in Honest |-> ext[n]]
    /\ reported \in [Honest -> Quote]
    /\ veCache = [n \in Honest |-> veCache[n]]
    /\ \A n \in Honest :
          /\ ext[n] = NoValue \/ HonestExt(ext[n], store[n].numCPs)
          /\ CacheType(veCache[n], height)

\* What they voted at the last height has as many prices as VerifyVoteExtension
\* allowed then, and no more than proposals allow now.
LastInv ==
    /\ last.round \in Nat /\ last.maxNumCP \in Nat
    /\ last.reported \in [Honest -> Quote]
    /\ \A n \in Honest :
          /\ last.ext[n] = NoValue \/ HonestExt(last.ext[n], last.maxNumCP)
          /\ last.maxNumCP <= store[n].numCPs + store[n].numRemoves

ChainInv == AgreeInv /\ ProposalInv /\ StoresInv /\ VotesInv /\ LastInv

\* An honest extension is an extension.
LEMMA HonestExtType ==
    ASSUME NEW e, NEW max, HonestExt(e, max)
    PROVE  e \in Extension /\ e # NoValue
BY ABCIValues DEF HonestExt, Extension, PriceMap

\* At the start the invariant holds.
LEMMA ChainInit == Init => ChainInv
<1> SUFFICES ASSUME Init PROVE ChainInv
  OBVIOUS
<1>1. AgreeInv
  BY AgreeInit
<1>2. ProposalInv
  BY ABCIAssumption DEF Init, ProposalInv
<1>3. \A n \in Honest : StoreInv(store[n]) /\ store[n].nextCurrencyPairID <= MaxID
  <2>1. StoreInv(InitGenesis(Genesis0))
    BY GenesisLemma, ABCIAssumption
  <2>2. InitGenesis(Genesis0).nextCurrencyPairID <= MaxID
    BY ABCIAssumption DEF InitGenesis
  <2> QED
    BY <2>1, <2>2 DEF Init
<1>4. NoReports \in [Honest -> Quote]
  BY DEF NoReports, Quote
<1>5. CacheType(NewStrategy, 1)
  BY DEF CacheType, NewStrategy, NoPrices
<1>6. VotesInv
  BY <1>4, <1>5 DEF Init, VotesInv, NoVotes
<1>7. LastInv
  <2>1. \A n \in Honest : store[n].numCPs \in Nat /\ store[n].numRemoves \in Nat
    BY <1>3 DEF StoreInv, Store
  <2> QED
    BY <1>4, <2>1 DEF Init, LastInv, NoVotes
<1> QED
  BY <1>1, <1>2, <1>3, <1>6, <1>7 DEF ChainInv, StoresInv

\* The extensions of the last height are typed.
LEMMA ChainLastTyped == ChainInv => LastTyped
BY HonestExtType DEF ChainInv, LastInv, LastTyped

\* A proposal that is accepted is good.
LEMMA ProposeStep ==
    ASSUME ChainInv, ProposeByz \/ \E n \in Honest : Propose(n)
    PROVE  ProposalInv'
<1>1. LastTyped
  BY ChainLastTyped
<1>2. ASSUME NEW n \in Honest, Propose(n)
      PROVE  AuthenticCommit(proposal') /\ ~PreBlockFails(proposal')
  <2>1. PICK local \in Commits :
           /\ PrepareProposal(store[n], local) # NoProposal
           /\ Accepted(PrepareProposal(store[n], local), local)
           /\ proposal' = PrepareProposal(store[n], local)
    BY <1>2 DEF Propose, LocalCommits
  <2> QED
    BY <1>1, <2>1, PreparedIsAuthentic, AcceptedDecodes
<1>3. ASSUME ProposeByz
      PROVE  AuthenticCommit(proposal') /\ ~PreBlockFails(proposal')
  <2>1. PICK lc \in Commits : \E ec \in Tampered(lc) : Accepted(ec, lc) /\ proposal' = ec
    BY <1>3 DEF ProposeByz
  <2> QED
    BY <1>1, <2>1, TamperedIsAuthentic, AcceptedDecodes
<1>4. /\ AuthenticCommit(proposal') /\ ~PreBlockFails(proposal')
      /\ VoteExtensionsEnabled /\ height <= MaxHeight
      /\ UNCHANGED <<height, round, last>>
  BY <1>2, <1>3 DEF Propose, ProposeByz
<1>5. AuthenticCommit(proposal)' /\ ~PreBlockFails(proposal)' /\ VoteExtensionsEnabled'
  BY <1>4 DEF AuthenticCommit, Authentic, PreBlockFails, VoteExtensionsEnabled
<1> QED
  BY <1>4, <1>5 DEF ChainInv, ProposalInv, GoodProposal

\* ProposalInv only speaks of these variables.
LEMMA SameProposal ==
    ASSUME ProposalInv, UNCHANGED <<height, round, proposal, last>>
    PROVE  ProposalInv'
BY DEF ProposalInv, GoodProposal, AuthenticCommit, Authentic, PreBlockFails, VoteExtensionsEnabled

\* ExtendVote makes an honest extension.
LEMMA ExtendStep ==
    ASSUME AnyPrice, ChainInv, NEW n \in Honest, ExtendVote(n)
    PROVE  VotesInv'
<1>1. PICK quote \in Quotes :
         LET s == PreBlocker(store[n], preCache[n], proposal)
             answered == ~PreBlockFails(proposal) /\ quote # NoAnswer
             known == {cp \in GetAllCurrencyPairs(s) : quote[cp] # NoPrice}
         IN  /\ ext' = [ext EXCEPT ![n] =
                    IF answered THEN Transform(s, veCache[n], quote) ELSE NoExt]
             /\ reported' = IF answered
                   THEN [reported EXCEPT ![n] =
                           [cp \in CurrencyPair |-> IF cp \in known THEN quote[cp] ELSE NoPrice]]
                   ELSE reported
             /\ veCache' = IF answered
                   THEN [veCache EXCEPT ![n] = Remember(s, veCache[n], height, {}, known)]
                   ELSE veCache
  BY DEF ExtendVote
<1> DEFINE s == PreBlocker(store[n], preCache[n], proposal)
           answered == ~PreBlockFails(proposal) /\ quote # NoAnswer
           known == {cp \in GetAllCurrencyPairs(s) : quote[cp] # NoPrice}
           e == IF answered THEN Transform(s, veCache[n], quote) ELSE NoExt
           r == IF answered THEN [cp \in CurrencyPair |-> IF cp \in known THEN quote[cp] ELSE NoPrice]
                ELSE reported[n]
           c == IF answered THEN Remember(s, veCache[n], height, {}, known) ELSE veCache[n]
<1>2. UNCHANGED <<height, store>> /\ proposal # NoProposal
  BY DEF ExtendVote
<1>3. StoreInv(s) /\ s.numCPs = store[n].numCPs
  BY <1>2, PreBlockerLemma DEF ChainInv, StoresInv, AgreeInv, ProposalInv
<1>4. CacheType(veCache[n], height) /\ height \in Nat
  BY DEF ChainInv, VotesInv, AgreeInv
<1>5. answered => quote \in Quote
  BY ABCIAssumption DEF Quote
<1>6. known \in SUBSET GetAllCurrencyPairs(s)
  OBVIOUS
<1> HIDE DEF s, known
<1>7. HonestExt(e, store[n].numCPs)
  <2>1. CASE answered
    <3>1. HonestExt(Transform(s, veCache[n], quote), s.numCPs)
      BY <1>3, <1>4, <1>5, <2>1, TransformLemma
    <3> QED
      BY <1>3, <2>1, <3>1
  <2>2. CASE ~answered
    BY <2>2 DEF HonestExt
  <2> QED
    BY <2>1, <2>2
<1>8. r \in Quote
  BY <1>5 DEF Quote, ChainInv, VotesInv
<1>9. CacheType(c, height)
  BY <1>3, <1>4, <1>6, RememberLemma
<1>10. ext' = [ext EXCEPT ![n] = e]
  BY <1>1 DEF s
<1>11. reported' = [reported EXCEPT ![n] = r]
  BY <1>1 DEF s, known, ChainInv, VotesInv
<1>12. veCache' = [veCache EXCEPT ![n] = c]
  BY <1>1 DEF s, known, ChainInv, VotesInv
<1> HIDE DEF answered, e, r, c
<1> QED
  BY <1>2, <1>7, <1>8, <1>9, <1>10, <1>11, <1>12 DEF ChainInv, VotesInv

\* There are honest validators.
LEMMA SomeHonest == Honest # {}
<1>1. IsQuorum(Node)
  BY PowerType, ABCIAssumption DEF IsQuorum
<1>2. Node = Byz \cup Honest
  BY ABCIAssumption DEF Honest
<1> QED
  BY <1>1, <1>2, QuorumHasHonest

\* The committed store is the PreBlocker's, after BeginBlock and the messages.
LEMMA FinalizeStore ==
    ASSUME AnyPrice, ChainInv, FinalizeBlock, NEW n \in Honest
    PROVE  LET p == PreBlocker(store[n], preCache[n], proposal)
           IN  /\ StoreInv(p) /\ Later(BeginBlocker(p), store'[n])
               /\ BeginBlocker(p).currencyPairs = p.currencyPairs
               /\ BeginBlocker(p).nextCurrencyPairID = p.nextCurrencyPairID
               /\ p.nextCurrencyPairID = store[n].nextCurrencyPairID
               /\ BeginBlocker(p).numCPs = store[n].numCPs
               /\ BeginBlocker(p).numRemoves = 0
<1> DEFINE p == PreBlocker(store[n], preCache[n], proposal)
<1>1. PICK msgs \in BlockMsgs : store' = [m \in Honest |->
          DeliverAll(BeginBlocker(PreBlocker(store[m], preCache[m], proposal)), msgs)]
  BY DEF FinalizeBlock
<1>2. msgs \in Seq(Msg)
  BY ABCIAssumption DEF Msg
<1>3. proposal # NoProposal
  BY DEF FinalizeBlock
<1>4. /\ StoreInv(p) /\ p.numCPs = store[n].numCPs
      /\ p.nextCurrencyPairID = store[n].nextCurrencyPairID
  BY <1>3, PreBlockerLemma DEF ChainInv, StoresInv, AgreeInv, ProposalInv
<1>5. store'[n] = DeliverAll(BeginBlocker(p), msgs)
  BY <1>1
<1> HIDE DEF p
<1>6. /\ StoreInv(BeginBlocker(p)) /\ BeginBlocker(p).numCPs = p.numCPs
      /\ BeginBlocker(p).numRemoves = 0
  BY <1>4, BeginLemma
<1>7. /\ BeginBlocker(p).currencyPairs = p.currencyPairs
      /\ BeginBlocker(p).nextCurrencyPairID = p.nextCurrencyPairID
  BY <1>4 DEF BeginBlocker, StoreInv, Store
<1>8. Later(BeginBlocker(p), store'[n])
  BY <1>2, <1>5, <1>6, DeliverAllLater
<1> QED
  BY <1>4, <1>6, <1>7, <1>8 DEF p

\* The bound of VerifyVoteExtension is the number of pairs at the last height.
LEMMA FinalizeMax ==
    ASSUME ChainInv, FinalizeBlock, NEW n \in Honest
    PROVE  last'.maxNumCP = store[n].numCPs /\ store[n].numCPs \in Nat
<1> DEFINE S == {GetMaxNumCP(store[m], "VerifyVoteExtension") : m \in Honest}
<1>1. \A m \in Honest : GetMaxNumCP(store[m], "VerifyVoteExtension") = store[n].numCPs
  BY DEF GetMaxNumCP, ChainInv, AgreeInv, NodesAgree
<1>2. S = {store[n].numCPs}
  BY <1>1
<1>3. store[n].numCPs \in Nat
  BY DEF ChainInv, StoresInv, StoreInv, Store
<1>4. Min({store[n].numCPs}) = store[n].numCPs
  BY <1>3 DEF Min
<1> QED
  BY <1>2, <1>3, <1>4 DEF FinalizeBlock

\* FinalizeBlock keeps the invariant.
LEMMA FinalizeStep ==
    ASSUME AnyPrice, ChainInv, FinalizeBlock
    PROVE  ProposalInv' /\ StoresInv' /\ VotesInv' /\ LastInv'
<1>1. ProposalInv'
  <2>1. height' = height + 1 /\ round' = 0 /\ proposal' = NoProposal /\ proposal # NoProposal
    BY DEF FinalizeBlock
  <2> QED
    BY <2>1, ABCIAssumption DEF ChainInv, ProposalInv
<1>2. StoresInv'
  <2> SUFFICES ASSUME NEW n \in Honest
               PROVE  StoreInv(store'[n]) /\ store'[n].nextCurrencyPairID <= MaxID
    BY DEF StoresInv
  <2> QED
    BY FinalizeStore DEF Later, ChainInv, StoresInv
<1>3. VotesInv'
  <2>1. NoReports \in [Honest -> Quote]
    BY DEF NoReports, Quote
  <2>2. /\ ext' = NoVotes /\ reported' = NoReports /\ veCache' = veCache
        /\ height' = height + 1 /\ height \in Nat
    BY DEF FinalizeBlock, ChainInv, AgreeInv
  <2>3. \A n \in Honest : CacheType(veCache[n], height')
    BY <2>2 DEF CacheType, ChainInv, VotesInv
  <2> QED
    BY <2>1, <2>2, <2>3 DEF VotesInv, NoVotes, ChainInv
<1>4. LastInv'
  <2>1. /\ last'.round = round /\ last'.ext = ext /\ last'.reported = reported
    BY DEF FinalizeBlock
  <2>2. ASSUME NEW n \in Honest
        PROVE  /\ last'.ext[n] = NoValue \/ HonestExt(last'.ext[n], last'.maxNumCP)
               /\ last'.maxNumCP <= store'[n].numCPs + store'[n].numRemoves
    <3>1. last'.maxNumCP = store[n].numCPs /\ store[n].numCPs \in Nat
      BY FinalizeMax
    <3>2. store[n].numCPs + 0 <= store'[n].numCPs + store'[n].numRemoves
      BY FinalizeStore DEF Later
    <3> QED
      BY <2>1, <3>1, <3>2 DEF ChainInv, VotesInv
  <2>3. last'.maxNumCP \in Nat
    BY FinalizeMax, SomeHonest
  <2> QED
    BY <2>1, <2>2, <2>3 DEF LastInv, ChainInv, VotesInv, ProposalInv
<1> QED
  BY <1>1, <1>2, <1>3, <1>4

\* Every step keeps the invariant.
LEMMA ChainStep ==
    ASSUME AnyPrice, ChainInv, [Next]_vars
    PROVE  ChainInv'
<1>1. AgreeInv'
  BY AgreeStep DEF ChainInv
<1>2. CASE UNCHANGED vars
  BY <1>1, <1>2, SameProposal DEF vars, ChainInv, StoresInv, VotesInv, LastInv
<1>3. CASE ProposeByz \/ \E n \in Honest : Propose(n)
  <2>1. ProposalInv'
    BY <1>3, ProposeStep
  <2>2. UNCHANGED <<height, store, ext, reported, veCache, last>>
    BY <1>3 DEF Propose, ProposeByz
  <2> QED
    BY <1>1, <2>1, <2>2 DEF ChainInv, StoresInv, VotesInv, LastInv
<1>4. CASE ProposeWithoutInfo
  <2>1. /\ UNCHANGED <<height, round, store, ext, reported, veCache, last>>
        /\ proposal' = NoInfo /\ ~VoteExtensionsEnabled /\ height <= MaxHeight
    BY <1>4 DEF ProposeWithoutInfo
  <2>2. ProposalInv'
    BY <2>1 DEF ChainInv, ProposalInv, GoodProposal, VoteExtensionsEnabled
  <2> QED
    BY <1>1, <2>1, <2>2 DEF ChainInv, StoresInv, VotesInv, LastInv
<1>5. ASSUME NEW n \in Honest, ExtendVote(n)
      PROVE  ChainInv'
  <2>1. VotesInv'
    BY <1>5, ExtendStep
  <2>2. UNCHANGED <<height, round, proposal, store, last>>
    BY <1>5 DEF ExtendVote
  <2> QED
    BY <1>1, <2>1, <2>2, SameProposal DEF ChainInv, StoresInv, LastInv
<1>6. CASE NextRound
  <2>1. /\ round' = round + 1 /\ proposal' = NoProposal /\ ext' = NoVotes
        /\ reported' = NoReports /\ UNCHANGED <<height, store, veCache, last>>
    BY <1>6 DEF NextRound
  <2>2. ProposalInv'
    BY <2>1 DEF ChainInv, ProposalInv, GoodProposal, VoteExtensionsEnabled
  <2>3. NoReports \in [Honest -> Quote]
    BY DEF NoReports, Quote
  <2>4. VotesInv'
    BY <2>1, <2>3 DEF ChainInv, VotesInv, NoVotes
  <2> QED
    BY <1>1, <2>1, <2>2, <2>4 DEF ChainInv, StoresInv, LastInv
<1>7. CASE FinalizeBlock
  BY <1>1, <1>7, FinalizeStep DEF ChainInv
<1>8. ASSUME NEW n \in Honest, Restart(n)
      PROVE  ChainInv'
  <2>1. /\ UNCHANGED <<height, round, proposal, store, ext, reported, last>>
        /\ veCache' = [veCache EXCEPT ![n] = NewStrategy] /\ height \in Nat
    BY <1>8 DEF Restart, ChainInv, AgreeInv
  <2>2. CacheType(NewStrategy, height)
    BY <2>1 DEF CacheType, NewStrategy, NoPrices
  <2>3. VotesInv'
    BY <2>1, <2>2 DEF ChainInv, VotesInv
  <2> QED
    BY <1>1, <2>1, <2>3, SameProposal DEF ChainInv, StoresInv, LastInv
<1> QED
  BY <1>2, <1>3, <1>4, <1>5, <1>6, <1>7, <1>8 DEF Next

\* The invariant holds of every state.
LEMMA ChainInvariant == ASSUME AnyPrice PROVE Spec => []ChainInv
<1>1. ChainInv /\ [Next]_vars => ChainInv'
  BY ChainStep
<1> QED
  BY <1>1, ChainInit, PTL DEF Spec

\* The handlers keep the types of the validators' state.
THEOREM ChainTypes == ASSUME AnyPrice PROVE Spec => []TypeOK
<1>1. ChainInv => TypeOK
  <2> SUFFICES ASSUME ChainInv PROVE TypeOK
    OBVIOUS
  <2>1. HasInfo => \A i \in DOMAIN proposal.votes : proposal.votes[i].ext \in Extension
    <3>1. HasInfo => AuthenticCommit(proposal)
      BY DEF HasInfo, ChainInv, ProposalInv, GoodProposal
    <3> QED
      BY <3>1 DEF AuthenticCommit, Authentic
  <2>2. ASSUME NEW n \in Honest
        PROVE  /\ store[n] \in Store
               /\ ext[n] \in Extension \cup {NoValue}
               /\ reported[n] \in [CurrencyPair -> Price \cup {NoPrice}]
               /\ preCache[n].height <= height /\ veCache[n].height <= height
    <3>1. ext[n] \in Extension \cup {NoValue}
      BY HonestExtType DEF ChainInv, VotesInv
    <3> QED
      BY <3>1 DEF ChainInv, StoresInv, StoreInv, VotesInv, AgreeInv, Fresh, CacheType, Quote
  <2> QED
    BY <2>1, <2>2 DEF TypeOK, ChainInv, ProposalInv
<1> QED
  BY <1>1, ChainInvariant, PTL

\* What VerifyVoteExtension says of an honest extension.
LEMMA HonestVerifies ==
    ASSUME NEW e, NEW max, HonestExt(e, max)
    PROVE  Verifies(max, e)
<1>1. CASE e = NoExt
  BY <1>1 DEF Verifies
<1>2. CASE e # NoExt
  <2>1. e \in PriceMap
    BY <1>2 DEF HonestExt, PriceMap
  <2>2. e # Undecodable /\ Decode(e) = e
    BY <1>2, <2>1, ABCIValues DEF Decode
  <2>3. \A id \in ID : e[id] # TooLong
    BY <1>2, ABCIValues DEF HonestExt
  <2> QED
    BY <1>2, <2>2, <2>3 DEF HonestExt, Verifies, ValidateOracleVoteExtension
<1> QED
  BY <1>1, <1>2

\* No honest vote is refused for its extension, whatever the oracle answers.
THEOREM HonestExtensionAlwaysVerifies ==
    ASSUME AnyPrice PROVE Spec => []HonestExtensionVerifies
<1>1. ChainInv => HonestExtensionVerifies
  <2> SUFFICES ASSUME ChainInv, NEW m \in Honest, NEW n \in Honest, ext[n] # NoValue
               PROVE  Verifies(GetMaxNumCP(store[m], "VerifyVoteExtension"), ext[n])
    BY DEF HonestExtensionVerifies
  <2>1. HonestExt(ext[n], store[n].numCPs) /\ store[m] = store[n]
    BY DEF ChainInv, VotesInv, AgreeInv, NodesAgree
  <2>2. GetMaxNumCP(store[m], "VerifyVoteExtension") = store[n].numCPs
    BY <2>1 DEF GetMaxNumCP
  <2> QED
    BY <2>1, <2>2, HonestVerifies
<1> QED
  BY <1>1, ChainInvariant, PTL

-----------------------------------------------------------------------------
(* Encoding and decoding.  With the delta strategy, a validator that extends *)
(* its vote in a second round encodes against a price cached in the first    *)
(* (the run StaleDelta); the theorems are about the other cases.             *)

Steady == Strategy = "default" \/ \A h \in 1..MaxHeight : MaxRound[h] = 0

\* Extension e of a validator whose oracle reported r, encoded against s.
Encodes(e, r, s) ==
    \A cp \in GetAllCurrencyPairs(s) :
        e[GetIDForCurrencyPair(s, cp)] # NoValue =>
            /\ r[cp] \in Nat
            /\ e[GetIDForCurrencyPair(s, cp)] =
                  IF Strategy = "delta" THEN r[cp] - StatePrice(s, cp) ELSE r[cp]

\* Every id in it was in use.
NamesOld(e, s) == \A id \in ID : e[id] # NoValue => id < s.nextCurrencyPairID

\* The state that the validators extend their votes on.
Extended(n) == PreBlocker(store[n], NewStrategy, proposal)

\* The extensions encode what was reported, against the state after the PreBlocker
\* in this round, and against the committed state for the last height.
SteadyInv ==
    /\ proposal = NoProposal => \A n \in Honest : ext[n] = NoValue
    /\ \A n \in Honest : ext[n] \notin {NoValue, NoExt} =>
          NamesOld(ext[n], store[n]) /\ Encodes(ext[n], reported[n], Extended(n))
    /\ \A n \in Honest : last.ext[n] \notin {NoValue, NoExt} =>
          Encodes(last.ext[n], last.reported[n], store[n])
    /\ Strategy = "delta" =>
          \A n \in Honest : veCache[n].height = height => ext[n] # NoValue

\* The ids of the pairs in a store are below its next id.
LEMMA IDsBelow ==
    ASSUME NEW s, StoreInv(s), s.nextCurrencyPairID <= MaxID, NEW cp \in GetAllCurrencyPairs(s)
    PROVE  /\ GetIDForCurrencyPair(s, cp) < s.nextCurrencyPairID
           /\ GetIDForCurrencyPair(s, cp) \in ID
<1>1. s.nextCurrencyPairID \in Nat /\ s.currencyPairs[cp].id \in Nat
  BY DEF StoreInv, Store, PairMap, GetAllCurrencyPairs, CurrencyPairState
<1>2. s.currencyPairs[cp].id < s.nextCurrencyPairID
  BY DEF StoreInv, ValidGenesis, ExportGenesis, GenesisPairs, GetAllCurrencyPairs
<1> QED
  BY <1>1, <1>2, ABCIAssumption DEF ID, GetIDForCurrencyPair

\* transformOracleServicePrices encodes what the oracle reported, if the strategy
\* reads the prices from state.
LEMMA TransformEncodes ==
    ASSUME NEW s, StoreInv(s), s.nextCurrencyPairID <= MaxID, NEW c, NEW quote \in Quote, NEW r,
           r = [cp \in CurrencyPair |->
                   IF cp \in {d \in GetAllCurrencyPairs(s) : quote[d] # NoPrice}
                   THEN quote[cp] ELSE NoPrice],
           Strategy = "delta" => c.height # height
    PROVE  /\ NamesOld(Transform(s, c, quote), s)
           /\ Encodes(Transform(s, c, quote), r, s)
<1> DEFINE known == {cp \in GetAllCurrencyPairs(s) : quote[cp] # NoPrice}
           named == [id \in ID |-> {cp \in known : GetIDForCurrencyPair(s, cp) = id}]
           pick(id) == CHOOSE cp \in named[id] : TRUE
           e == Transform(s, c, quote)
<1>1. e = [id \in ID |-> IF named[id] = {} THEN NoValue
                         ELSE GetEncodedPrice(s, c, height, pick(id), quote[pick(id)])]
  BY Zenon DEF Transform
<1>2. ASSUME NEW id \in ID, e[id] # NoValue
      PROVE  /\ pick(id) \in known /\ GetIDForCurrencyPair(s, pick(id)) = id
             /\ e[id] = GetEncodedPrice(s, c, height, pick(id), quote[pick(id)])
  <2>1. named[id] # {} /\ e[id] = GetEncodedPrice(s, c, height, pick(id), quote[pick(id)])
    <3> HIDE DEF named, pick, e
    <3> QED
      BY <1>1, <1>2
  <2>2. pick(id) \in named[id]
    BY <2>1
  <2> QED
    BY <2>1, <2>2
<1> HIDE DEF named, pick, e
<1>3. NamesOld(e, s)
  <2> SUFFICES ASSUME NEW id \in ID, e[id] # NoValue
               PROVE  id < s.nextCurrencyPairID
    BY DEF NamesOld
  <2> QED
    BY <1>2, IDsBelow
<1>4. ASSUME NEW cp \in GetAllCurrencyPairs(s), e[GetIDForCurrencyPair(s, cp)] # NoValue
      PROVE  /\ r[cp] \in Nat
             /\ e[GetIDForCurrencyPair(s, cp)] =
                  IF Strategy = "delta" THEN r[cp] - StatePrice(s, cp) ELSE r[cp]
  <2> DEFINE id == GetIDForCurrencyPair(s, cp)
  <2>1. id \in ID
    BY IDsBelow
  <2>2. \A a, b \in GetAllCurrencyPairs(s) : s.currencyPairs[a].id = s.currencyPairs[b].id => a = b
    BY DEF StoreInv, ValidGenesis, ExportGenesis, GenesisPairs, GetAllCurrencyPairs
  <2>3. pick(id) = cp
    BY <1>2, <1>4, <2>1, <2>2 DEF GetIDForCurrencyPair
  <2>4. cp \in known /\ e[id] = GetEncodedPrice(s, c, height, cp, quote[cp])
    BY <1>2, <1>4, <2>1, <2>3
  <2>5. cp \in CurrencyPair /\ r[cp] = quote[cp] /\ quote[cp] \in Nat
    BY <2>4, ABCIAssumption, ZenonT(30) DEF GetAllCurrencyPairs, Quote
  <2>6. Strategy = "delta" => getOnChainPrice(s, c, height, cp) = StatePrice(s, cp)
    BY <2>5 DEF getOnChainPrice, StatePrice, PriceCache, NoPrices
  <2> QED
    BY <2>4, <2>5, <2>6 DEF GetEncodedPrice
<1>5. Encodes(e, r, s)
  BY <1>4 DEF Encodes
<1> QED
  BY <1>3, <1>5 DEF e

\* The state that a validator extends its vote on, whatever it cached.
LEMMA ExtendedState ==
    ASSUME ChainInv, NEW n \in Honest
    PROVE  PreBlocker(store[n], preCache[n], proposal) = Extended(n)
<1>1. Fresh(preCache[n], store[n], height) /\ Fresh(NewStrategy, store[n], height)
  BY NewIsFresh DEF ChainInv, AgreeInv
<1>2. AggregateOracleVotes(store[n], preCache[n], height, proposal) =
      AggregateOracleVotes(store[n], NewStrategy, height, proposal)
  BY <1>1, FreshAggregate
<1> QED
  BY <1>2 DEF Extended, PreBlocker

\* ExtendVote encodes what the oracle reports.
LEMMA SteadyExtend ==
    ASSUME AnyPrice, ChainInv, SteadyInv, NEW n \in Honest, ExtendVote(n)
    PROVE  SteadyInv'
<1>1. PICK quote \in Quotes :
         LET s == PreBlocker(store[n], preCache[n], proposal)
             answered == ~PreBlockFails(proposal) /\ quote # NoAnswer
             known == {cp \in GetAllCurrencyPairs(s) : quote[cp] # NoPrice}
         IN  /\ ext' = [ext EXCEPT ![n] =
                    IF answered THEN Transform(s, veCache[n], quote) ELSE NoExt]
             /\ reported' = IF answered
                   THEN [reported EXCEPT ![n] =
                           [cp \in CurrencyPair |-> IF cp \in known THEN quote[cp] ELSE NoPrice]]
                   ELSE reported
             /\ veCache' = IF answered
                   THEN [veCache EXCEPT ![n] = Remember(s, veCache[n], height, {}, known)]
                   ELSE veCache
  BY DEF ExtendVote
<1> DEFINE s == Extended(n)
           answered == ~PreBlockFails(proposal) /\ quote # NoAnswer
           known == {cp \in GetAllCurrencyPairs(s) : quote[cp] # NoPrice}
           r == [cp \in CurrencyPair |-> IF cp \in known THEN quote[cp] ELSE NoPrice]
<1>2. PreBlocker(store[n], preCache[n], proposal) = s
  BY ExtendedState
<1> HIDE DEF s
<1>3. /\ UNCHANGED <<height, store, proposal, last>> /\ proposal # NoProposal
      /\ ext[n] = NoValue
  BY DEF ExtendVote
<1>4. /\ StoreInv(s) /\ s.nextCurrencyPairID = store[n].nextCurrencyPairID
      /\ s.nextCurrencyPairID <= MaxID
  BY <1>2, <1>3, PreBlockerLemma DEF ChainInv, StoresInv, AgreeInv, ProposalInv
<1>5. /\ ext' = [ext EXCEPT ![n] = IF answered THEN Transform(s, veCache[n], quote) ELSE NoExt]
      /\ reported' = IF answered THEN [reported EXCEPT ![n] = r] ELSE reported
      /\ \A m \in Honest : m # n => veCache'[m] = veCache[m]
  BY <1>1, <1>2 DEF ChainInv, VotesInv
<1>6. \A m \in Honest : m # n => ext'[m] = ext[m] /\ reported'[m] = reported[m]
  BY <1>5 DEF ChainInv, VotesInv
<1>7. \A m \in Honest : Extended(m)' = Extended(m)
  BY <1>3 DEF Extended, PreBlocker, VoteExtensionsEnabled, AggregateOracleVotes
<1>8. ASSUME ext'[n] \notin {NoValue, NoExt}
      PROVE  NamesOld(ext'[n], store[n]) /\ Encodes(ext'[n], reported'[n], s)
  <2>1. answered
    BY <1>5, <1>8 DEF ChainInv, VotesInv
  <2>2. ext'[n] = Transform(s, veCache[n], quote) /\ reported'[n] = r
    BY <1>5, <2>1 DEF ChainInv, VotesInv
  <2>3. quote \in Quote
    BY <2>1, ABCIAssumption DEF Quote
  <2>4. Strategy = "delta" => veCache[n].height # height
    BY <1>3 DEF SteadyInv
  <2>5. /\ NamesOld(Transform(s, veCache[n], quote), s)
        /\ Encodes(Transform(s, veCache[n], quote), r, s)
    BY <1>4, <2>3, <2>4, TransformEncodes
  <2> QED
    BY <1>4, <2>2, <2>5 DEF NamesOld
<1>9. ext'[n] # NoValue
  <2>2. \E max : HonestExt(ext'[n], max)
    <3>1. CASE ~answered
      BY <1>5, <3>1 DEF HonestExt, ChainInv, VotesInv
    <3>2. CASE answered
      <4>1. ext'[n] = Transform(s, veCache[n], quote)
        BY <1>5, <3>2 DEF ChainInv, VotesInv
      <4>2. HonestExt(Transform(s, veCache[n], quote), s.numCPs)
        BY <1>4, <3>2, TransformLemma, ABCIAssumption DEF Quote, ChainInv, VotesInv
      <4> QED
        BY <4>1, <4>2
    <3> QED
      BY <3>1, <3>2
  <2> QED
    BY <2>2, HonestExtType
<1>10. \A m \in Honest : ext'[m] \notin {NoValue, NoExt} =>
          NamesOld(ext'[m], store[m]) /\ Encodes(ext'[m], reported'[m], Extended(m))
  BY <1>6, <1>8 DEF SteadyInv, s
<1>11. Strategy = "delta" =>
          \A m \in Honest : veCache'[m].height = height => ext'[m] # NoValue
  BY <1>5, <1>6, <1>9 DEF SteadyInv
<1>12. \A m \in Honest : ext'[m] \notin {NoValue, NoExt} =>
          NamesOld(ext'[m], store[m]) /\ Encodes(ext'[m], reported'[m], Extended(m)')
  BY <1>7, <1>10
<1> QED
  BY <1>3, <1>11, <1>12 DEF SteadyInv

\* FinalizeBlock: what the votes encode against the state after the PreBlocker they
\* encode against the committed state; pairs that messages added have new ids.
LEMMA SteadyFinalize ==
    ASSUME AnyPrice, ChainInv, SteadyInv, FinalizeBlock
    PROVE  SteadyInv'
<1>1. /\ height' = height + 1 /\ height \in Nat
      /\ proposal' = NoProposal /\ ext' = NoVotes /\ veCache' = veCache
      /\ last'.ext = ext /\ last'.reported = reported
  BY DEF FinalizeBlock, ChainInv, AgreeInv
<1>2. \A n \in Honest : ext'[n] = NoValue
  BY <1>1 DEF NoVotes
<1>3. \A n \in Honest : veCache'[n].height # height'
  BY <1>1 DEF ChainInv, VotesInv, CacheType
<1>4. ASSUME NEW n \in Honest, ext[n] \notin {NoValue, NoExt}
      PROVE  Encodes(ext[n], reported[n], store'[n])
  <2> DEFINE p == Extended(n)
             t == store'[n]
  <2>1. NamesOld(ext[n], store[n]) /\ Encodes(ext[n], reported[n], p)
    BY <1>4 DEF SteadyInv
  <2>2. /\ StoreInv(p) /\ Later(BeginBlocker(p), t)
        /\ BeginBlocker(p).currencyPairs = p.currencyPairs
        /\ BeginBlocker(p).nextCurrencyPairID = p.nextCurrencyPairID
        /\ p.nextCurrencyPairID = store[n].nextCurrencyPairID
    BY FinalizeStore, ExtendedState
  <2>3. p.nextCurrencyPairID <= MaxID /\ p.nextCurrencyPairID \in Nat
    BY <2>2 DEF ChainInv, StoresInv, StoreInv, Store
  <2>4. StoreInv(t) /\ t.nextCurrencyPairID <= MaxID
    BY <2>2, <2>3 DEF Later
  <2> HIDE DEF p, t
  <2>5. ASSUME NEW cp \in GetAllCurrencyPairs(t),
               ext[n][GetIDForCurrencyPair(t, cp)] # NoValue
        PROVE  cp \in GetAllCurrencyPairs(p) /\ t.currencyPairs[cp] = p.currencyPairs[cp]
    <3>1. GetIDForCurrencyPair(t, cp) \in ID
      BY <2>4, IDsBelow
    <3>2. GetIDForCurrencyPair(t, cp) < p.nextCurrencyPairID
      BY <2>1, <2>2, <2>5, <3>1 DEF NamesOld
    <3>3. GetIDForCurrencyPair(t, cp) \in Int
      BY <3>1, ABCIAssumption DEF ID
    <3>4. ~(t.currencyPairs[cp].id >= p.nextCurrencyPairID)
      BY <2>3, <3>2, <3>3 DEF GetIDForCurrencyPair
    <3> QED
      BY <2>2, <3>4 DEF Later, GetAllCurrencyPairs
  <2>6. Encodes(ext[n], reported[n], t)
    BY <2>1, <2>5 DEF Encodes, GetIDForCurrencyPair, StatePrice, GetPriceForCurrencyPair
  <2> QED
    BY <2>6 DEF t
<1> QED
  BY <1>1, <1>2, <1>3, <1>4 DEF SteadyInv

\* Every step keeps the invariant.
LEMMA SteadyStep ==
    ASSUME Steady, AnyPrice, ChainInv, SteadyInv, [Next]_vars
    PROVE  SteadyInv'
<1>1. ASSUME UNCHANGED <<height, store, proposal>>
      PROVE  \A n \in Honest : Extended(n)' = Extended(n)
  BY <1>1 DEF Extended, PreBlocker, VoteExtensionsEnabled, AggregateOracleVotes
<1>2. CASE UNCHANGED vars
  <2>1. \A n \in Honest : Extended(n)' = Extended(n)
    BY <1>1, <1>2 DEF vars
  <2> QED
    BY <1>2, <2>1 DEF vars, SteadyInv
<1>4. CASE ProposeWithoutInfo \/ ProposeByz \/ \E n \in Honest : Propose(n)
  <2>1. proposal = NoProposal /\ UNCHANGED <<height, store, ext, reported, veCache, last>>
    BY <1>4 DEF ProposeWithoutInfo, ProposeByz, Propose
  <2> QED
    BY <2>1 DEF SteadyInv
<1>5. ASSUME NEW n \in Honest, ExtendVote(n)
      PROVE  SteadyInv'
  BY <1>5, SteadyExtend
<1>6. CASE NextRound
  <2>1. /\ ext' = NoVotes /\ UNCHANGED <<height, store, veCache, last>>
        /\ proposal # NoProposal /\ round < MaxRound[height]
    BY <1>6 DEF NextRound
  <2>2. Strategy # "delta"
    BY <2>1 DEF Steady, ChainInv, ProposalInv
  <2> QED
    BY <2>1, <2>2 DEF SteadyInv, NoVotes
<1>7. CASE FinalizeBlock
  BY <1>7, SteadyFinalize
<1>8. ASSUME NEW n \in Honest, Restart(n)
      PROVE  SteadyInv'
  <2>1. /\ UNCHANGED <<height, round, proposal, store, ext, reported, last>>
        /\ veCache' = [veCache EXCEPT ![n] = NewStrategy] /\ height # 0
    BY <1>8 DEF Restart, ChainInv, ProposalInv
  <2>2. \A m \in Honest : Extended(m)' = Extended(m)
    BY <1>1, <2>1
  <2>3. NewStrategy.height # height
    BY <2>1 DEF NewStrategy
  <2>4. \A m \in Honest : veCache'[m] = IF m = n THEN NewStrategy ELSE veCache[m]
    BY <2>1 DEF ChainInv, VotesInv
  <2> QED
    BY <2>1, <2>2, <2>3, <2>4 DEF SteadyInv
<1> QED
  BY <1>2, <1>4, <1>5, <1>6, <1>7, <1>8 DEF Next

\* The two invariants hold of every state.
LEMMA SteadyInvariant ==
    ASSUME AnyPrice, Steady PROVE Spec => [](ChainInv /\ SteadyInv)
<1>1. Init => SteadyInv
  BY DEF Init, SteadyInv, NoVotes, NewStrategy
<1>2. ChainInv /\ SteadyInv /\ [Next]_vars => ChainInv' /\ SteadyInv'
  BY ChainStep, SteadyStep
<1> QED
  BY <1>1, <1>2, ChainInit, PTL DEF Spec

\* A proposal with the votes of the last height.
HasProposal == proposal # NoProposal /\ VoteExtensionsEnabled

\* What a PreBlocker decodes from the vote of an honest validator.
LEMMA DecodesReported ==
    ASSUME AnyPrice, ChainInv, SteadyInv, HasProposal, NEW m \in Honest,
           NEW i \in DOMAIN proposal.votes, proposal.votes[i].addr \in Honest,
           NEW cp \in CurrencyPair, HasCurrencyPair(store[m], cp),
           Decode(proposal.votes[i].ext)[GetIDForCurrencyPair(store[m], cp)] # NoValue
    PROVE  VotePrice(store[m], preCache[m], height, Decode(proposal.votes[i].ext), cp) =
               last.reported[proposal.votes[i].addr][cp]
<1> DEFINE vote == proposal.votes[i]
           n == vote.addr
           s == store[m]
           e == Decode(vote.ext)
           id == GetIDForCurrencyPair(s, cp)
           c == preCache[m]
           r == last.reported[n][cp]
<1>1. StoreInv(s) /\ s.nextCurrencyPairID <= MaxID /\ Fresh(c, s, height)
  BY DEF ChainInv, StoresInv, AgreeInv
<1>2. id \in ID
  BY <1>1, IDsBelow DEF HasCurrencyPair
<1>3. AuthenticCommit(proposal)
  BY DEF HasProposal, ChainInv, ProposalInv, GoodProposal
<1>4. Authentic(vote, Validators[i])
  BY <1>3 DEF AuthenticCommit
<1>5. vote.ext \in {NoExt, last.ext[n]} /\ vote.ext \in Extension
  BY <1>4 DEF Authentic
<1> HIDE DEF vote, n, s, c
<1>6. vote.ext # NoExt
  BY <1>2 DEF Decode, EmptyExt, vote, s
<1>7. e = last.ext[n] /\ last.ext[n] \notin {NoValue, NoExt}
  BY <1>5, <1>6, ABCIValues DEF Decode
<1>8. n \in Honest
  BY DEF n, vote
<1>9. store[n] = s
  BY <1>8 DEF s, ChainInv, AgreeInv, NodesAgree
<1>10. Encodes(e, last.reported[n], s)
  BY <1>7, <1>8, <1>9 DEF SteadyInv
<1>11. cp \in GetAllCurrencyPairs(s) /\ HasCurrencyPair(s, cp) /\ e[id] # NoValue
  BY DEF HasCurrencyPair, s, vote
<1> HIDE DEF e
<1>12. r \in Nat /\ e[id] = IF Strategy = "delta" THEN r - StatePrice(s, cp) ELSE r
  BY <1>10, <1>11 DEF Encodes
<1>13. StatePrice(s, cp) \in Nat /\ getOnChainPrice(s, c, height, cp) = StatePrice(s, cp)
  BY <1>1, <1>11, StatePriceType, FreshReads
<1>14. {k \in ID : e[k] # NoValue /\ FromID(s, c, height, k) = cp} = {id}
  <2>1. \A k \in ID : FromID(s, c, height, k) = cp <=> id = k
    BY <1>1, <1>11, NamedPair, FreshReads
  <2> QED
    BY <1>2, <1>11, <2>1
<1> HIDE DEF id, r
<1>15. VotePrice(s, c, height, e, cp) = GetDecodedPrice(s, c, height, cp, e[id])
  BY <1>14 DEF VotePrice
<1>16. e[id] \in Int /\ e[id] # Garbled
  BY <1>12, <1>13, ABCIValues
<1>17. GetDecodedPrice(s, c, height, cp, e[id]) = r
  BY <1>12, <1>13, <1>16 DEF GetDecodedPrice
<1> QED
  BY <1>15, <1>17 DEF e, r, n, vote, s, c

\* What an honest oracle reported is what every PreBlocker decodes.
THEOREM AlwaysDecodedAsReported ==
    ASSUME AnyPrice, Steady PROVE Spec => []DecodedAsReported
<1>1. ChainInv /\ HasInfo => HasProposal
  BY DEF ChainInv, ProposalInv, HasInfo, HasProposal
<1>2. ChainInv /\ SteadyInv => DecodedAsReported
  BY <1>1, DecodesReported DEF DecodedAsReported
<1> QED
  BY <1>2, SteadyInvariant, PTL

\* What the PreBlocker writes lies between two prices that honest validators
\* reported for that pair.
LEMMA WrittenInRange ==
    ASSUME AnyPrice, ChainInv, SteadyInv, HasProposal, NEW n \in Honest, NEW cp \in CurrencyPair,
           HasCurrencyPair(store[n], cp), NEW price,
           price = AggregateOracleVotes(store[n], preCache[n], height, proposal)[cp],
           price # NoPrice
    PROVE  \E low, high \in {last.reported[m][cp] : m \in Honest} \ {NoPrice} :
               low <= price /\ price <= high
<1> DEFINE s == store[n]
           c == preCache[n]
           ec == proposal
           vote == [k \in Node |-> CHOOSE i \in DOMAIN ec.votes : ec.votes[i].addr = k]
           says == [k \in Node |-> VotePrice(s, c, height, Decode(ec.votes[vote[k]].ext), cp)]
<1>1. /\ VoteExtensionsEnabled /\ AuthenticCommit(ec) /\ GoodProposal(ec)
      /\ StoreInv(s) /\ s.nextCurrencyPairID <= MaxID /\ Fresh(c, s, height)
  BY DEF HasProposal, ChainInv, ProposalInv, GoodProposal, StoresInv, AgreeInv
<1>2. price = Median(says)
  BY DEF AggregateOracleVotes
<1>3. \A k \in Node : vote[k] \in DOMAIN Validators /\ Validators[vote[k]] = k
  BY <1>1, VoteFound
<1> HIDE DEF vote, s, c, ec
<1>4. says \in [Node -> Nat \cup {NoPrice}]
  BY <1>1, <1>3, GoodVotes, VotePriceType
<1>5. ASSUME NEW k \in Honest, says[k] \in Nat
      PROVE  last.reported[k][cp] = says[k]
  <2> DEFINE e == Decode(ec.votes[vote[k]].ext)
             id == GetIDForCurrencyPair(s, cp)
  <2>1. k \in Node
    BY DEF Honest
  <2>2. says[k] = VotePrice(s, c, height, e, cp)
    BY <2>1
  <2>3. vote[k] \in DOMAIN ec.votes /\ ec.votes[vote[k]].addr = k
    BY <1>1, <1>3, <2>1 DEF AuthenticCommit, Authentic
  <2>4. e[id] # NoValue
    <3> HIDE DEF e
    <3>1. says[k] # NoPrice
      BY <1>5, ABCIAssumption
    <3>2. PICK j \in ID : e[j] # NoValue /\ FromID(s, c, height, j) = cp
      BY <2>2, <3>1 DEF VotePrice
    <3>3. StateFromID(s, j) = cp
      BY <1>1, <3>2, FreshReads
    <3>4. j = id
      BY <1>1, <3>3, NamedPair
    <3> QED
      BY <3>2, <3>4
  <2>5. VotePrice(s, c, height, e, cp) = last.reported[ec.votes[vote[k]].addr][cp]
    BY <2>3, <2>4, DecodesReported DEF s, c, ec
  <2> QED
    BY <2>2, <2>3, <2>5
<1>6. PICK low \in Honest, high \in Honest :
         /\ says[low] \in Nat /\ says[high] \in Nat
         /\ says[low] <= price /\ price <= says[high]
  <2> HIDE DEF says
  <2> QED
    BY <1>2, <1>4, MedianInRange
<1> HIDE DEF says
<1>7. ASSUME NEW k \in Honest, says[k] \in Nat
      PROVE  says[k] \in {last.reported[m][cp] : m \in Honest} \ {NoPrice}
  <2>1. says[k] # NoPrice
    BY <1>7, ABCIAssumption
  <2> QED
    BY <1>5, <1>7, <2>1
<1> QED
  BY <1>6, <1>7

\* A price is only written if it lies between two prices that honest validators
\* reported for that pair, whatever the proposer and the validators in Byz do.
THEOREM PriceAlwaysWithinHonestRange ==
    ASSUME AnyPrice, Steady PROVE Spec => PriceWithinHonestRange
<1> DEFINE Ranged(n, cp) ==
             LET old == store[n].currencyPairs[cp]
                 new == store'[n].currencyPairs[cp]
                 says == {last.reported[m][cp] : m \in Honest} \ {NoPrice}
             IN  (/\ old # NoPair /\ new # NoPair
                  /\ new.id = old.id /\ new.nonce # old.nonce) =>
                     \E low, high \in says : low <= new.price /\ new.price <= high
<1>1. ASSUME ChainInv, SteadyInv, [Next]_vars, NEW n \in Honest, NEW cp \in CurrencyPair
      PROVE  Ranged(n, cp)
  <2>1. CASE UNCHANGED store
    BY <2>1
  <2>2. CASE FinalizeBlock
    <3> DEFINE old == store[n].currencyPairs[cp]
               new == store'[n].currencyPairs[cp]
               p == PreBlocker(store[n], preCache[n], proposal)
               prices == AggregateOracleVotes(store[n], preCache[n], height, proposal)
    <3> SUFFICES ASSUME old # NoPair, new # NoPair, new.id = old.id, new.nonce # old.nonce
                 PROVE  \E low, high \in {last.reported[m][cp] : m \in Honest} \ {NoPrice} :
                            low <= new.price /\ new.price <= high
      OBVIOUS
    <3>1. /\ Later(BeginBlocker(p), store'[n])
          /\ BeginBlocker(p).currencyPairs = p.currencyPairs
          /\ BeginBlocker(p).nextCurrencyPairID = store[n].nextCurrencyPairID
      BY <1>1, <2>2, FinalizeStore
    <3>2. StoreInv(store[n]) /\ store[n].nextCurrencyPairID <= MaxID
      BY <1>1 DEF ChainInv, StoresInv
    <3>3. HasCurrencyPair(store[n], cp) /\ cp \in GetAllCurrencyPairs(store'[n])
      BY DEF HasCurrencyPair, GetAllCurrencyPairs
    <3>4. old.id < store[n].nextCurrencyPairID /\ old.id \in Nat
          /\ store[n].nextCurrencyPairID \in Nat
      BY <3>2, <3>3, IDsBelow, ABCIAssumption
         DEF HasCurrencyPair, GetIDForCurrencyPair, ID, StoreInv, Store
    <3>5. new = p.currencyPairs[cp]
      <4> HIDE DEF p
      <4>1. ~(new.id >= store[n].nextCurrencyPairID)
        BY <3>4
      <4> QED
        BY <3>1, <3>3, <4>1 DEF Later
    <3>6. VoteExtensionsEnabled /\ p = WritePrices(store[n], prices)
      BY <3>5 DEF PreBlocker
    <3>7. HasProposal
      BY <2>2, <3>6 DEF HasProposal, FinalizeBlock
    <3>8. p.currencyPairs[cp] =
            IF prices[cp] # NoPrice
            THEN [id |-> old.id, nonce |-> old.nonce + 1, price |-> prices[cp]]
            ELSE old
      <4> HIDE DEF prices
      <4> QED
        BY <3>2, <3>3, <3>6 DEF WritePrices, SetPriceForCurrencyPair, StoreInv, Store, PairMap
    <3>9. prices[cp] # NoPrice /\ new.price = prices[cp]
      BY <3>5, <3>8
    <3> HIDE DEF prices, new, old, p
    <3> QED
      BY <1>1, <3>3, <3>7, <3>9, WrittenInRange DEF prices
  <2>3. FinalizeBlock \/ UNCHANGED store
    BY <1>1 DEF Next, vars, ProposeWithoutInfo, Propose, ProposeByz, ExtendVote, NextRound, Restart
  <2> QED
    BY <2>1, <2>2, <2>3
<1>2. ChainInv /\ SteadyInv /\ [Next]_vars =>
         [\A n \in Honest, cp \in CurrencyPair : Ranged(n, cp)]_vars
  BY <1>1
<1> QED
  BY <1>2, SteadyInvariant, PTL DEF Spec, PriceWithinHonestRange

-----------------------------------------------------------------------------
(* Honest proposals *)

Signature == [by : Int, ext : Extension, height : Int, round : Nat]

Vote == [addr : Int, power : Nat, flag : Flags, ext : Extension, sig : Signature \cup {NoSig}]

\* Votes of the validators, in their order.
VotesOfAll(v) ==
    /\ v \in Seq(Vote) /\ Len(v) = Len(Validators)
    /\ \A i \in DOMAIN Validators :
          v[i].addr = Validators[i] /\ v[i].power = Power[Validators[i]]

\* The power that ValidateVoteExtensions adds up is that of the validators.
LEMMA VotingPowerLemma ==
    ASSUME NEW v, VotesOfAll(v), NEW I \in SUBSET DOMAIN Validators
    PROVE  VotingPower(v, I) = PowerOf({Validators[i] : i \in I})
<1> DEFINE N == Len(Validators)
           S == {Validators[i] : i \in I}
           w(i) == IF i \in I THEN v[i].power ELSE 0
           sum[i \in 0..N] == IF i = 0 THEN 0 ELSE sum[i - 1] + w(i)
<1>1. VotingPower(v, I) = sum[N]
  <2>1. Len(v) = N
    BY DEF VotesOfAll
  <2> QED
    BY <2>1, Zenon DEF VotingPower
<1>2. N \in Nat /\ DOMAIN Validators = 1..N
  BY ABCIAssumption
<1>3. PICK g : PartialSums(Power, S, g) /\ SumOf(Power, S) = g[N]
  BY WeightTypes, SumDef
<1>4. \A i \in 1..N : w(i) = Weight(Power, S, i)
  <2>1. \A i \in 1..N : Validators[i] \in S <=> i \in I
    BY <1>2, ABCIAssumption
  <2> QED
    BY <1>2, <2>1 DEF Weight, VotesOfAll
<1> HIDE DEF N, S, w
<1>5. g = [i \in 0..N |-> IF i = 0 THEN 0 ELSE g[i - 1] + w(i)]
  <2>1. ASSUME NEW i \in 0..N
        PROVE  g[i] = IF i = 0 THEN 0 ELSE g[i - 1] + w(i)
    <3>1. CASE i # 0
      <4>1. i \in 1..N
        BY <1>2, <3>1
      <4> QED
        BY <1>3, <1>4, <3>1, <4>1 DEF PartialSums, N
    <3> QED
      BY <1>3, <3>1 DEF PartialSums
  <2>2. g \in [0..N -> Nat]
    BY <1>3 DEF PartialSums, N
  <2> QED
    BY <2>1, <2>2
<1>6. sum = [i \in 0..N |-> IF i = 0 THEN 0 ELSE sum[i - 1] + w(i)]
  BY <1>5, Zenon
<1> HIDE DEF sum
<1> DEFINE T == {i \in 0..N : sum[i] = g[i]}
<1>7. 0 \in T
  BY <1>2, <1>5, <1>6
<1>8. ASSUME NEW i \in 0..(N - 1), i \in T
      PROVE  i + 1 \in T
  <2>1. i + 1 \in 0..N /\ i + 1 # 0 /\ (i + 1) - 1 = i
    BY <1>2
  <2>2. sum[i + 1] = sum[i] + w(i + 1) /\ g[i + 1] = g[i] + w(i + 1)
    BY <1>5, <1>6, <2>1
  <2> QED
    BY <1>8, <2>1, <2>2
<1>9. N \in T
  <2> HIDE DEF T
  <2>1. \A i \in 0..N : i \in T
    BY <1>2, <1>7, <1>8, UpTo, Zenon
  <2> QED
    BY <1>2, <2>1
<1> QED
  BY <1>1, <1>3, <1>9 DEF PowerOf, S

\* A vote in a commit is a vote.
LEMMA VoteType ==
    ASSUME ChainInv, NEW n \in Node, NEW v, IsVote(v, n)
    PROVE  /\ v \in Vote /\ Prune(v) \in Vote
           /\ v.addr = n /\ Prune(v).addr = n
           /\ v.power = Power[n] /\ Prune(v).power = Power[n]
<1>1. NoExt \in Extension /\ n \in Int /\ Power[n] \in Nat
  BY WeightTypes, ABCIAssumption DEF Extension, Node
<1>2. last.round \in Nat /\ height - 1 \in Int
  BY DEF ChainInv, LastInv, AgreeInv
<1>3. CASE v = AbsentVote(n)
  BY <1>1, <1>3 DEF AbsentVote, Vote, Prune, Flags
<1>4. ASSUME NEW e \in Extension, v = CommitVote(n, e)
      PROVE  /\ v \in Vote /\ Prune(v) \in Vote
             /\ v.addr = n /\ Prune(v).addr = n
             /\ v.power = Power[n] /\ Prune(v).power = Power[n]
  <2>1. Sign(n, e, height - 1, last.round) \in Signature
    BY <1>1, <1>2 DEF Sign, Signature
  <2> QED
    BY <1>1, <1>4, <2>1 DEF CommitVote, Vote, Prune, Flags
<1> QED
  BY <1>3, <1>4 DEF IsVote

\* NumPrices counts.
LEMMA NumPricesType == \A e : NumPrices(e) \in Nat /\ NumPrices(EmptyExt) = 0
<1>1. IsFiniteSet(ID)
  BY FS_Interval, ABCIAssumption DEF ID
<1>2. \A e : IsFiniteSet({id \in ID : e[id] # NoValue})
  BY <1>1, FS_Subset
<1>3. {id \in ID : EmptyExt[id] # NoValue} = {}
  BY DEF EmptyExt
<1> QED
  BY <1>2, <1>3, FS_CardinalityType, FS_EmptySet DEF NumPrices

\* A vote that VerifyVoteExtension accepted at the last height is valid in a
\* proposal, although pairs may have been removed since.
LEMMA VerifiedIsValid ==
    ASSUME ChainInv, NEW n \in Honest, NEW vote, Verifies(last.maxNumCP, vote.ext),
           NEW mode \in {"PrepareProposal", "ProcessProposal"}
    PROVE  ValidVote(store[n], mode, vote)
<1>1. /\ last.maxNumCP \in Nat /\ store[n].numCPs \in Nat /\ store[n].numRemoves \in Nat
      /\ last.maxNumCP <= store[n].numCPs + store[n].numRemoves
  BY DEF ChainInv, LastInv, StoresInv, StoreInv, Store
<1>2. GetMaxNumCP(store[n], mode) = store[n].numCPs + store[n].numRemoves
  BY DEF GetMaxNumCP
<1>3. CASE vote.ext = NoExt
  <2>1. vote.ext # Undecodable /\ Decode(vote.ext) = EmptyExt
    BY <1>3, ABCIValues DEF Decode
  <2>2. NumPrices(EmptyExt) = 0 /\ \A id \in ID : EmptyExt[id] # TooLong
    BY NumPricesType, ABCIValues DEF EmptyExt
  <2> QED
    BY <1>1, <1>2, <2>1, <2>2 DEF ValidVote, ValidateOracleVoteExtension
<1>4. CASE vote.ext # NoExt
  BY <1>1, <1>2, <1>4, NumPricesType DEF Verifies, ValidVote, ValidateOracleVoteExtension
<1> QED
  BY <1>3, <1>4

\* An honest vote is verified, and so it is never pruned.
LEMMA HonestVoteValid ==
    ASSUME ChainInv, NEW n \in Honest, NEW k \in Honest, NEW v, IsVote(v, k)
    PROVE  ValidVote(store[n], "PrepareProposal", v)
<1>1. CASE v = AbsentVote(k)
  BY <1>1 DEF AbsentVote, ValidVote
<1>2. ASSUME NEW e \in Extension, v = CommitVote(k, e), e = last.ext[k]
      PROVE  ValidVote(store[n], "PrepareProposal", v)
  <2>1. HonestExt(e, last.maxNumCP) /\ v.ext = e
    BY <1>2, ABCIValues DEF ChainInv, LastInv, CommitVote
  <2> QED
    BY <2>1, HonestVerifies, VerifiedIsValid
<1> QED
  BY <1>1, <1>2 DEF IsVote

\* What the pruning of PrepareProposal leaves of a commit.
Pruned(s, local) ==
    [local EXCEPT !.votes =
        [i \in DOMAIN local.votes |->
            IF ValidVote(s, "PrepareProposal", local.votes[i]) THEN local.votes[i]
            ELSE Prune(local.votes[i])]]

\* It is valid against the commit: the votes that are left are a quorum.
LEMMA PrunedIsValid ==
    ASSUME ChainInv, NEW n \in Honest, NEW local \in LocalCommits
    PROVE  /\ ValidateVoteExtensions(Pruned(store[n], local), local, height)
           /\ Pruned(store[n], local) # NoProposal
           /\ \A i \in DOMAIN Pruned(store[n], local).votes :
                 ValidVote(store[n], "ProcessProposal", Pruned(store[n], local).votes[i])
           /\ \A i \in DOMAIN Validators : Validators[i] \in Honest =>
                 Pruned(store[n], local).votes[i] = local.votes[i]
<1> DEFINE s == store[n]
           ec == Pruned(s, local)
           lv == local.votes
           v == [i \in DOMAIN Validators |->
                    IF ValidVote(s, "PrepareProposal", lv[i]) THEN lv[i] ELSE Prune(lv[i])]
           N == Len(Validators)
           commits == {i \in DOMAIN Validators : v[i].flag = "Commit"}
<1>1. /\ local = [round |-> last.round, votes |-> lv]
      /\ lv = [i \in DOMAIN Validators |-> lv[i]]
      /\ \A i \in DOMAIN Validators : IsVote(lv[i], Validators[i])
  BY CommitVotes, ChainLastTyped DEF LocalCommits
<1>2. ec = [round |-> last.round, votes |-> v]
  <2>1. ec = [local EXCEPT !.votes = v]
    BY <1>1 DEF Pruned
  <2> HIDE DEF v, ec
  <2> QED
    BY <1>1, <2>1
<1>3. N \in Nat /\ DOMAIN Validators = 1..N /\ last.round \in Nat
  BY ABCIAssumption DEF ChainInv, LastInv
<1>4. \A i \in DOMAIN Validators :
         /\ lv[i] \in Vote /\ Prune(lv[i]) \in Vote
         /\ lv[i].addr = Validators[i] /\ Prune(lv[i]).addr = Validators[i]
         /\ lv[i].power = Power[Validators[i]] /\ Prune(lv[i]).power = Power[Validators[i]]
  BY <1>1, VoteType DEF Node
<1>5. \A i \in DOMAIN Validators : IsPruned(Prune(lv[i])) /\ Prune(lv[i]).flag # "Commit"
  BY <1>4 DEF Prune, IsPruned, Vote
<1>6. \A i \in DOMAIN Validators : v[i] = lv[i] \/ v[i] = Prune(lv[i])
  OBVIOUS
<1>7. \A i \in DOMAIN Validators : ValidVote(s, "PrepareProposal", lv[i]) => v[i] = lv[i]
  OBVIOUS
<1>8. \A i \in DOMAIN Validators : v[i] = lv[i] => ValidVote(s, "ProcessProposal", v[i])
  <2> SUFFICES ASSUME NEW i \in DOMAIN Validators, v[i] = lv[i]
               PROVE  ValidVote(s, "ProcessProposal", v[i])
    OBVIOUS
  <2>1. CASE ValidVote(s, "PrepareProposal", lv[i])
    BY <2>1 DEF ValidVote, GetMaxNumCP
  <2>2. CASE v[i] = Prune(lv[i])
    BY <1>5, <2>2 DEF ValidVote, IsPruned
  <2> QED
    BY <2>1, <2>2
<1> HIDE DEF v, s, lv
<1>9. VotesOfAll(v) /\ VotesOfAll(lv)
  <2>1. v \in [1..N -> Vote] /\ lv \in [1..N -> Vote]
    <3>1. DOMAIN v = DOMAIN Validators /\ v = [i \in DOMAIN Validators |-> v[i]]
      BY DEF v
    <3> QED
      BY <1>1, <1>3, <1>4, <1>6, <3>1
  <2>2. v \in Seq(Vote) /\ lv \in Seq(Vote) /\ Len(v) = N /\ Len(lv) = N
    <3> HIDE DEF N
    <3> QED
      BY <1>3, <2>1
  <2> QED
    BY <1>4, <1>6, <2>2 DEF VotesOfAll
<1>10. DOMAIN v = DOMAIN Validators
  BY DEF v
<1>11. \A i \in DOMAIN Validators : Validators[i] \in Honest => v[i] = lv[i]
  BY <1>1, <1>7, HonestVoteValid DEF s
<1>12. \A i \in DOMAIN v : ValidVote(s, "ProcessProposal", v[i])
  <2>1. \A i \in DOMAIN Validators : v[i] = Prune(lv[i]) => ValidVote(s, "ProcessProposal", v[i])
    BY <1>5 DEF ValidVote, IsPruned
  <2> QED
    BY <1>6, <1>8, <1>10, <2>1
<1> HIDE DEF ec
<1>13. ValidateExtendedCommitAgainstLastCommit(ec, local)
  <2>1. ec.round = local.round /\ Len(v) = Len(lv)
    BY <1>1, <1>2, <1>9 DEF VotesOfAll
  <2>2. IsSorted(v)
    <3> DEFINE vals == [i \in DOMAIN Validators |->
                          [addr |-> Validators[i], power |-> Power[Validators[i]]]]
    <3>1. IsSorted(vals)
      BY ABCIAssumption
    <3>2. Len(vals) = N
      BY <1>3
    <3>3. \A i \in 1..N : vals[i].addr = v[i].addr /\ vals[i].power = v[i].power
      BY <1>3, <1>9 DEF VotesOfAll
    <3>4. \A i \in 1..(N - 1) : i \in 1..N /\ i + 1 \in 1..N
      BY <1>3
    <3> HIDE DEF vals, N
    <3> QED
      BY <1>9, <3>1, <3>2, <3>3, <3>4 DEF IsSorted, VotesOfAll, N
  <2>3. \A i, j \in DOMAIN v : v[i].addr = v[j].addr => i = j
    BY <1>9, <1>10, ABCIAssumption DEF VotesOfAll
  <2>4. \A i \in DOMAIN v :
           /\ v[i].addr = lv[i].addr /\ v[i].power = lv[i].power
           /\ IsPruned(v[i]) \/ v[i].flag = lv[i].flag
    BY <1>5, <1>6, <1>9, <1>10 DEF VotesOfAll
  <2>5. ec.votes = v /\ local.votes = lv
    BY <1>1, <1>2
  <2> QED
    BY <2>1, <2>2, <2>3, <2>4, <2>5 DEF ValidateExtendedCommitAgainstLastCommit
<1>14. \A i \in commits : v[i].sig # NoSig /\ VerifySignature(v[i], height - 1, ec.round)
  <2> SUFFICES ASSUME NEW i \in DOMAIN Validators, v[i].flag = "Commit"
               PROVE  v[i].sig # NoSig /\ VerifySignature(v[i], height - 1, ec.round)
    OBVIOUS
  <2>1. v[i] = lv[i] /\ IsVote(lv[i], Validators[i])
    BY <1>1, <1>5, <1>6
  <2>2. PICK e \in Extension : v[i] = CommitVote(Validators[i], e)
    BY <2>1 DEF IsVote, AbsentVote
  <2>3. /\ v[i].sig = Sign(Validators[i], e, height - 1, last.round)
        /\ v[i].addr = Validators[i] /\ v[i].ext = e
    BY <2>2 DEF CommitVote
  <2>4. Sign(Validators[i], e, height - 1, last.round) \in Signature
    BY <1>3, ABCIAssumption DEF Sign, Signature, ChainInv, AgreeInv
  <2>5. NoSig \notin Signature
    BY ABCIValues DEF Signature
  <2>6. ec.round = last.round
    BY <1>2
  <2> QED
    BY <2>3, <2>4, <2>5, <2>6 DEF VerifySignature
<1>15. \A i \in DOMAIN Validators \ commits : v[i].ext = NoExt /\ v[i].sig = NoSig
  <2> SUFFICES ASSUME NEW i \in DOMAIN Validators, v[i].flag # "Commit"
               PROVE  v[i].ext = NoExt /\ v[i].sig = NoSig
    OBVIOUS
  <2>1. CASE v[i] = Prune(lv[i])
    BY <1>5, <2>1 DEF IsPruned
  <2>2. CASE v[i] = lv[i]
    BY <1>1, <2>2 DEF IsVote, AbsentVote, CommitVote
  <2> QED
    BY <1>6, <2>1, <2>2
<1>16. /\ VotingPower(v, DOMAIN v) > 0
       /\ VotingPower(v, commits) >= ((VotingPower(v, DOMAIN v) * 2) \div 3) + 1
  <2> DEFINE I == {j \in DOMAIN Validators :
                      lv[j].flag = "Commit" /\ Verifies(last.maxNumCP, lv[j].ext)}
             Q == {Validators[i] : i \in I}
             C == {Validators[i] : i \in commits}
  <2>1. VotingPower(v, DOMAIN v) = PowerOf(Node)
    BY <1>9, <1>10, VotingPowerLemma DEF Node
  <2>2. VotingPower(v, commits) = PowerOf(C)
    <3>1. commits \in SUBSET DOMAIN Validators
      OBVIOUS
    <3> HIDE DEF commits
    <3> QED
      BY <1>9, <3>1, VotingPowerLemma
  <2>3. IsQuorum(Q)
    <3>1. {local.votes[i].addr : i \in {j \in DOMAIN local.votes :
               local.votes[j].flag = "Commit" /\ Verifies(last.maxNumCP, local.votes[j].ext)}} = Q
      <4>1. local.votes = lv /\ DOMAIN lv = DOMAIN Validators
        BY <1>1 DEF lv
      <4>2. \A i \in DOMAIN Validators : lv[i].addr = Validators[i]
        BY <1>9 DEF VotesOfAll
      <4> QED
        BY <4>1, <4>2
    <3> QED
      BY <3>1 DEF LocalCommits
  <2>4. I \subseteq commits
    BY <1>7, VerifiedIsValid DEF s
  <2>5. Q \subseteq C
    BY <2>4
  <2>6. PowerOf(Q) <= PowerOf(C)
    <3> HIDE DEF Q, C
    <3> QED
      BY <2>5, WeightTypes, SumOrder DEF PowerOf
  <2>7. PowerOf(Q) \in Nat /\ PowerOf(C) \in Nat /\ PowerOf(Node) \in Nat /\ PowerOf(Node) > 0
    BY PowerType, ABCIAssumption
  <2> HIDE DEF Q, C, commits
  <2>8. 3 * PowerOf(C) > 2 * PowerOf(Node)
    BY <2>3, <2>6, <2>7 DEF IsQuorum
  <2> QED
    BY <2>1, <2>2, <2>7, <2>8
<1>17. ec # NoProposal
  <2>1. v \in Seq(Vote)
    BY <1>9 DEF VotesOfAll
  <2>2. ec \in [round : Nat, votes : Seq(Vote)]
    BY <1>2, <1>3, <2>1
  <2> QED
    BY <2>2, ABCIValues DEF Vote, Signature
<1>18. ValidateVoteExtensions(ec, local, height)
  <2>1. ec.votes = v
    BY <1>2
  <2> HIDE DEF commits
  <2>2. {i \in DOMAIN v : v[i].flag = "Commit"} = commits
    BY <1>10 DEF commits
  <2> QED
    BY <1>10, <1>13, <1>14, <1>15, <1>16, <2>1, <2>2 DEF ValidateVoteExtensions
<1>19. ec.votes = v
  BY <1>2
<1> QED
  BY <1>11, <1>12, <1>17, <1>18, <1>19 DEF ec, s, lv

\* An honest proposer always gets a proposal out of the commit it holds, the others
\* accept it, and no vote of an honest validator is pruned.
THEOREM HonestProposalAlwaysAccepted ==
    ASSUME AnyPrice PROVE Spec => []HonestProposalAccepted
<1>1. ASSUME ChainInv, NEW local \in LocalCommits, NEW n \in Honest
      PROVE  LET ec == PrepareProposal(store[n], local)
             IN  /\ ec # NoProposal
                 /\ Accepted(ec, local)
                 /\ \A i \in DOMAIN Validators :
                       Validators[i] \in Honest => ec.votes[i] = local.votes[i]
  <2> DEFINE ec == Pruned(store[n], local)
  <2>1. /\ ValidateVoteExtensions(ec, local, height) /\ ec # NoProposal
        /\ \A i \in DOMAIN ec.votes : ValidVote(store[n], "ProcessProposal", ec.votes[i])
        /\ \A i \in DOMAIN Validators : Validators[i] \in Honest => ec.votes[i] = local.votes[i]
    BY <1>1, PrunedIsValid
  <2>2. PrepareProposal(store[n], local) = ec
    BY <2>1 DEF PrepareProposal, Pruned
  <2> HIDE DEF ec
  <2>3. \A m \in Honest : ProcessProposal(store[m], ec, local)
    BY <1>1, <2>1 DEF ProcessProposal, ChainInv, AgreeInv, NodesAgree
  <2>4. Byz \cup {m \in Honest : ProcessProposal(store[m], ec, local)} = Node
    BY <2>3, ABCIAssumption DEF Honest
  <2>5. IsQuorum(Node)
    BY PowerType, ABCIAssumption DEF IsQuorum
  <2> QED
    BY <2>1, <2>2, <2>4, <2>5 DEF Accepted
<1>2. ChainInv => HonestProposalAccepted
  BY <1>1 DEF HonestProposalAccepted
<1> QED
  BY <1>2, ChainInvariant, PTL
=============================================================================

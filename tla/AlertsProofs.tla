---------------------------- MODULE AlertsProofs ----------------------------
(***************************************************************************)
(* Proofs about x/alerts with x/incentives, for any accounts, validators,  *)
(* pairs and parameters, for any verdicts, delivered in any order and any  *)
(* number of times.                                                        *)
(***************************************************************************)
EXTENDS Alerts, FiniteSetTheorems, TLAPS

-----------------------------------------------------------------------------
(* Induction *)

\* A set of naturals that is not empty has a least element: the form in which
\* the proofs do induction, on the least counterexample.
LEMMA LeastNatural ==
    ASSUME NEW T, T \subseteq Nat, T # {}
    PROVE  \E n \in T : \A m \in T : n <= m
<1>1. PICK n \in T : \A m \in T : ~ (<<m, n>> \in OpToRel(<, Nat))
  BY NatLessThanWellFounded, WFMin, Zenon
<1>2. \A m \in T : ~(m < n)
  BY <1>1 DEF OpToRel
<1> QED
  BY <1>2

\* Induction up to N: a set that has 0, and i + 1 with every i below N, has all.
LEMMA UpTo ==
    ASSUME NEW N \in Nat, NEW T, 0 \in T, \A i \in 0..(N - 1) : i \in T => i + 1 \in T
    PROVE  \A i \in 0..N : i \in T
<1> DEFINE Out == {i \in 0..N : i \notin T}
<1> SUFFICES ASSUME Out # {} PROVE FALSE
  OBVIOUS
<1>1. Out \subseteq Nat
  OBVIOUS
<1>2. PICK n \in Out : \A m \in Out : n <= m
  BY <1>1, LeastNatural, Zenon
<1>3. n - 1 \in 0..(N - 1) /\ n - 1 \notin Out
  BY <1>2
<1> QED
  BY <1>2, <1>3

\* The runs of N steps from x in S, step i being the function F[i].
Runs(N, S, x, F) ==
    {g \in [0..N -> S] : g[0] = x /\ \A i \in 1..N : g[i] = F[i][g[i - 1]]}

\* There is one, however many steps.
LEMMA Iterate ==
    ASSUME NEW N \in Nat, NEW S, NEW x \in S, NEW F \in [1..N -> [S -> S]]
    PROVE  \E g : g \in Runs(N, S, x, F)
<1> DEFINE Good(n, g) == /\ g \in [0..n -> S]
                         /\ g[0] = x /\ \A i \in 1..n : g[i] = F[i][g[i - 1]]
           T == {n \in 0..N : \E g : Good(n, g)}
<1>1. 0 \in T
  <2>1. Good(0, [i \in 0..0 |-> x])
    OBVIOUS
  <2> HIDE DEF Good
  <2> QED
    BY <2>1
<1>2. ASSUME NEW n \in 0..(N - 1), n \in T
      PROVE  n + 1 \in T
  <2>1. PICK g : Good(n, g)
    <3> HIDE DEF Good
    <3> QED
      BY <1>2
  <2> DEFINE h == [i \in 0..(n + 1) |-> IF i = n + 1 THEN F[n + 1][g[n]] ELSE g[i]]
  <2>2. g[n] \in S /\ F[n + 1] \in [S -> S]
    BY <2>1
  <2>3. h \in [0..(n + 1) -> S]
    BY <2>1, <2>2
  <2>4. h[0] = x /\ h[n + 1] = F[n + 1][h[n]]
    BY <2>1
  <2>5. ASSUME NEW i \in 1..n
        PROVE  h[i] = F[i][h[i - 1]]
    <3>1. h[i] = g[i] /\ h[i - 1] = g[i - 1]
      OBVIOUS
    <3> QED
      BY <2>1, <3>1
  <2>6. Good(n + 1, h)
    <3> HIDE DEF h
    <3>1. \A i \in 1..(n + 1) : i = n + 1 \/ i \in 1..n
      OBVIOUS
    <3>2. \A i \in 1..(n + 1) : h[i] = F[i][h[i - 1]]
      <4> SUFFICES ASSUME NEW i \in 1..(n + 1) PROVE h[i] = F[i][h[i - 1]]
        OBVIOUS
      <4>1. CASE i = n + 1
        BY <2>4, <4>1
      <4> QED
        BY <2>5, <3>1, <4>1
    <3> QED
      BY <2>3, <2>4, <3>2
  <2> HIDE DEF Good
  <2> QED
    BY <2>6
<1>3. N \in T
  <2>1. \A n \in 0..(N - 1) : n \in T => n + 1 \in T
    BY <1>2
  <2> HIDE DEF T
  <2>2. \A i \in 0..N : i \in T
    BY <1>1, <2>1, UpTo, Zenon
  <2> QED
    BY <2>2
<1>4. PICK g : Good(N, g)
  <2> HIDE DEF Good
  <2> QED
    BY <1>3
<1> QED
  BY <1>4 DEF Runs

-----------------------------------------------------------------------------
(* Types *)

Incentive == [validator : Validator, alertHeight : 0..MaxHeight, signer : Account]

\* The inductive invariant behind the types: what the incentives and the histories
\* hold; no alert is from a later block.
TypeInv ==
    /\ TypeOK
    /\ phase \in {"Begin", "Deliver"}
    /\ incentives \in Seq(Incentive)
    /\ bonds \in [Key -> Nat]
    /\ faults \subseteq Validator \X Key
    /\ \A k \in Key : alerts[k] # NoAlert => alerts[k].submissionHeight <= height

\* The states of the two modules while incentives are executed.
Ledger == [stake : [Validator -> Nat], bank : [Account \cup {Module} -> Nat]]

\* g has the states after each of the incentives.
Executes(g) ==
    /\ g \in [0..Len(incentives) -> Ledger]
    /\ g[0] = [stake |-> stake, bank |-> bank]
    /\ \A i \in 1..Len(incentives) : g[i] = ExecuteStrategy(g[i - 1], incentives[i])

\* One incentive.
LEMMA ExecuteOne ==
    ASSUME NEW s \in Ledger, NEW i \in Incentive
    PROVE  ExecuteStrategy(s, i) \in Ledger
<1>1. /\ s.stake \in [Validator -> Nat] /\ s.bank \in [Account \cup {Module} -> Nat]
      /\ i.validator \in Validator /\ i.signer \in Account
  BY DEF Ledger, Incentive
<1> DEFINE amount == IF s.stake[i.validator] < SlashAmount THEN s.stake[i.validator]
                     ELSE SlashAmount
<1>2. amount \in Nat /\ s.stake[i.validator] - amount \in Nat
  BY <1>1, AlertsAssumption
<1>3. ExecuteStrategy(s, i) =
         [stake |-> [s.stake EXCEPT ![i.validator] = s.stake[i.validator] - amount],
          bank |-> [s.bank EXCEPT ![i.signer] = s.bank[i.signer] + amount]]
  BY DEF ExecuteStrategy
<1> HIDE DEF amount
<1> QED
  BY <1>1, <1>2, <1>3 DEF Ledger

\* BeginBlock of x/incentives executes the incentives one after the other.
LEMMA ExecuteAll ==
    ASSUME TypeInv, ExecuteStrategies
    PROVE  \E g : /\ Executes(g)
                  /\ stake' = g[Len(incentives)].stake /\ bank' = g[Len(incentives)].bank
                  /\ incentives' = <<>>
<1> DEFINE N == Len(incentives)
           x == [stake |-> stake, bank |-> bank]
           run[n \in 0..N] == IF n = 0 THEN x ELSE ExecuteStrategy(run[n - 1], incentives[n])
           F == [i \in 1..N |-> [s \in Ledger |-> ExecuteStrategy(s, incentives[i])]]
<1>1. stake' = run[N].stake /\ bank' = run[N].bank /\ incentives' = <<>>
  BY Zenon DEF ExecuteStrategies
<1>2. /\ N \in Nat /\ x \in Ledger
      /\ \A i \in 1..N : incentives[i] \in Incentive
  BY DEF TypeInv, TypeOK, Ledger
<1> HIDE DEF N, x
<1>3. PICK g : g \in Runs(N, Ledger, x, F)
  <2>1. F \in [1..N -> [Ledger -> Ledger]]
    BY <1>2, ExecuteOne
  <2> HIDE DEF F
  <2> QED
    BY <1>2, <2>1, Iterate
<1>4. g = [n \in 0..N |-> IF n = 0 THEN x ELSE ExecuteStrategy(g[n - 1], incentives[n])]
  <2>1. ASSUME NEW i \in 0..N
        PROVE  g[i] = IF i = 0 THEN x ELSE ExecuteStrategy(g[i - 1], incentives[i])
    <3>1. CASE i # 0
      <4>1. i \in 1..N /\ g[i - 1] \in Ledger
        BY <1>2, <1>3, <3>1 DEF Runs
      <4> QED
        BY <1>3, <3>1, <4>1 DEF Runs
    <3> QED
      BY <1>3, <3>1 DEF Runs
  <2> QED
    BY <1>3, <2>1 DEF Runs
<1>5. run = [n \in 0..N |-> IF n = 0 THEN x ELSE ExecuteStrategy(run[n - 1], incentives[n])]
  BY <1>4, Zenon
<1> HIDE DEF run
<1>6. \A i \in 1..N : run[i] = ExecuteStrategy(run[i - 1], incentives[i])
  BY <1>2, <1>5
<1>7. run[0] = x
  BY <1>2, <1>5
<1> DEFINE T == {i \in 0..N : run[i] \in Ledger}
<1>8. 0 \in T
  BY <1>2, <1>7
<1>9. ASSUME NEW i \in 0..(N - 1), i \in T
      PROVE  i + 1 \in T
  <2>1. i + 1 \in 1..N /\ (i + 1) - 1 = i
    BY <1>2
  <2>2. run[i + 1] = ExecuteStrategy(run[i], incentives[i + 1])
    BY <1>6, <2>1
  <2> QED
    BY <1>2, <1>9, <2>1, <2>2, ExecuteOne
<1>10. \A i \in 0..N : run[i] \in Ledger
  <2> HIDE DEF T
  <2>1. \A i \in 0..N : i \in T
    BY <1>2, <1>8, <1>9, UpTo, Zenon
  <2> QED
    BY <2>1 DEF T
<1>11. Executes(run)
  BY <1>5, <1>6, <1>7, <1>10 DEF Executes, N, x
<1> QED
  BY <1>1, <1>11 DEF N

\* The parameters are typed.
LEMMA ParamsType ==
    ASSUME NEW p \in ParamSets
    PROVE  /\ p.bondAmount \in Nat /\ p.maxBlockAge \in Nat /\ p.blocksToPrune \in Nat
           /\ p.pruning \in BOOLEAN /\ p.enabled \in BOOLEAN
BY AlertsAssumption DEF Params

\* There are finitely many keys.
LEMMA KeyFinite == IsFiniteSet(Key)
<1> DEFINE S == (0..MaxHeight) \X CurrencyPair
           f == [x \in S |-> [height |-> x[1], cp |-> x[2]]]
<1>1. IsFiniteSet(0..MaxHeight)
  BY FS_Interval, AlertsAssumption
<1>2. IsFiniteSet(S)
  BY <1>1, FS_Product, AlertsAssumption
<1>3. f \in Surjection(S, Key)
  <2>1. f \in [S -> Key]
    BY DEF Key
  <2>2. ASSUME NEW k \in Key
        PROVE  \E x \in S : f[x] = k
    <3>1. <<k.height, k.cp>> \in S /\ f[<<k.height, k.cp>>] = k
      BY DEF Key
    <3> QED
      BY <3>1
  <2> QED
    BY <2>1, <2>2 DEF Surjection
<1> HIDE DEF f, S
<1> QED
  BY <1>2, <1>3, FS_Surjection

\* SetToSeq lists the members of a finite set, each once.
LEMMA Listed ==
    ASSUME NEW S, IsFiniteSet(S)
    PROVE  /\ SetToSeq(S) \in [1..Cardinality(S) -> S]
           /\ IsInjective(SetToSeq(S))
           /\ \A x \in S : \E i \in 1..Cardinality(S) : SetToSeq(S)[i] = x
           /\ Cardinality(S) \in Nat
<1> DEFINE n == Cardinality(S)
<1>1. n \in Nat
  BY FS_CardinalityType
<1>2. PICK b : b \in Bijection(1..n, S)
  BY FS_CardinalityType DEF ExistsBijection
<1>3. b \in [1..n -> S] /\ IsInjective(b)
  BY <1>2 DEF Bijection, Injection
<1>4. SetToSeq(S) \in [1..n -> S] /\ IsInjective(SetToSeq(S))
  BY <1>3, Zenon DEF SetToSeq
<1>5. SetToSeq(S) \in Injection(1..n, S)
  BY <1>4 DEF Injection
<1>6. Cardinality(1..n) = n
  BY <1>1, FS_Interval
<1> HIDE DEF n
<1>7. SetToSeq(S) \in Surjection(1..n, S)
  BY <1>5, <1>6, FS_Injection DEF n
<1> QED
  BY <1>1, <1>4, <1>7 DEF Surjection, n

\* The incentives of a conclusion are incentives, one for each validator at fault.
LEMMA IncentivesType ==
    ASSUME NEW c \in Conclusion
    PROVE  /\ IncentivesOf(c) \in Seq(Incentive)
           /\ AtFault(c) \subseteq Validator /\ IsFiniteSet(AtFault(c))
           /\ Len(IncentivesOf(c)) = Cardinality(AtFault(c))
           /\ \A i \in 1..Len(IncentivesOf(c)) :
                 IncentivesOf(c)[i].validator = SetToSeq(AtFault(c))[i]
<1> DEFINE F == AtFault(c)
           n == Cardinality(F)
           order == SetToSeq(F)
           q == [i \in 1..n |-> [validator |-> order[i], alertHeight |-> c.alert.height,
                                 signer |-> c.signer]]
<1>1. F \subseteq Validator
  BY DEF AtFault
<1>2. IsFiniteSet(F)
  BY <1>1, FS_Subset, AlertsAssumption
<1> HIDE DEF F
<1>3. order \in [1..n -> F] /\ n \in Nat
  BY <1>2, Listed
<1>4. c.alert.height \in 0..MaxHeight /\ c.signer \in Account
  BY DEF Conclusion, Key
<1>5. IncentivesOf(c) = q
  BY <1>3 DEF IncentivesOf, F
<1> HIDE DEF order, n
<1>6. q \in [1..n -> Incentive]
  BY <1>1, <1>3, <1>4 DEF Incentive
<1>7. q \in Seq(Incentive) /\ Len(q) = n
  <2> HIDE DEF q
  <2> QED
    BY <1>3, <1>6
<1>8. \A i \in 1..n : q[i].validator = order[i]
  OBVIOUS
<1> HIDE DEF q
<1> QED
  BY <1>1, <1>2, <1>5, <1>7, <1>8 DEF F, n, order

\* What ConcludeAlert makes of an alert.
Concluded(x, purge) == [x EXCEPT !.concluded = TRUE, !.purgeHeight = purge]

\* It is an alert, concluded, with that purge height.
LEMMA ConcludedAlert ==
    ASSUME NEW x \in AlertWithStatus, NEW purge \in Nat, NEW y, y = Concluded(x, purge)
    PROVE  /\ y \in AlertWithStatus /\ y.concluded = TRUE
           /\ y.signer = x.signer /\ y.submissionHeight = x.submissionHeight
           /\ y.purgeHeight = purge
<1>1. y \in AlertWithStatus
  BY DEF AlertWithStatus, Concluded
<1>2. y.concluded = TRUE
  BY DEF AlertWithStatus, Concluded
<1>3. /\ y.signer = x.signer /\ y.submissionHeight = x.submissionHeight
      /\ y.purgeHeight = purge
  BY DEF AlertWithStatus, Concluded
<1> QED
  BY <1>1, <1>2, <1>3

\* ConcludeAlert changes that alert only.
LEMMA ConcludedOne ==
    ASSUME NEW a \in [Key -> AlertWithStatus \cup {NoAlert}], NEW k \in Key,
           a[k] \in AlertWithStatus
    PROVE  ConcludeStatus(a, k) =
             [a EXCEPT ![k] = Concluded(a[k], k.height + params.maxBlockAge)]
BY DEF ConcludeStatus, Concluded

\* Every step keeps the types.
LEMMA TypeStep == TypeInv /\ [Next]_vars => TypeInv'
<1> SUFFICES ASSUME TypeInv, [Next]_vars
             PROVE  TypeInv'
  OBVIOUS
<1>0. /\ params \in ParamSets /\ height \in Nat
      /\ params.bondAmount \in Nat /\ params.maxBlockAge \in Nat /\ params.blocksToPrune \in Nat
  BY ParamsType, AlertsAssumption DEF TypeInv, TypeOK
<1>1. CASE BeginBlock
  <2>1. PICK g : /\ Executes(g)
                 /\ stake' = g[Len(incentives)].stake /\ bank' = g[Len(incentives)].bank
                 /\ incentives' = <<>>
    BY <1>1, ExecuteAll DEF BeginBlock
  <2>2. Len(incentives) \in Nat
    BY DEF TypeInv
  <2>3. g[Len(incentives)] \in Ledger
    BY <2>1, <2>2 DEF Executes
  <2>4. stake' \in [Validator -> Nat] /\ bank' \in [Account \cup {Module} -> Nat]
    BY <2>1, <2>3 DEF Ledger
  <2>5. height' \in 0..MaxHeight /\ height' >= height /\ height' \in Nat
    BY <1>0, <1>1, AlertsAssumption DEF BeginBlock
  <2>6. \A k \in Key : alerts[k] # NoAlert => alerts[k].submissionHeight \in Nat
    BY DEF TypeInv, TypeOK, AlertWithStatus
  <2> QED
    BY <1>0, <1>1, <2>1, <2>4, <2>5, <2>6, SMTT(30) DEF BeginBlock, TypeInv, TypeOK
<1>2. ASSUME NEW a \in Account, NEW k \in Key, Alert(a, k)
      PROVE  TypeInv'
  <2> DEFINE new == [signer |-> a, submissionHeight |-> height,
                     purgeHeight |-> height + params.blocksToPrune, concluded |-> FALSE]
  <2>1. new \in AlertWithStatus /\ new.submissionHeight <= height
    BY <1>0 DEF AlertWithStatus
  <2>2. alerts' = [alerts EXCEPT ![k] = new]
    BY <1>2 DEF Alert
  <2> HIDE DEF new
  <2>3. alerts' \in [Key -> AlertWithStatus \cup {NoAlert}]
    BY <2>1, <2>2 DEF TypeInv, TypeOK
  <2>4. \A j \in Key : alerts'[j] # NoAlert => alerts'[j].submissionHeight <= height
    BY <2>1, <2>2 DEF TypeInv, TypeOK
  <2>5. bank' \in [Account \cup {Module} -> Nat]
    <3>1. bank[a] \in Nat /\ bank[Module] \in Nat /\ bank[a] >= params.bondAmount
      BY <1>2 DEF Alert, CanPay, TypeInv, TypeOK
    <3>2. bank[a] - params.bondAmount \in Nat /\ bank[Module] + params.bondAmount \in Nat
      BY <1>0, <3>1
    <3>3. bank' = [[bank EXCEPT ![a] = bank[a] - params.bondAmount]
                      EXCEPT ![Module] = bank[Module] + params.bondAmount]
      BY <1>2, AlertsAssumption DEF Alert, Send, TypeInv, TypeOK
    <3> QED
      BY <3>2, <3>3 DEF TypeInv, TypeOK
  <2>6. bonds' \in [Key -> Nat]
    BY <1>0, <1>2 DEF Alert, TypeInv
  <2> QED
    BY <1>2, <2>3, <2>4, <2>5, <2>6 DEF Alert, TypeInv, TypeOK
<1>3. CASE SignConclusion
  BY <1>3 DEF SignConclusion, TypeInv, TypeOK
<1>4. ASSUME NEW c \in signed, Conclude(c)
      PROVE  TypeInv'
  <2> DEFINE k == c.alert
  <2>1. c \in Conclusion /\ k \in Key
    BY DEF TypeInv, TypeOK, Conclusion
  <2>2. alerts[k] \in AlertWithStatus
    BY <1>4, <2>1 DEF Conclude, CanConclude, TypeInv, TypeOK
  <2>3. k.height \in Nat
    BY <2>1, AlertsAssumption DEF Key
  <2> HIDE DEF k
  <2> DEFINE new == Concluded(alerts[k], k.height + params.maxBlockAge)
  <2>4. /\ new \in AlertWithStatus /\ new.submissionHeight = alerts[k].submissionHeight
    <3>1. k.height + params.maxBlockAge \in Nat
      BY <1>0, <2>3
    <3>2. PICK p \in Nat : p = k.height + params.maxBlockAge
      BY <3>1
    <3>3. PICK x \in AlertWithStatus : x = alerts[k]
      BY <2>2
    <3>4. PICK y : y = Concluded(x, p)
      OBVIOUS
    <3>5. y \in AlertWithStatus /\ y.submissionHeight = x.submissionHeight
      BY <3>4, ConcludedAlert, ZenonT(30)
    <3> QED
      BY <3>2, <3>3, <3>4, <3>5
  <2>5. alerts' = [alerts EXCEPT ![k] = new]
    <3>1. alerts' = ConcludeStatus(alerts, k)
      BY <1>4 DEF Conclude, k
    <3> QED
      BY <2>1, <2>2, <3>1, ConcludedOne DEF TypeInv, TypeOK
  <2> HIDE DEF new
  <2>6. alerts' \in [Key -> AlertWithStatus \cup {NoAlert}]
    BY <2>1, <2>4, <2>5 DEF TypeInv, TypeOK
  <2>7. \A j \in Key : alerts'[j] # NoAlert => alerts'[j].submissionHeight <= height
    <3>1. alerts[k] # NoAlert
      BY <1>4 DEF Conclude, CanConclude, k
    <3> QED
      BY <2>1, <2>4, <2>5, <3>1 DEF TypeInv, TypeOK
  <2>8. bank' \in [Account \cup {Module} -> Nat]
    <3> DEFINE s == alerts[k].signer
    <3>1. /\ s \in Account /\ bank[s] \in Nat /\ bank[Module] \in Nat
          /\ bank[Module] >= params.bondAmount
      BY <1>4, <2>2 DEF Conclude, CanConclude, CanPay, TypeInv, TypeOK, AlertWithStatus
    <3>2. bank[Module] - params.bondAmount \in Nat /\ bank[s] + params.bondAmount \in Nat
      BY <1>0, <3>1
    <3>3. \/ bank' = [[bank EXCEPT ![Module] = bank[Module] - params.bondAmount]
                         EXCEPT ![s] = bank[s] + params.bondAmount]
          \/ bank' = [bank EXCEPT ![Module] = bank[Module] - params.bondAmount]
      BY <1>4, <3>1, AlertsAssumption DEF Conclude, ConcludeBond, Send, k, TypeInv, TypeOK
    <3> HIDE DEF s
    <3> QED
      BY <3>1, <3>2, <3>3 DEF TypeInv, TypeOK
  <2>9. incentives' \in Seq(Incentive)
    <3>1. IncentivesOf(c) \in Seq(Incentive)
      BY <2>1, IncentivesType
    <3> QED
      BY <1>4, <3>1 DEF Conclude, TypeInv
  <2>10. \A i \in DOMAIN incentives' : incentives'[i].validator \in Validator
    <3>1. ASSUME NEW q \in Seq(Incentive), NEW i \in DOMAIN q
          PROVE  q[i].validator \in Validator
      <4>1. q[i] \in Incentive
        OBVIOUS
      <4> QED
        BY <4>1 DEF Incentive
    <3> QED
      BY <2>9, <3>1
  <2>11. faults' \subseteq Validator \X Key
    BY <1>4, <2>1 DEF Conclude, AtFault, k, TypeInv
  <2>12. bonds' \in [Key -> Nat]
    BY <1>4, <2>1 DEF Conclude, TypeInv
  <2> QED
    BY <1>4, <2>6, <2>7, <2>8, <2>9, <2>10, <2>11, <2>12 DEF Conclude, TypeInv, TypeOK
<1>5. CASE UpdateParams
  BY <1>5 DEF UpdateParams, TypeInv, TypeOK
<1>6. CASE EndBlock
  <2>1. CASE EndBlockerFails
    BY <1>6, <2>1 DEF EndBlock, TypeInv, TypeOK
  <2>2. CASE ~EndBlockerFails
    <3> DEFINE due == IF params.pruning THEN Due ELSE {}
               out == Cardinality(Open(due))
               back(a) == Cardinality({k \in Open(due) : alerts[k].signer = a})
    <3>1. /\ alerts' = [k \in Key |-> IF k \in due THEN NoAlert ELSE alerts[k]]
          /\ bonds' = [k \in Key |-> IF k \in due THEN 0 ELSE bonds[k]]
          /\ bank' = [a \in Account \cup {Module} |->
                        IF a = Module THEN bank[a] - out * params.bondAmount
                        ELSE bank[a] + back(a) * params.bondAmount]
          /\ phase' = "Begin"
          /\ UNCHANGED <<params, incentives, stake, height, halted, signed, faults>>
      BY <1>6, <2>2 DEF EndBlock, EndBlocker
    <3>2. due \subseteq Key
      BY DEF Due
    <3> HIDE DEF due
    <3>3. out \in Nat /\ \A a \in Account : back(a) \in Nat
      <4>1. Open(due) \in SUBSET Key
        BY <3>2 DEF Open
      <4>2. IsFiniteSet(Open(due))
        BY <4>1, KeyFinite, FS_Subset
      <4>3. ASSUME NEW a PROVE IsFiniteSet({k \in Open(due) : alerts[k].signer = a})
        BY <4>2, FS_Subset
      <4> QED
        BY <4>2, <4>3, FS_CardinalityType
    <3>4. out * params.bondAmount <= bank[Module]
      <4>1. CASE params.pruning
        BY <1>0, <2>2, <3>3, <4>1 DEF EndBlockerFails, due, TypeInv, TypeOK
      <4>2. CASE ~params.pruning
        <5>1. Open(due) = {}
          BY <4>2 DEF Open, due
        <5>2. out = 0
          BY <5>1, FS_EmptySet
        <5> QED
          BY <1>0, <5>2 DEF TypeInv, TypeOK
      <4> QED
        BY <4>1, <4>2
    <3> HIDE DEF out, back
    <3>5. bank' \in [Account \cup {Module} -> Nat]
      <4>1. bank[Module] - out * params.bondAmount \in Nat
        BY <1>0, <3>3, <3>4 DEF TypeInv, TypeOK
      <4>2. ASSUME NEW a \in Account
            PROVE  bank[a] + back(a) * params.bondAmount \in Nat
        <5>1. back(a) \in Nat /\ params.bondAmount \in Nat /\ bank[a] \in Nat
          BY <1>0, <3>3 DEF TypeInv, TypeOK
        <5> QED
          BY <5>1
      <4> QED
        BY <3>1, <4>1, <4>2
    <3> QED
      BY <3>1, <3>5 DEF TypeInv, TypeOK
  <2> QED
    BY <2>1, <2>2
<1>7. CASE UNCHANGED vars
  BY <1>7 DEF vars, TypeInv, TypeOK
<1>8. CASE BeginBlockFails
  BY <1>8 DEF BeginBlockFails, TypeInv, TypeOK
<1> QED
  BY <1>1, <1>2, <1>3, <1>4, <1>5, <1>6, <1>7, <1>8 DEF Next

\* Init has the types.
LEMMA TypeInit == Init => TypeInv
BY AlertsAssumption DEF Init, TypeInv, TypeOK

\* The types hold of every state.
LEMMA TypeInvariant == Spec => []TypeInv
BY TypeInit, TypeStep, PTL DEF Spec

\* The handlers keep the types, whatever the parameters are and become: no balance
\* and no stake is ever negative.
THEOREM AlertsTypes == Spec => []TypeOK
<1>1. TypeInv => TypeOK
  BY DEF TypeInv
<1> QED
  BY <1>1, TypeInvariant, PTL

-----------------------------------------------------------------------------
(* The escrow *)

\* One member more, one bond more.
LEMMA OneMore ==
    ASSUME NEW b \in Nat, NEW n \in Nat
    PROVE  b * (n + 1) = b * n + b
OBVIOUS

\* The sum of a function over a set.
SumOf(f, S) == MapThenSumSet(LAMBDA x : f[x], S)

\* A sum of equal terms is a product.
LEMMA SumOfEqual ==
    ASSUME NEW S, IsFiniteSet(S), NEW b \in Nat, NEW f, \A x \in S : f[x] = b
    PROVE  SumOf(f, S) = b * Cardinality(S)
<1> DEFINE pick(s) == CHOOSE x \in s : TRUE
           iter[s \in SUBSET S] == IF s = {} THEN 0 ELSE f[pick(s)] + iter[s \ {pick(s)}]
           g == [s \in SUBSET S |-> b * Cardinality(s)]
<1>1. SumOf(f, S) = iter[S]
  BY Zenon DEF SumOf, MapThenSumSet, MapThenFoldSet
<1>2. ASSUME NEW s \in SUBSET S
      PROVE  IsFiniteSet(s) /\ Cardinality(s) \in Nat
  BY FS_Subset, FS_CardinalityType
<1>3. ASSUME NEW s \in SUBSET S, s # {}
      PROVE  /\ pick(s) \in s /\ pick(s) \in S /\ s \ {pick(s)} \in SUBSET S
             /\ Cardinality(s \ {pick(s)}) \in Nat
             /\ Cardinality(s) = Cardinality(s \ {pick(s)}) + 1
  <2>1. pick(s) \in s
    BY <1>3
  <2> HIDE DEF pick
  <2>2. Cardinality(s \ {pick(s)}) = Cardinality(s) - 1
    BY <1>2, <2>1, FS_RemoveElement
  <2>3. s \ {pick(s)} \in SUBSET S
    OBVIOUS
  <2> QED
    BY <1>2, <2>1, <2>2, <2>3
<1> HIDE DEF pick
<1>4. g = [s \in SUBSET S |-> IF s = {} THEN 0 ELSE f[pick(s)] + g[s \ {pick(s)}]]
  <2>1. ASSUME NEW s \in SUBSET S
        PROVE  b * Cardinality(s) = IF s = {} THEN 0 ELSE f[pick(s)] + g[s \ {pick(s)}]
    <3>1. CASE s = {}
      <4>1. Cardinality(s) = 0
        BY <3>1, FS_EmptySet
      <4> QED
        BY <3>1, <4>1
    <3>2. CASE s # {}
      <4>1. g[s \ {pick(s)}] = b * Cardinality(s \ {pick(s)})
        BY <1>3, <3>2
      <4>2. f[pick(s)] = b
        BY <1>3, <3>2
      <4>3. b * Cardinality(s) = b * Cardinality(s \ {pick(s)}) + b
        BY <1>3, <3>2, OneMore
      <4>4. b * Cardinality(s \ {pick(s)}) \in Nat
        BY <1>3, <3>2
      <4> HIDE DEF g
      <4> QED
        BY <3>2, <4>1, <4>2, <4>3, <4>4
    <3> QED
      BY <3>1, <3>2
  <2> QED
    BY <2>1
<1> HIDE DEF g
<1>5. iter = [s \in SUBSET S |-> IF s = {} THEN 0 ELSE f[pick(s)] + iter[s \ {pick(s)}]]
  BY <1>4, Zenon
<1> HIDE DEF iter
<1> DEFINE T == {n \in Nat : \A s \in SUBSET S : Cardinality(s) = n => iter[s] = b * n}
<1>6. 0 \in T
  <2>1. ASSUME NEW s \in SUBSET S, Cardinality(s) = 0
        PROVE  iter[s] = b * 0
    <3>1. s = {}
      BY <1>2, <2>1, FS_EmptySet
    <3> QED
      BY <1>5, <3>1
  <2> QED
    BY <2>1
<1>7. ASSUME NEW n \in Nat, n \in T
      PROVE  n + 1 \in T
  <2>1. ASSUME NEW s \in SUBSET S, Cardinality(s) = n + 1
        PROVE  iter[s] = b * (n + 1)
    <3>1. s # {}
      BY <2>1, FS_EmptySet
    <3>2. iter[s] = f[pick(s)] + iter[s \ {pick(s)}]
      BY <1>5, <3>1
    <3>3. Cardinality(s \ {pick(s)}) = n
      BY <1>3, <2>1, <3>1
    <3>4. iter[s \ {pick(s)}] = b * n
      BY <1>3, <1>7, <3>1, <3>3
    <3>5. f[pick(s)] = b
      BY <1>3, <3>1
    <3>6. b * n \in Nat
      OBVIOUS
    <3> QED
      BY <3>2, <3>4, <3>5, <3>6, OneMore
  <2> QED
    BY <2>1
<1>8. Cardinality(S) \in T
  <2>1. Cardinality(S) \in Nat
    BY FS_CardinalityType
  <2> HIDE DEF T
  <2>2. \A i \in 0..Cardinality(S) : i \in T
    <3>1. \A i \in 0..(Cardinality(S) - 1) : i \in T => i + 1 \in T
      BY <1>7, <2>1
    <3> QED
      BY <1>6, <2>1, <3>1, UpTo, Zenon
  <2> QED
    BY <2>1, <2>2
<1> QED
  BY <1>1, <1>8

\* Executing the incentives changes neither what x/alerts holds nor the balance of
\* anybody but the signers: the module has no alerts of its own.
LEMMA ExecuteKeepsEscrow ==
    ASSUME TypeInv, NEW g, Executes(g)
    PROVE  g[Len(incentives)].bank[Module] = bank[Module]
<1> DEFINE N == Len(incentives)
           T == {i \in 0..N : g[i].bank[Module] = bank[Module]}
<1>1. N \in Nat /\ \A i \in 1..N : incentives[i] \in Incentive
  BY DEF TypeInv
<1>2. 0 \in T
  BY <1>1 DEF Executes
<1>3. ASSUME NEW i \in 0..(N - 1), i \in T
      PROVE  i + 1 \in T
  <2>1. i + 1 \in 1..N /\ (i + 1) - 1 = i /\ i \in 0..N
    BY <1>1
  <2>2. g[i + 1] = ExecuteStrategy(g[i], incentives[i + 1])
    BY <2>1 DEF Executes
  <2>3. g[i] \in Ledger /\ incentives[i + 1] \in Incentive
    BY <1>1, <2>1 DEF Executes
  <2>4. g[i].bank \in [Account \cup {Module} -> Nat] /\ incentives[i + 1].signer # Module
    BY <2>3, AlertsAssumption DEF Ledger, Incentive
  <2>5. g[i + 1].bank[Module] = g[i].bank[Module]
    BY <2>2, <2>4 DEF ExecuteStrategy
  <2> QED
    BY <1>3, <2>1, <2>5
<1>4. \A i \in 0..N : i \in T
  <2> HIDE DEF T, N
  <2> QED
    BY <1>1, <1>2, <1>3, UpTo, Zenon
<1> QED
  BY <1>1, <1>4

\* The bond is never changed.
SteadyBond == \A p, q \in ParamSets : p.bondAmount = q.bondAmount

\* The inductive invariant behind the escrow: each open alert has one bond of the
\* current amount, and the account of the module has as many.
EscrowInv ==
    /\ TypeInv
    /\ halted # "EndBlock"
    /\ \A k \in Open(Key) : bonds[k] = params.bondAmount
    /\ bank[Module] = params.bondAmount * Cardinality(Open(Key))

\* The open alerts are finitely many.
LEMMA OpenFinite ==
    ASSUME NEW S \in SUBSET Key
    PROVE  /\ Open(S) \in SUBSET Key /\ IsFiniteSet(Open(S))
           /\ Cardinality(Open(S)) \in Nat
           /\ Open(S) \subseteq Open(Key) /\ Cardinality(Open(S)) <= Cardinality(Open(Key))
<1>1. Open(S) \in SUBSET Key /\ Open(S) \subseteq Open(Key) /\ Open(Key) \in SUBSET Key
  BY DEF Open
<1>2. IsFiniteSet(Open(S)) /\ IsFiniteSet(Open(Key))
  BY <1>1, KeyFinite, FS_Subset
<1> QED
  BY <1>1, <1>2, FS_CardinalityType, FS_Subset

\* Products keep the order.
LEMMA TimesMonotone ==
    ASSUME NEW b \in Nat, NEW m \in Nat, NEW n \in Nat, m <= n
    PROVE  m * b <= b * n /\ b * (n - m) = b * n - m * b
OBVIOUS

\* A step that leaves the alerts and the escrow alone.
LEMMA EscrowStutter ==
    ASSUME EscrowInv, TypeInv', SteadyBond,
           alerts' = alerts, bonds' = bonds, bank'[Module] = bank[Module],
           halted' = halted \/ halted' = "BeginBlock"
    PROVE  EscrowInv'
<1>1. params'.bondAmount = params.bondAmount
  BY DEF SteadyBond, TypeInv, TypeOK, EscrowInv
<1>2. Open(Key)' = Open(Key)
  BY DEF Open
<1> QED
  BY <1>1, <1>2 DEF EscrowInv

\* Every step keeps the escrow.
LEMMA EscrowStep == SteadyBond /\ EscrowInv /\ [Next]_vars => EscrowInv'
<1> SUFFICES ASSUME SteadyBond, EscrowInv, [Next]_vars
             PROVE  EscrowInv'
  OBVIOUS
<1>t. TypeInv /\ TypeInv'
  BY TypeStep DEF EscrowInv
<1>0. /\ params \in ParamSets /\ params.bondAmount \in Nat /\ bank[Module] \in Nat
      /\ Cardinality(Open(Key)) \in Nat /\ IsFiniteSet(Open(Key))
  BY <1>t, ParamsType, OpenFinite DEF TypeInv, TypeOK
<1>1. CASE BeginBlock
  <2>1. PICK g : Executes(g) /\ bank' = g[Len(incentives)].bank
    BY <1>1, <1>t, ExecuteAll DEF BeginBlock
  <2>2. bank'[Module] = bank[Module]
    BY <1>t, <2>1, ExecuteKeepsEscrow
  <2> QED
    BY <1>1, <1>t, <2>2, EscrowStutter DEF BeginBlock
<1>2. ASSUME NEW a \in Account, NEW k \in Key, Alert(a, k)
      PROVE  EscrowInv'
  <2> DEFINE new == [signer |-> a, submissionHeight |-> height,
                     purgeHeight |-> height + params.blocksToPrune, concluded |-> FALSE]
  <2>1. alerts' = [alerts EXCEPT ![k] = new] /\ alerts[k] = NoAlert
    BY <1>2 DEF Alert
  <2>2. new # NoAlert /\ ~new.concluded
    <3>1. new \in AlertWithStatus
      BY <1>t, <1>0, ParamsType DEF AlertWithStatus, TypeInv, TypeOK
    <3> QED
      BY <3>1, AlertsAssumption
  <2> HIDE DEF new
  <2>3. Open(Key)' = Open(Key) \cup {k} /\ k \notin Open(Key)
    BY <1>t, <2>1, <2>2 DEF Open, TypeInv, TypeOK
  <2>4. Cardinality(Open(Key)') = Cardinality(Open(Key)) + 1
    BY <1>0, <2>3, FS_AddElement
  <2>5. bank'[Module] = bank[Module] + params.bondAmount
    BY <1>2, <1>t, AlertsAssumption DEF Alert, Send, TypeInv, TypeOK
  <2>6. bank'[Module] = params.bondAmount * Cardinality(Open(Key)')
    BY <1>0, <2>4, <2>5, OneMore DEF EscrowInv
  <2>7. \A j \in Open(Key)' : bonds'[j] = params.bondAmount
    BY <1>2, <1>t, <2>3 DEF Alert, EscrowInv, TypeInv, Open
  <2> QED
    BY <1>2, <1>t, <2>6, <2>7 DEF Alert, EscrowInv
<1>3. CASE SignConclusion
  BY <1>3, <1>t, EscrowStutter DEF SignConclusion
<1>4. ASSUME NEW c \in signed, Conclude(c)
      PROVE  EscrowInv'
  <2> DEFINE k == c.alert
  <2>1. c \in Conclusion /\ k \in Key
    BY <1>t DEF TypeInv, TypeOK, Conclusion
  <2>2. alerts[k] \in AlertWithStatus /\ alerts[k].signer \in Account /\ k \in Open(Key)
    BY <1>4, <1>t, <2>1 DEF Conclude, CanConclude, TypeInv, TypeOK, AlertWithStatus, Open
  <2>3. PICK y : /\ alerts' = [alerts EXCEPT ![k] = y] /\ y.concluded
    <3>1. ConcludeStatus(alerts, k)[k].concluded
      BY <1>t, <2>1, <2>2 DEF ConcludeStatus, TypeInv, TypeOK, AlertWithStatus
    <3>2. ConcludeStatus(alerts, k) =
            [alerts EXCEPT ![k] = Concluded(alerts[k], k.height + params.maxBlockAge)]
      BY <1>t, <2>1, <2>2, ConcludedOne DEF TypeInv, TypeOK
    <3>3. ConcludeStatus(alerts, k)[k] = Concluded(alerts[k], k.height + params.maxBlockAge)
      BY <1>t, <2>1, <3>2 DEF TypeInv, TypeOK
    <3> QED
      BY <1>4, <3>1, <3>2, <3>3 DEF Conclude
  <2>4. Open(Key)' = Open(Key) \ {k}
    BY <1>t, <2>1, <2>3 DEF Open, TypeInv, TypeOK
  <2>5. Cardinality(Open(Key)) = Cardinality(Open(Key)') + 1 /\ Cardinality(Open(Key)') \in Nat
    <3>1. Cardinality(Open(Key)') = Cardinality(Open(Key)) - 1
      BY <1>0, <2>2, <2>4, FS_RemoveElement, ZenonT(30)
    <3>2. IsFiniteSet(Open(Key)')
      BY <1>0, <2>4, FS_Subset
    <3> QED
      BY <1>0, <3>1, <3>2, FS_CardinalityType
  <2>6. bank'[Module] = bank[Module] - params.bondAmount
    BY <1>4, <1>t, <2>2, AlertsAssumption
    DEF Conclude, ConcludeBond, Send, TypeInv, TypeOK
  <2>7. bank'[Module] = params.bondAmount * Cardinality(Open(Key)')
    <3>1. params.bondAmount * Cardinality(Open(Key)') \in Nat
      BY <1>0, <2>5
    <3> QED
      BY <1>0, <2>5, <2>6, <3>1, OneMore DEF EscrowInv
  <2>8. \A j \in Open(Key)' : bonds'[j] = params.bondAmount
    BY <1>4, <1>t, <2>1, <2>4 DEF Conclude, EscrowInv, TypeInv, Open
  <2> QED
    BY <1>4, <1>t, <2>7, <2>8 DEF Conclude, EscrowInv
<1>5. CASE UpdateParams
  BY <1>5, <1>t, EscrowStutter DEF UpdateParams
<1>6. CASE EndBlock
  <2> DEFINE due == IF params.pruning THEN Due ELSE {}
             out == Cardinality(Open(due))
             all == Cardinality(Open(Key))
  <2>1. due \in SUBSET Key /\ Due \in SUBSET Key
    BY DEF Due
  <2>2. /\ out \in Nat /\ all \in Nat /\ out <= all /\ Open(due) \subseteq Open(Key)
        /\ IsFiniteSet(Open(due)) /\ IsFiniteSet(Open(Key))
        /\ Cardinality(Open(Due)) \in Nat /\ Cardinality(Open(Due)) <= all
    <3> HIDE DEF due
    <3> QED
      BY <2>1, OpenFinite, <1>0
  <2>3. ~EndBlockerFails
    <3>1. Cardinality(Open(Due)) * params.bondAmount <= params.bondAmount * all
      BY <1>0, <2>2, TimesMonotone
    <3>2. params.bondAmount * all \in Nat /\ Cardinality(Open(Due)) * params.bondAmount \in Nat
      BY <1>0, <2>2
    <3> QED
      BY <1>0, <3>1, <3>2 DEF EndBlockerFails, EscrowInv
  <2>4. /\ alerts' = [k \in Key |-> IF k \in due THEN NoAlert ELSE alerts[k]]
        /\ bonds' = [k \in Key |-> IF k \in due THEN 0 ELSE bonds[k]]
        /\ bank'[Module] = bank[Module] - out * params.bondAmount
        /\ halted' = halted /\ params' = params
    BY <1>6, <2>3 DEF EndBlock, EndBlocker
  <2> HIDE DEF due
  <2>5. Open(Key)' = Open(Key) \ Open(due)
    BY <2>1, <2>4 DEF Open
  <2>6. Cardinality(Open(Key)') = all - out
    <3>1. Open(Key) \cap Open(due) = Open(due)
      BY <2>2
    <3> QED
      BY <2>2, <2>5, <3>1, FS_Difference
  <2> HIDE DEF out, all
  <2>7. params.bondAmount * (all - out) = params.bondAmount * all - out * params.bondAmount
    BY <1>0, <2>2, TimesMonotone
  <2>8. bank'[Module] = params.bondAmount * Cardinality(Open(Key)')
    BY <2>4, <2>6, <2>7 DEF EscrowInv, all
  <2>9. \A j \in Open(Key)' : bonds'[j] = params.bondAmount
    BY <2>1, <2>4, <2>5 DEF EscrowInv, Open
  <2> QED
    BY <1>t, <2>4, <2>8, <2>9 DEF EscrowInv
<1>7. CASE UNCHANGED vars
  BY <1>7, <1>t, EscrowStutter DEF vars
<1>8. CASE BeginBlockFails
  BY <1>8, <1>t, EscrowStutter DEF BeginBlockFails
<1> QED
  BY <1>1, <1>2, <1>3, <1>4, <1>5, <1>6, <1>7, <1>8 DEF Next

\* At first nothing is escrowed.
LEMMA EscrowInit == Init => EscrowInv
<1> SUFFICES ASSUME Init PROVE EscrowInv
  OBVIOUS
<1>1. Open(Key) = {} /\ bank[Module] = 0 /\ halted = "no" /\ params.bondAmount \in Nat
  BY ParamsType DEF Init, Open
<1>2. Cardinality(Open(Key)) = 0
  BY <1>1, FS_EmptySet
<1> QED
  BY <1>1, <1>2, TypeInit DEF EscrowInv

\* Where the bond is never changed, the escrow is kept in every state.
LEMMA EscrowInvariant == ASSUME SteadyBond PROVE Spec => []EscrowInv
<1>1. EscrowInv /\ [Next]_vars => EscrowInv'
  BY EscrowStep
<1> QED
  BY <1>1, EscrowInit, PTL DEF Spec

\* While the authority leaves the bond as it is (every other parameter may change,
\* pruning be switched off and on), what x/alerts holds is exactly the bonds of the
\* open alerts.  The run AlertsBond shows that a changed bond breaks it.
THEOREM SteadyEscrowCovers == ASSUME SteadyBond PROVE Spec => []EscrowCoversBonds
<1>1. EscrowInv => EscrowCoversBonds
  <2> SUFFICES ASSUME EscrowInv PROVE EscrowCoversBonds
    OBVIOUS
  <2>1. IsFiniteSet(Open(Key)) /\ params.bondAmount \in Nat
    BY OpenFinite, ParamsType DEF EscrowInv, TypeInv, TypeOK
  <2>2. SumOf(bonds, Open(Key)) = params.bondAmount * Cardinality(Open(Key))
    BY <2>1, SumOfEqual DEF EscrowInv
  <2>3. OpenBonds = SumOf(bonds, Open(Key))
    BY Zenon DEF OpenBonds, SumOf, MapThenSumSet, MapThenFoldSet
  <2> QED
    BY <2>2, <2>3 DEF EscrowCoversBonds, EscrowInv
<1> QED
  BY <1>1, EscrowInvariant, PTL

\* Nor does EndBlocker ever fail there: no bond that is due cannot be paid.
THEOREM SteadyEndBlockerPays == ASSUME SteadyBond PROVE Spec => []EndBlockerPays
<1>1. EscrowInv => EndBlockerPays
  BY DEF EscrowInv, EndBlockerPays
<1> QED
  BY <1>1, EscrowInvariant, PTL

-----------------------------------------------------------------------------
(* What is exported *)

\* Pruning is never switched off.
AlwaysPruning == \A p \in ParamSets : p.pruning

\* Between blocks, no alert is past its purge height.
PrunedInv ==
    /\ TypeInv
    /\ phase = "Begin" => \A k \in Key : alerts[k] # NoAlert => alerts[k].purgeHeight > height

\* Every step keeps it.
LEMMA PrunedStep == AlwaysPruning /\ PrunedInv /\ [Next]_vars => PrunedInv'
<1> SUFFICES ASSUME AlwaysPruning, PrunedInv, [Next]_vars
             PROVE  PrunedInv'
  OBVIOUS
<1>t. TypeInv /\ TypeInv'
  BY TypeStep DEF PrunedInv
<1>1. CASE EndBlock
  <2>1. CASE EndBlockerFails
    BY <1>1, <1>t, <2>1 DEF EndBlock, PrunedInv
  <2>2. CASE ~EndBlockerFails
    <3>1. params.pruning
      BY <1>t DEF AlwaysPruning, TypeInv, TypeOK
    <3>2. alerts' = [k \in Key |-> IF k \in Due THEN NoAlert ELSE alerts[k]] /\ height' = height
      BY <1>1, <2>2, <3>1 DEF EndBlock, EndBlocker
    <3>3. ASSUME NEW k \in Key, alerts'[k] # NoAlert
          PROVE  alerts'[k].purgeHeight > height'
      <4>1. alerts'[k] = alerts[k] /\ k \notin Due
        BY <3>2, <3>3
      <4>2. ~(alerts[k].purgeHeight <= height)
        BY <3>3, <4>1 DEF Due
      <4>3. alerts[k] \in AlertWithStatus /\ height \in Nat
        BY <1>t, <3>3, <4>1, AlertsAssumption DEF TypeInv, TypeOK
      <4>4. alerts[k].purgeHeight \in Nat
        BY <4>3 DEF AlertWithStatus
      <4> QED
        BY <3>2, <4>1, <4>2, <4>3, <4>4
    <3> QED
      BY <1>t, <3>3 DEF PrunedInv
  <2> QED
    BY <2>1, <2>2
<1>2. CASE UNCHANGED vars
  BY <1>2, <1>t DEF vars, PrunedInv
<1>3. CASE BeginBlock
  BY <1>3, <1>t DEF BeginBlock, PrunedInv
<1>4. ASSUME NEW a \in Account, NEW k \in Key, Alert(a, k)
      PROVE  PrunedInv'
  BY <1>4, <1>t DEF Alert, PrunedInv
<1>5. CASE SignConclusion
  BY <1>5, <1>t DEF SignConclusion, PrunedInv
<1>6. ASSUME NEW c \in signed, Conclude(c)
      PROVE  PrunedInv'
  BY <1>6, <1>t DEF Conclude, PrunedInv
<1>7. CASE UpdateParams
  BY <1>7, <1>t DEF UpdateParams, PrunedInv
<1>8. CASE BeginBlockFails
  BY <1>8, <1>t DEF BeginBlockFails, PrunedInv
<1> QED
  BY <1>1, <1>2, <1>3, <1>4, <1>5, <1>6, <1>7, <1>8 DEF Next

\* While pruning stays on, genesis validation accepts what ExportGenesis returns
\* between blocks, although an alert may be raised, and concluded, after the purge
\* height that the conclusion gives it.
THEOREM PrunedExportIsValid == ASSUME AlwaysPruning PROVE Spec => []ExportIsValid
<1>1. Init => PrunedInv
  BY TypeInit DEF Init, PrunedInv
<1>2. PrunedInv /\ [Next]_vars => PrunedInv'
  BY PrunedStep
<1>3. PrunedInv => ExportIsValid
  <2> SUFFICES ASSUME PrunedInv, phase = "Begin", NEW k \in Key, alerts[k] # NoAlert
               PROVE  alerts[k].submissionHeight < alerts[k].purgeHeight
    BY DEF ExportIsValid
  <2>1. alerts[k] \in AlertWithStatus /\ height \in Nat
    BY AlertsAssumption DEF PrunedInv, TypeInv, TypeOK
  <2>2. alerts[k].submissionHeight \in Nat /\ alerts[k].purgeHeight \in Nat
    BY <2>1 DEF AlertWithStatus
  <2>3. alerts[k].submissionHeight <= height /\ alerts[k].purgeHeight > height
    BY DEF PrunedInv, TypeInv
  <2> QED
    BY <2>1, <2>2, <2>3
<1> QED
  BY <1>1, <1>2, <1>3, PTL DEF Spec

-----------------------------------------------------------------------------
(* One slash for each fault *)

\* The age that alerts may have is never changed.
SteadyAge == \A p, q \in ParamSets : p.maxBlockAge = q.maxBlockAge

\* A validator has tokens for a slash at every key.
EnoughStake == Stake0 >= SlashAmount * Cardinality(Key)

\* The alert of this key has been concluded.  It is still there, until the height
\* that the conclusion gave it, or it is gone and too old to be raised again.
Over(k) ==
    IF alerts[k] = NoAlert
    THEN \/ k.height + params.maxBlockAge < height
         \/ phase = "Begin" /\ k.height + params.maxBlockAge = height
    ELSE alerts[k].concluded /\ alerts[k].purgeHeight = k.height + params.maxBlockAge

\* Types of what Over compares.
LEMMA OverTypes ==
    ASSUME TypeInv, NEW k \in Key
    PROVE  /\ k.height \in Nat /\ height \in Nat /\ params.maxBlockAge \in Nat
           /\ params \in ParamSets
           /\ alerts[k] # NoAlert =>
                 /\ alerts[k] \in AlertWithStatus
                 /\ alerts[k].purgeHeight \in Nat /\ alerts[k].concluded \in BOOLEAN
<1>1. params \in ParamSets
  BY DEF TypeInv, TypeOK
<1>2. alerts[k] # NoAlert => alerts[k] \in AlertWithStatus
  BY DEF TypeInv, TypeOK
<1> QED
  BY <1>1, <1>2, ParamsType, AlertsAssumption DEF TypeInv, TypeOK, Key, AlertWithStatus

\* Once over, always over.
LEMMA OverStep ==
    ASSUME SteadyAge, TypeInv, TypeInv', [Next]_vars, NEW k \in Key, Over(k)
    PROVE  Over(k)'
<1>0. /\ k.height \in Nat /\ height \in Nat /\ params.maxBlockAge \in Nat
      /\ params \in ParamSets
      /\ alerts[k] # NoAlert =>
            /\ alerts[k] \in AlertWithStatus
            /\ alerts[k].purgeHeight \in Nat /\ alerts[k].concluded \in BOOLEAN
  BY OverTypes
<1>p. params'.maxBlockAge = params.maxBlockAge
  BY DEF SteadyAge, TypeInv, TypeOK
<1>1. CASE BeginBlock
  BY <1>0, <1>1, <1>p DEF BeginBlock, Over
<1>2. ASSUME NEW a \in Account, NEW j \in Key, Alert(a, j)
      PROVE  Over(k)'
  <2>1. phase = "Deliver" /\ phase' = phase /\ height' = height
    BY <1>2 DEF Alert
  <2>2. k # j
    <3> SUFFICES ASSUME k = j PROVE FALSE
      OBVIOUS
    <3>1. alerts[k] = NoAlert /\ ~TooOld(k)
      BY <1>2 DEF Alert
    <3>2. k.height + params.maxBlockAge < height
      BY <2>1, <3>1 DEF Over
    <3>3. Minus(height, k.height) = height - k.height
      BY <1>0, <3>2 DEF Minus
    <3> QED
      BY <1>0, <3>1, <3>2, <3>3 DEF TooOld
  <2>3. alerts'[k] = alerts[k]
    BY <1>2, <2>2 DEF Alert, TypeInv, TypeOK
  <2> QED
    BY <1>p, <2>1, <2>3 DEF Over
<1>3. CASE SignConclusion
  BY <1>3, <1>p DEF SignConclusion, Over
<1>4. ASSUME NEW c \in signed, Conclude(c)
      PROVE  Over(k)'
  <2>1. phase = "Deliver" /\ phase' = phase /\ height' = height
    BY <1>4 DEF Conclude
  <2>2. k # c.alert
    BY <1>4 DEF Conclude, CanConclude, Over
  <2>3. alerts'[k] = alerts[k]
    BY <1>4, <2>2 DEF Conclude, ConcludeStatus, TypeInv, TypeOK
  <2> QED
    BY <1>p, <2>1, <2>3 DEF Over
<1>5. CASE UpdateParams
  BY <1>5, <1>p DEF UpdateParams, Over
<1>6. CASE EndBlock
  <2>1. CASE EndBlockerFails
    BY <1>6, <1>p, <2>1 DEF EndBlock, Over
  <2>2. CASE ~EndBlockerFails
    <3>1. /\ \/ alerts'[k] = alerts[k]
             \/ k \in Due /\ alerts'[k] = NoAlert
          /\ phase = "Deliver" /\ phase' = "Begin" /\ height' = height
      BY <1>6, <2>2 DEF EndBlock, EndBlocker
    <3>2. CASE k \in Due /\ alerts'[k] = NoAlert
      <4>1. alerts[k] # NoAlert /\ alerts[k].purgeHeight <= height
        BY <3>2 DEF Due
      <4>2. k.height + params.maxBlockAge <= height
        BY <4>1 DEF Over
      <4> QED
        BY <1>0, <1>p, <3>1, <3>2, <4>2 DEF Over
    <3>3. CASE alerts'[k] = alerts[k]
      BY <1>p, <3>1, <3>3 DEF Over
    <3> QED
      BY <3>1, <3>2, <3>3
  <2> QED
    BY <2>1, <2>2
<1>7. CASE UNCHANGED vars
  BY <1>7 DEF vars, Over
<1>8. CASE BeginBlockFails
  BY <1>8 DEF BeginBlockFails, Over
<1> QED
  BY <1>1, <1>2, <1>3, <1>4, <1>5, <1>6, <1>7, <1>8 DEF Next

\* A conclusion is of an alert that is not over, and that then is.
LEMMA ConcludeIsOver ==
    ASSUME TypeInv, NEW c \in signed, Conclude(c)
    PROVE  c \in Conclusion /\ c.alert \in Key /\ ~Over(c.alert) /\ Over(c.alert)'
<1> DEFINE k == c.alert
<1>1. c \in Conclusion /\ k \in Key
  BY DEF TypeInv, TypeOK, Conclusion
<1>2. alerts[k] \in AlertWithStatus /\ alerts[k] # NoAlert /\ ~alerts[k].concluded
  BY <1>1 DEF Conclude, CanConclude, TypeInv, TypeOK
<1>3. k.height + params.maxBlockAge \in Nat
  BY <1>1, OverTypes
<1>4. alerts' = [alerts EXCEPT ![k] = Concluded(alerts[k], k.height + params.maxBlockAge)]
  BY <1>1, <1>2, ConcludedOne DEF Conclude, TypeInv, TypeOK
<1>5. PICK x \in AlertWithStatus, p \in Nat : x = alerts[k] /\ p = k.height + params.maxBlockAge
  BY <1>2, <1>3
<1>6. PICK y : y = Concluded(x, p)
  OBVIOUS
<1>7. y \in AlertWithStatus /\ y.concluded /\ y.purgeHeight = p
  BY <1>6, ConcludedAlert, Zenon
<1>8. y # NoAlert
  BY <1>7, AlertsAssumption
<1>9. alerts'[k] = y
  BY <1>1, <1>4, <1>5, <1>6 DEF TypeInv, TypeOK
<1>10. params' = params
  BY DEF Conclude
<1> QED
  BY <1>1, <1>2, <1>5, <1>7, <1>8, <1>9, <1>10 DEF Over

\* The faults of a validator, and its incentives that are not executed yet.
FaultsOf(v) == {f \in faults : f[1] = v}
Pending(v) == {i \in DOMAIN incentives : incentives[i].validator = v}

\* The inductive invariant behind the slashes: faults are of alerts that are over,
\* so that no conclusion adds one again; and the tokens of a validator with what is
\* pending account for its faults.
SlashInv ==
    /\ TypeInv
    /\ \A f \in faults : Over(f[2])
    /\ \A v \in Validator :
          stake[v] + SlashAmount * Cardinality(FaultsOf(v)) =
              Stake0 + SlashAmount * Cardinality(Pending(v))

\* A validator has at most one fault for a key.
LEMMA FaultsBounded ==
    ASSUME TypeInv, NEW v \in Validator
    PROVE  /\ IsFiniteSet(FaultsOf(v)) /\ Cardinality(FaultsOf(v)) \in Nat
           /\ Cardinality(Key) \in Nat
           /\ Cardinality(FaultsOf(v)) <= Cardinality(Key)
           /\ IsFiniteSet(Pending(v)) /\ Cardinality(Pending(v)) \in Nat
<1> DEFINE K == {k \in Key : <<v, k>> \in faults}
           h == [k \in K |-> <<v, k>>]
<1>1. h \in Surjection(K, FaultsOf(v))
  <2>1. h \in [K -> FaultsOf(v)]
    BY DEF FaultsOf
  <2>2. ASSUME NEW f \in FaultsOf(v)
        PROVE  \E k \in K : h[k] = f
    <3>1. f \in Validator \X Key /\ f \in faults /\ f[1] = v
      BY DEF FaultsOf, TypeInv
    <3>2. f = <<v, f[2]>> /\ f[2] \in Key
      BY <3>1
    <3>3. f[2] \in K /\ h[f[2]] = f
      BY <3>1, <3>2
    <3> QED
      BY <3>3
  <2> QED
    BY <2>1, <2>2 DEF Surjection
<1>2. K \in SUBSET Key
  OBVIOUS
<1> HIDE DEF h, K
<1>3. IsFiniteSet(K) /\ Cardinality(K) <= Cardinality(Key)
  BY <1>2, KeyFinite, FS_Subset
<1>4. IsFiniteSet(FaultsOf(v)) /\ Cardinality(FaultsOf(v)) <= Cardinality(K)
  BY <1>1, <1>3, FS_Surjection
<1>5. IsFiniteSet(Pending(v))
  <2>1. Len(incentives) \in Nat /\ DOMAIN incentives = 1..Len(incentives)
    BY DEF TypeInv
  <2>2. IsFiniteSet(DOMAIN incentives)
    BY <2>1, FS_Interval
  <2> QED
    BY <2>2, FS_Subset DEF Pending
<1> QED
  BY <1>3, <1>4, <1>5, KeyFinite, FS_CardinalityType

\* Executing the incentives takes a full slash for each of them, while the tokens
\* of the validator last.
LEMMA ExecuteSlashes ==
    ASSUME TypeInv, NEW g, Executes(g), NEW v \in Validator,
           stake[v] >= SlashAmount * Cardinality(Pending(v))
    PROVE  g[Len(incentives)].stake[v] + SlashAmount * Cardinality(Pending(v)) = stake[v]
<1> DEFINE N == Len(incentives)
           P(i) == {j \in 1..i : incentives[j].validator = v}
           T == {i \in 0..N : g[i].stake[v] + SlashAmount * Cardinality(P(i)) = stake[v]}
<1>1. /\ N \in Nat /\ \A i \in 1..N : incentives[i] \in Incentive
      /\ DOMAIN incentives = 1..N
  BY DEF TypeInv
<1>2. P(N) = Pending(v)
  BY <1>1 DEF Pending
<1>3. ASSUME NEW i \in 0..N
      PROVE  /\ P(i) \subseteq P(N) /\ IsFiniteSet(P(i))
             /\ Cardinality(P(i)) \in Nat /\ Cardinality(P(i)) <= Cardinality(P(N))
  <2>1. P(i) \subseteq P(N)
    BY <1>1
  <2>2. IsFiniteSet(P(N))
    BY <1>2, FaultsBounded
  <2> HIDE DEF P, N
  <2> QED
    BY <2>1, <2>2, FS_Subset, FS_CardinalityType
<1>4. stake[v] \in Nat /\ SlashAmount \in Nat
  BY AlertsAssumption DEF TypeInv, TypeOK
<1>5. 0 \in T
  <2>1. P(0) = {}
    OBVIOUS
  <2>2. Cardinality(P(0)) = 0
    BY <2>1, FS_EmptySet
  <2>3. g[0].stake[v] = stake[v]
    BY DEF Executes
  <2> HIDE DEF P
  <2> QED
    BY <1>1, <1>4, <2>2, <2>3
<1>6. ASSUME NEW i \in 0..(N - 1), i \in T
      PROVE  i + 1 \in T
  <2>1. i + 1 \in 1..N /\ (i + 1) - 1 = i /\ i \in 0..N /\ i + 1 \in 0..N
    BY <1>1
  <2>2. g[i + 1] = ExecuteStrategy(g[i], incentives[i + 1])
    BY <2>1 DEF Executes
  <2>3. g[i] \in Ledger /\ incentives[i + 1] \in Incentive
    BY <1>1, <2>1 DEF Executes
  <2>4. g[i].stake \in [Validator -> Nat] /\ incentives[i + 1].validator \in Validator
    BY <2>3 DEF Ledger, Incentive
  <2>5. g[i].stake[v] + SlashAmount * Cardinality(P(i)) = stake[v]
    BY <1>6
  <2>6. CASE incentives[i + 1].validator # v
    <3>1. P(i + 1) = P(i)
      BY <2>1, <2>6
    <3>2. g[i + 1].stake[v] = g[i].stake[v]
      BY <2>2, <2>4, <2>6 DEF ExecuteStrategy
    <3> HIDE DEF P
    <3> QED
      BY <2>1, <2>5, <3>1, <3>2
  <2>7. CASE incentives[i + 1].validator = v
    <3>1. P(i + 1) = P(i) \cup {i + 1} /\ i + 1 \notin P(i)
      BY <2>1, <2>7
    <3> HIDE DEF P
    <3>2. Cardinality(P(i + 1)) = Cardinality(P(i)) + 1
      BY <1>3, <2>1, <3>1, FS_AddElement
    <3>3. SlashAmount * Cardinality(P(i + 1)) = SlashAmount * Cardinality(P(i)) + SlashAmount
      BY <1>3, <1>4, <2>1, <3>2, OneMore
    <3>4. SlashAmount * Cardinality(P(i + 1)) <= stake[v]
      <4>1. Cardinality(P(i + 1)) * SlashAmount <= SlashAmount * Cardinality(P(N))
        <5>1. N \in 0..N
          BY <1>1
        <5>2. /\ Cardinality(P(i + 1)) \in Nat /\ Cardinality(P(N)) \in Nat
              /\ Cardinality(P(i + 1)) <= Cardinality(P(N))
          BY <1>3, <2>1, <5>1
        <5> QED
          BY <1>4, <5>2, TimesMonotone
      <4>2. /\ Cardinality(P(i + 1)) * SlashAmount = SlashAmount * Cardinality(P(i + 1))
            /\ SlashAmount * Cardinality(P(i + 1)) \in Nat
            /\ SlashAmount * Cardinality(P(N)) \in Nat
        <5>1. Cardinality(P(i + 1)) \in Nat /\ Cardinality(P(N)) \in Nat
          BY <1>1, <1>3, <2>1
        <5> QED
          BY <1>4, <5>1
      <4> QED
        BY <1>2, <1>4, <4>1, <4>2
    <3>5. SlashAmount * Cardinality(P(i)) \in Nat /\ g[i].stake[v] \in Nat
      <4>1. Cardinality(P(i)) \in Nat
        BY <1>3, <2>1
      <4> QED
        BY <1>4, <2>4, <4>1
    <3>6. g[i].stake[v] >= SlashAmount
      BY <1>4, <2>5, <3>3, <3>4, <3>5
    <3>7. g[i + 1].stake[v] = g[i].stake[v] - SlashAmount
      BY <1>4, <2>2, <2>4, <2>7, <3>5, <3>6 DEF ExecuteStrategy
    <3>8. g[i + 1].stake[v] + SlashAmount * Cardinality(P(i + 1)) = stake[v]
      BY <1>4, <2>5, <3>3, <3>5, <3>7
    <3> QED
      BY <2>1, <3>8
  <2> QED
    BY <2>6, <2>7
<1>7. \A i \in 0..N : i \in T
  <2> HIDE DEF T, N
  <2> QED
    BY <1>1, <1>5, <1>6, UpTo, Zenon
<1> QED
  <2>1. N \in T
    BY <1>1, <1>7
  <2> HIDE DEF P
  <2> QED
    BY <1>2, <2>1

\* A conclusion adds one incentive for each validator that it finds at fault.
LEMMA ConcludePending ==
    ASSUME TypeInv, NEW c \in Conclusion, NEW v \in Validator,
           incentives' = incentives \o IncentivesOf(c)
    PROVE  Cardinality(Pending(v)') =
             Cardinality(Pending(v)) + (IF v \in AtFault(c) THEN 1 ELSE 0)
<1> DEFINE q == IncentivesOf(c)
           L == Len(incentives)
           M == Len(q)
           order == SetToSeq(AtFault(c))
<1>1. /\ incentives \in Seq(Incentive) /\ q \in Seq(Incentive) /\ L \in Nat /\ M \in Nat
      /\ M = Cardinality(AtFault(c)) /\ IsFiniteSet(AtFault(c))
      /\ \A i \in 1..M : q[i].validator = order[i]
  <2>1. /\ q \in Seq(Incentive) /\ M = Cardinality(AtFault(c)) /\ IsFiniteSet(AtFault(c))
        /\ \A i \in 1..M : q[i].validator = order[i]
    BY IncentivesType, Zenon
  <2> HIDE DEF q, order
  <2> QED
    BY <2>1 DEF TypeInv
<1>2. /\ order \in [1..M -> AtFault(c)] /\ IsInjective(order)
      /\ \A x \in AtFault(c) : \E i \in 1..M : order[i] = x
  BY <1>1, Listed
<1> HIDE DEF q, L, M, order
<1>3. /\ DOMAIN incentives' = 1..(L + M)
      /\ \A i \in 1..L : incentives'[i] = incentives[i]
      /\ \A i \in 1..M : incentives'[L + i] = q[i]
  BY <1>1 DEF q, L, M
<1>4. /\ DOMAIN incentives = 1..L
      /\ \A i \in 1..M : L + i \in 1..(L + M) /\ incentives'[L + i].validator = order[i]
  BY <1>1, <1>3 DEF L
<1>5. ASSUME NEW i \in 1..(L + M), i \notin 1..L
      PROVE  \E j \in 1..M : i = L + j
  <2>1. i - L \in 1..M /\ i = L + (i - L)
    BY <1>1, <1>5
  <2> QED
    BY <2>1
<1>6. IsFiniteSet(Pending(v)) /\ Cardinality(Pending(v)) \in Nat
  BY FaultsBounded
<1>7. CASE v \in AtFault(c)
  <2>1. PICK j \in 1..M : order[j] = v
    BY <1>2, <1>7
  <2>2. \A i \in 1..M : order[i] = v => i = j
    BY <1>2, <2>1 DEF IsInjective
  <2>3. Pending(v)' = Pending(v) \cup {L + j}
    <3>1. ASSUME NEW i \in Pending(v)' PROVE i \in Pending(v) \cup {L + j}
      <4>1. i \in 1..(L + M) /\ incentives'[i].validator = v
        BY <1>3 DEF Pending
      <4>2. CASE i \in 1..L
        BY <1>3, <1>4, <4>1, <4>2 DEF Pending
      <4>3. CASE i \notin 1..L
        BY <1>4, <1>5, <2>2, <4>1, <4>3
      <4> QED
        BY <4>2, <4>3
    <3>2. L + j \in Pending(v)'
      BY <1>3, <1>4, <2>1 DEF Pending
    <3>3. Pending(v) \subseteq Pending(v)'
      BY <1>1, <1>3, <1>4 DEF Pending
    <3> QED
      BY <3>1, <3>2, <3>3
  <2>4. L + j \notin Pending(v)
    BY <1>1, <1>4 DEF Pending
  <2> QED
    BY <1>6, <1>7, <2>3, <2>4, FS_AddElement
<1>8. CASE v \notin AtFault(c)
  <2>1. \A i \in 1..M : incentives'[L + i].validator # v
    BY <1>2, <1>4, <1>8
  <2>2. Pending(v)' = Pending(v)
    <3>1. ASSUME NEW i \in Pending(v)' PROVE i \in Pending(v)
      <4>1. i \in 1..(L + M) /\ incentives'[i].validator = v
        BY <1>3 DEF Pending
      <4>2. i \in 1..L
        BY <1>5, <2>1, <4>1
      <4> QED
        BY <1>3, <1>4, <4>1, <4>2 DEF Pending
    <3>2. Pending(v) \subseteq Pending(v)'
      BY <1>1, <1>3, <1>4 DEF Pending
    <3> QED
      BY <3>1, <3>2
  <2> QED
    BY <1>6, <1>8, <2>2
<1> QED
  BY <1>7, <1>8

\* Nothing changes for a validator while its tokens, its faults and its incentives
\* are left alone.
LEMMA SlashStutter ==
    ASSUME SlashInv, TypeInv', SteadyAge, [Next]_vars,
           stake' = stake, incentives' = incentives, faults' = faults
    PROVE  SlashInv'
<1>1. \A f \in faults : Over(f[2])'
  <2> SUFFICES ASSUME NEW f \in faults PROVE Over(f[2])'
    OBVIOUS
  <2>1. f[2] \in Key
    BY DEF SlashInv, TypeInv
  <2> QED
    BY <2>1, OverStep DEF SlashInv
<1>2. \A v \in Validator : Pending(v)' = Pending(v) /\ FaultsOf(v)' = FaultsOf(v)
  BY DEF Pending, FaultsOf
<1> QED
  BY <1>1, <1>2 DEF SlashInv

\* BeginBlock: what was pending is paid.
LEMMA SlashBegin ==
    ASSUME SlashInv, TypeInv', SteadyAge, EnoughStake, BeginBlock
    PROVE  SlashInv'
<1>0. TypeInv /\ [Next]_vars /\ faults' = faults
  BY DEF SlashInv, Next, BeginBlock
<1>1. \A f \in faults' : Over(f[2])'
  <2> SUFFICES ASSUME NEW f \in faults PROVE Over(f[2])'
    BY <1>0
  <2>1. f[2] \in Key
    BY <1>0 DEF TypeInv
  <2> QED
    BY <1>0, <2>1, OverStep DEF SlashInv
<1>2. PICK g : /\ Executes(g) /\ stake' = g[Len(incentives)].stake /\ incentives' = <<>>
  BY <1>0, ExecuteAll DEF BeginBlock
<1>3. ASSUME NEW v \in Validator
      PROVE  stake'[v] + SlashAmount * Cardinality(FaultsOf(v)') =
               Stake0 + SlashAmount * Cardinality(Pending(v)')
  <2> DEFINE F == Cardinality(FaultsOf(v))
             P == Cardinality(Pending(v))
             K == Cardinality(Key)
  <2>1. F \in Nat /\ P \in Nat /\ K \in Nat /\ F <= K
    BY <1>0, FaultsBounded
  <2>2. stake[v] \in Nat /\ SlashAmount \in Nat /\ Stake0 \in Nat
    BY <1>0, AlertsAssumption DEF TypeInv, TypeOK
  <2>3. stake[v] + SlashAmount * F = Stake0 + SlashAmount * P
    BY DEF SlashInv
  <2>4. stake[v] >= SlashAmount * P
    <3>1. F * SlashAmount <= SlashAmount * K
      BY <2>1, <2>2, TimesMonotone
    <3>2. /\ F * SlashAmount = SlashAmount * F /\ SlashAmount * F \in Nat
          /\ SlashAmount * P \in Nat /\ SlashAmount * K \in Nat
      BY <2>1, <2>2
    <3> HIDE DEF F, P, K
    <3>3. SlashAmount * K <= Stake0
      BY <2>2, <3>2 DEF EnoughStake, K
    <3> QED
      BY <2>2, <2>3, <3>1, <3>2, <3>3
  <2>5. stake'[v] + SlashAmount * P = stake[v]
    BY <1>0, <1>2, <2>4, ExecuteSlashes
  <2>6. Pending(v)' = {}
    BY <1>2 DEF Pending
  <2>7. Cardinality(Pending(v)') = 0
    BY <2>6, FS_EmptySet
  <2>8. FaultsOf(v)' = FaultsOf(v)
    BY <1>0 DEF FaultsOf
  <2>9. stake'[v] \in Nat /\ SlashAmount * F \in Nat /\ SlashAmount * P \in Nat
    BY <2>1, <2>2 DEF TypeInv, TypeOK
  <2> QED
    BY <2>2, <2>3, <2>5, <2>7, <2>8, <2>9
<1> QED
  BY <1>1, <1>3 DEF SlashInv

\* A conclusion: a new fault of a validator comes with one incentive.
LEMMA SlashConclude ==
    ASSUME SlashInv, TypeInv', SteadyAge, NEW c \in signed, Conclude(c), c.status
    PROVE  SlashInv'
<1> DEFINE k == c.alert
<1>0. TypeInv /\ [Next]_vars /\ stake' = stake
  BY DEF SlashInv, Next, Conclude
<1>1. c \in Conclusion /\ k \in Key /\ ~Over(k) /\ Over(k)'
  BY <1>0, ConcludeIsOver
<1>2. /\ faults' = faults \cup (AtFault(c) \X {k})
      /\ incentives' = incentives \o IncentivesOf(c)
  BY DEF Conclude
<1>3. \A f \in faults' : Over(f[2])'
  <2> SUFFICES ASSUME NEW f \in faults' PROVE Over(f[2])'
    OBVIOUS
  <2>1. CASE f \in faults
    <3>1. f[2] \in Key
      BY <1>0, <2>1 DEF TypeInv
    <3> QED
      BY <1>0, <2>1, <3>1, OverStep DEF SlashInv
  <2>2. CASE f \notin faults
    <3>1. f[2] = k
      BY <1>2, <2>2
    <3> QED
      BY <1>1, <3>1
  <2> QED
    BY <2>1, <2>2
<1> HIDE DEF k
<1>4. ASSUME NEW v \in Validator
      PROVE  stake'[v] + SlashAmount * Cardinality(FaultsOf(v)') =
               Stake0 + SlashAmount * Cardinality(Pending(v)')
  <2> DEFINE F == Cardinality(FaultsOf(v))
             P == Cardinality(Pending(v))
  <2>1. F \in Nat /\ P \in Nat /\ IsFiniteSet(FaultsOf(v))
    BY <1>0, FaultsBounded
  <2>2. stake[v] \in Nat /\ SlashAmount \in Nat /\ Stake0 \in Nat
    BY <1>0, AlertsAssumption DEF TypeInv, TypeOK
  <2>3. stake[v] + SlashAmount * F = Stake0 + SlashAmount * P
    BY DEF SlashInv
  <2>4. Cardinality(Pending(v)') = P + (IF v \in AtFault(c) THEN 1 ELSE 0)
    BY <1>0, <1>1, <1>2, ConcludePending
  <2>5. <<v, k>> \notin faults
    <3> SUFFICES ASSUME <<v, k>> \in faults PROVE FALSE
      OBVIOUS
    <3>1. Over(<<v, k>>[2])
      BY DEF SlashInv
    <3>2. <<v, k>>[2] = k
      OBVIOUS
    <3> QED
      BY <1>1, <3>1, <3>2
  <2>6. CASE v \in AtFault(c)
    <3>1. FaultsOf(v)' = FaultsOf(v) \cup {<<v, k>>} /\ <<v, k>> \notin FaultsOf(v)
      BY <1>2, <2>5, <2>6 DEF FaultsOf
    <3>2. Cardinality(FaultsOf(v)') = F + 1
      BY <2>1, <3>1, FS_AddElement
    <3>3. /\ SlashAmount * (F + 1) = SlashAmount * F + SlashAmount
          /\ SlashAmount * (P + 1) = SlashAmount * P + SlashAmount
          /\ SlashAmount * F \in Nat /\ SlashAmount * P \in Nat
      BY <2>1, <2>2, OneMore
    <3>4. Cardinality(Pending(v)') = P + 1
      BY <2>4, <2>6
    <3> HIDE DEF F, P
    <3> QED
      BY <1>0, <2>2, <2>3, <3>2, <3>3, <3>4
  <2>7. CASE v \notin AtFault(c)
    <3>1. FaultsOf(v)' = FaultsOf(v)
      BY <1>2, <2>7 DEF FaultsOf
    <3>2. Cardinality(Pending(v)') = P
      BY <2>1, <2>4, <2>7
    <3> QED
      BY <1>0, <2>3, <3>1, <3>2
  <2> QED
    BY <2>6, <2>7
<1> QED
  BY <1>3, <1>4 DEF SlashInv

\* Every step keeps the account of the slashes.
LEMMA SlashStep == SteadyAge /\ EnoughStake /\ SlashInv /\ [Next]_vars => SlashInv'
<1> SUFFICES ASSUME SteadyAge, EnoughStake, SlashInv, [Next]_vars
             PROVE  SlashInv'
  OBVIOUS
<1>t. TypeInv /\ TypeInv'
  BY TypeStep DEF SlashInv
<1>1. CASE BeginBlock
  BY <1>1, <1>t, SlashBegin
<1>2. ASSUME NEW c \in signed, Conclude(c)
      PROVE  SlashInv'
  <2>1. CASE c.status
    BY <1>2, <1>t, <2>1, SlashConclude
  <2>2. CASE ~c.status
    BY <1>2, <1>t, <2>2, SlashStutter DEF Conclude
  <2> QED
    BY <2>1, <2>2
<1>3. CASE UNCHANGED <<stake, incentives, faults>>
  BY <1>3, <1>t, SlashStutter
<1>4. \/ BeginBlock
      \/ \E c \in signed : Conclude(c)
      \/ UNCHANGED <<stake, incentives, faults>>
  BY DEF Next, BeginBlockFails, Alert, SignConclusion, UpdateParams, EndBlock, vars
<1> QED
  BY <1>1, <1>2, <1>3, <1>4

\* A validator pays exactly one slash for each alert that it was found at fault for,
\* however often a signed conclusion is delivered and whenever alerts are pruned:
\* an alert that was concluded cannot be raised again.  This is for a maximal age of
\* alerts that is never changed and a validator that can pay; Slash takes less from
\* one that cannot.
THEOREM AlwaysSlashedOnce ==
    ASSUME SteadyAge, EnoughStake PROVE Spec => []SlashedOnce
<1>1. Init => SlashInv
  <2> SUFFICES ASSUME Init PROVE SlashInv
    OBVIOUS
  <2>1. ASSUME NEW v \in Validator
        PROVE  FaultsOf(v) = {} /\ Pending(v) = {} /\ stake[v] = Stake0
    BY DEF Init, FaultsOf, Pending
  <2>2. ASSUME NEW v \in Validator
        PROVE  Cardinality(FaultsOf(v)) = 0 /\ Cardinality(Pending(v)) = 0
    BY <2>1, FS_EmptySet
  <2> QED
    BY <2>1, <2>2, TypeInit DEF SlashInv, Init
<1>2. SlashInv /\ [Next]_vars => SlashInv'
  BY SlashStep
<1>3. SlashInv => SlashedOnce
  <2> SUFFICES ASSUME SlashInv, NEW v \in Validator
               PROVE  (Stake0 - stake[v]) + Cardinality(Pending(v)) * SlashAmount =
                        SlashAmount * Cardinality(FaultsOf(v))
    BY DEF SlashedOnce, Pending, FaultsOf
  <2>1. Cardinality(FaultsOf(v)) \in Nat /\ Cardinality(Pending(v)) \in Nat
    BY FaultsBounded DEF SlashInv
  <2>2. stake[v] \in Nat /\ SlashAmount \in Nat /\ Stake0 \in Nat
    BY AlertsAssumption DEF SlashInv, TypeInv, TypeOK
  <2>3. stake[v] + SlashAmount * Cardinality(FaultsOf(v)) =
          Stake0 + SlashAmount * Cardinality(Pending(v))
    BY DEF SlashInv
  <2>4. /\ Cardinality(Pending(v)) * SlashAmount = SlashAmount * Cardinality(Pending(v))
        /\ SlashAmount * Cardinality(Pending(v)) \in Nat
        /\ SlashAmount * Cardinality(FaultsOf(v)) \in Nat
    BY <2>1, <2>2
  <2> QED
    BY <2>2, <2>3, <2>4
<1> QED
  BY <1>1, <1>2, <1>3, PTL DEF Spec
=============================================================================

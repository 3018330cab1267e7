----------------------------- MODULE OracleABCI -----------------------------
(***************************************************************************)
(* The ABCI++ pipeline of the oracle, over the heights of a chain:         *)
(*                                                                         *)
(*   height h:   a proposer prepares a proposal with the extended commit   *)
(*               of height h - 1 in front, the others process it;          *)
(*               every validator runs the PreBlocker on the proposal, asks *)
(*               its oracle for prices and extends its vote with them;     *)
(*               the block is finalized: PreBlocker, BeginBlocker, txs.    *)
(*                                                                         *)
(* A height may take several rounds, a validator may crash and lose what   *)
(* its strategies cached, and the validators in Byz vote and propose what  *)
(* they like.  Every honest validator has its own store and its own two    *)
(* currency-pair strategies, the one of the PreBlocker and the one of the  *)
(* vote-extension handler (tests/simapp/app.go).  The validator set and    *)
(* its bonded tokens do not change.                                        *)
(***************************************************************************)
EXTENDS OracleStore, ExtendedCommit

CONSTANTS
    Validators,     \* the validators' addresses, as CometBFT sorts them
    Power,          \* voting power of each
    Tokens,         \* bonded tokens of each
    Byz,            \* validators that do not follow the code
    Strategy,       \* "default" or "delta"
    EnableHeight,   \* VoteExtensionsEnableHeight
    Quotes,         \* what an oracle may answer: maps from pairs to prices,
                    \* NoAnswer
    ByzExts,        \* extensions the validators in Byz may send
    BlockMsgs,      \* the messages of a block: a set of sequences of messages
    Genesis0,       \* the genesis state of x/oracle
    MaxHeight,      \* bound: last height
    MaxRound,       \* bound: last round of each height
    MaxID,          \* bound: currency-pair ids
    MaxRestarts,    \* bound: restarts of validators
    NoAnswer,       \* the oracle fails or is late
    NoValue,        \* no entry in a map
    Undecodable,    \* an extension the codec cannot decode
    TooLong,        \* price bytes longer than MaximumPriceSize
    Garbled,        \* price bytes that GobDecode rejects
    NoProposal,     \* no proposal in this round
    NoInfo          \* a proposal before vote extensions are enabled

Node == {Validators[i] : i \in DOMAIN Validators}
Honest == Node \ Byz
ID == 0..(MaxID - 1)

\* The sum of f over the validators in S.
SumOf(f, S) ==
    LET sum[i \in 0..Len(Validators)] ==
            IF i = 0 THEN 0
            ELSE sum[i - 1] + IF Validators[i] \in S THEN f[Validators[i]] ELSE 0
    IN  sum[Len(Validators)]

PowerOf(S) == SumOf(Power, S)
TokensOf(S) == SumOf(Tokens, S)

\* More than two thirds of the power: what CometBFT needs to decide.
IsQuorum(S) == 3 * PowerOf(S) > 2 * PowerOf(Node)

\* Extensions that can be decoded: encoded prices by id.
PriceMap == [ID -> Int \cup {NoValue, TooLong, Garbled}]

Extension == PriceMap \cup {NoExt, Undecodable}

\* CometBFT sorts the validators; less than a third of them do not follow the
\* code, also when weighed by tokens, of which there are millions per validator.
ASSUME ABCIAssumption ==
    /\ Validators \in Seq(Int)
    /\ \A i, j \in DOMAIN Validators : Validators[i] = Validators[j] => i = j
    /\ IsSorted([i \in DOMAIN Validators |->
                    [addr |-> Validators[i], power |-> Power[Validators[i]]]])
    /\ Power \in [Node -> Nat] /\ Tokens \in [Node -> Nat]
    /\ Byz \subseteq Node
    /\ 3 * PowerOf(Byz) < PowerOf(Node)
    /\ 3 * TokensOf(Byz) < TokensOf(Node) /\ TokensOf(Node) > 1000
    /\ Strategy \in {"default", "delta"}
    /\ MaxID \in Nat /\ MaxHeight \in Nat
    /\ Genesis0 \in Genesis /\ ValidGenesis(Genesis0) /\ Genesis0.nextId <= MaxID
    /\ Price \subseteq Nat /\ NoPrice \notin Int
    /\ Quotes \subseteq [CurrencyPair -> Price \cup {NoPrice}] \cup {NoAnswer}
    /\ ByzExts \subseteq Extension
    /\ BlockMsgs \subseteq Seq([kind : {"Add", "Remove"}, cp : CurrencyPair])

\* The values that stand for nothing, or for bytes that are no price, are none.
ASSUME ABCIValues ==
    /\ NoExt \notin PriceMap /\ Undecodable \notin PriceMap /\ NoExt # Undecodable
    /\ NoValue \notin Extension \cup CurrencyPair \cup Int \cup {TooLong, Garbled}
    /\ TooLong \notin Int /\ Garbled \notin Int
    /\ NoSig \notin [by : Int, ext : Extension, height : Int, round : Nat]
    /\ NoProposal \notin [round : Nat, votes : Seq([addr : Int, power : Nat,
          flag : Flags, ext : Extension,
          sig : [by : Int, ext : Extension, height : Int, round : Nat] \cup {NoSig}])]

VARIABLES
    height,        \* the height being decided
    round,         \* its round
    store,         \* per honest validator: x/oracle as of height - 1
    proposal,      \* the extended commit info of the accepted proposal
    ext,           \* per honest validator: its vote extension in this round
    reported,      \* history: the prices that went into it
    preCache,      \* per honest validator: caches of the PreBlocker's strategy
    veCache,       \* per honest validator: caches of the vote handler's strategy
    last,          \* the decided votes of height - 1
    restarts       \* number of restarts so far

vars == <<height, round, store, proposal, ext, reported, preCache, veCache, last, restarts>>

-----------------------------------------------------------------------------
(* Vote extensions.  An extension maps ids to encoded prices.              *)

VoteExtensionsEnabled == height > 1 /\ EnableHeight # 0 /\ EnableHeight < height

EmptyExt == [id \in ID |-> NoValue]

\* The codecs decode empty bytes to an extension without prices.
Decode(bz) == IF bz = NoExt THEN EmptyExt ELSE bz

NumPrices(e) == Cardinality({id \in ID : e[id] # NoValue})

\* Mutant: the removed pairs are not allowed for.
GetMaxNumCPCurrent(s, mode) == s.numCPs

GetMaxNumCP(s, mode) ==
    IF mode \in {"PrepareProposal", "ProcessProposal"}
    THEN s.numCPs + s.numRemoves
    ELSE s.numCPs

\* Mutant: the length of the prices is not checked.
ValidateNumberOnly(maxNumCP, e) == NumPrices(e) <= maxNumCP

\* Mutant: off by one.
ValidateFewer(maxNumCP, e) == NumPrices(e) < maxNumCP /\ \A id \in ID : e[id] # TooLong

ValidateOracleVoteExtension(maxNumCP, e) ==
    /\ NumPrices(e) <= maxNumCP
    /\ \A id \in ID : e[id] # TooLong

\* VerifyVoteExtension, given GetMaxNumCP of the committed state.
Verifies(maxNumCP, bz) ==
    \/ bz = NoExt
    \/ /\ bz # Undecodable
       /\ ValidateOracleVoteExtension(maxNumCP, Decode(bz))

\* validateVoteExtension of abci/proposals
ValidVote(s, mode, vote) ==
    \/ vote.ext = NoExt /\ vote.sig = NoSig
    \/ /\ vote.ext # Undecodable
       /\ ValidateOracleVoteExtension(GetMaxNumCP(s, mode), Decode(vote.ext))

-----------------------------------------------------------------------------
(* Currency-pair strategies.  Each keeps an id cache and, for delta, a     *)
(* cache of on-chain prices; a cache is emptied when it is used at another *)
(* height.                                                                 *)

NoIDs == [id \in ID |-> NoValue]
NoPrices == [cp \in CurrencyPair |-> NoValue]
NewStrategy == [idHeight |-> 0, ids |-> NoIDs, height |-> 0, prices |-> NoPrices]

IDCache(c, h) == IF c.idHeight = h THEN c.ids ELSE NoIDs

\* Mutant: the cache is kept over heights.
PriceCacheKept(c, h) == c.prices

PriceCache(c, h) == IF c.height = h THEN c.prices ELSE NoPrices

\* FromID: the cached pair, or the one in state, or NoValue (an error).
FromID(s, c, h, id) ==
    IF IDCache(c, h)[id] # NoValue THEN IDCache(c, h)[id]
    ELSE IF MatchExact(s, id) # {} THEN GetCurrencyPairFromID(s, id)
    ELSE NoValue

\* getOnChainPrice of a pair in state
getOnChainPrice(s, c, h, cp) ==
    IF PriceCache(c, h)[cp] # NoValue THEN PriceCache(c, h)[cp]
    ELSE IF GetPriceForCurrencyPair(s, cp) = NoPrice THEN 0
    ELSE GetPriceForCurrencyPair(s, cp)

\* The caches after FromID of ids and getOnChainPrice of pairs.
Remember(s, c, h, ids, pairs) ==
    [idHeight |-> IF ids = {} THEN c.idHeight ELSE h,
     ids |-> IF ids = {} THEN c.ids
             ELSE [id \in ID |-> IF id \in ids THEN FromID(s, c, h, id)
                                 ELSE IDCache(c, h)[id]],
     height |-> IF pairs = {} \/ Strategy # "delta" THEN c.height ELSE h,
     prices |-> IF pairs = {} \/ Strategy # "delta" THEN c.prices
                ELSE [cp \in CurrencyPair |->
                         IF cp \in pairs THEN getOnChainPrice(s, c, h, cp)
                         ELSE PriceCache(c, h)[cp]]]

GetEncodedPrice(s, c, h, cp, price) ==
    IF Strategy = "delta" THEN price - getOnChainPrice(s, c, h, cp) ELSE price

\* NoPrice is an error: the caller skips the pair.
GetDecodedPrice(s, c, h, cp, bz) ==
    LET price == IF Strategy = "delta" THEN bz + getOnChainPrice(s, c, h, cp)
                 ELSE bz
    IN  IF bz = Garbled THEN NoPrice
        ELSE IF price < 0 THEN NoPrice
        ELSE price
-----------------------------------------------------------------------------
(* The PreBlocker *)

\* GetOracleVotes or addVoteToAggregator returns an error.
PreBlockFails(ec) ==
    /\ VoteExtensionsEnabled
    /\ \E i \in DOMAIN ec.votes :
          \/ ec.votes[i].ext = Undecodable
          \/ \E id \in ID : Decode(ec.votes[i].ext)[id] = TooLong

\* addVoteToAggregator: what a vote says of a pair, NoPrice if nothing.
VotePrice(s, c, h, e, cp) ==
    LET ids == {id \in ID : e[id] # NoValue /\ FromID(s, c, h, id) = cp}
    IN  IF ids = {} THEN NoPrice
        ELSE GetDecodedPrice(s, c, h, cp, e[CHOOSE id \in ids : TRUE])

\* Mutant: the first price is taken.
ComputeFirst(voters, price) == Min({price[n] : n \in voters})

\* ComputeMedian: in the order of the prices, the first one at which the
\* weight summed up reaches half of the total weight.
ComputeMedian(voters, price) ==
    LET middle == TokensOf(voters) \div 2
        reach == {price[n] : n \in {m \in voters :
                     TokensOf({k \in voters : price[k] <= price[m]}) >= middle}}
    IN  Min(reach)

\* Mutant: the power threshold is not checked.
MedianOfAny(price) ==
    LET voters == {n \in DOMAIN price : price[n] # NoPrice}
    IN  IF voters = {} THEN NoPrice ELSE ComputeMedian(voters, price)

\* The stake-weighted median (pkg/math/voteweighted), with
\* DefaultPowerThreshold = 0.667 of all the bonded tokens.
Median(price) ==
    LET voters == {n \in DOMAIN price : price[n] # NoPrice}
    IN  IF voters # {} /\ 1000 * TokensOf(voters) >= 667 * TokensOf(Node)
        THEN ComputeMedian(voters, price)
        ELSE NoPrice

\* GetOracleVotes and AggregateOracleVotes: the prices to write.
AggregateOracleVotes(s, c, h, ec) ==
    LET vote == [n \in Node |-> CHOOSE i \in DOMAIN ec.votes : ec.votes[i].addr = n]
    IN  [cp \in CurrencyPair |->
            Median([n \in Node |->
                VotePrice(s, c, h, Decode(ec.votes[vote[n]].ext), cp)])]

\* The ids that the votes name, and the pairs in state they stand for.
NamedIDs(ec) ==
    {id \in ID : \E i \in DOMAIN ec.votes : Decode(ec.votes[i].ext)[id] # NoValue}
NamedPairs(s, c, h, ec) == {FromID(s, c, h, id) : id \in NamedIDs(ec)} \ {NoValue}

\* The PreBlocker on a store, and the caches of its strategy afterwards.
PreBlocker(s, c, ec) ==
    IF VoteExtensionsEnabled
    THEN WritePrices(s, AggregateOracleVotes(s, c, height, ec))
    ELSE s

\* Mutant: the written prices are cached.
CacheWrittenPrices(s, c, ec) ==
    IF VoteExtensionsEnabled
    THEN Remember(PreBlocker(s, c, ec), c, height, NamedIDs(ec), NamedPairs(s, c, height, ec))
    ELSE c

PreBlockerCache(s, c, ec) ==
    IF VoteExtensionsEnabled
    THEN Remember(s, c, height, NamedIDs(ec), NamedPairs(s, c, height, ec))
    ELSE c

-----------------------------------------------------------------------------
(* Proposals *)

\* Mutant: invalid votes are not pruned.
PrepareUnpruned(s, local) ==
    IF ValidateVoteExtensions(local, local, height) THEN local ELSE NoProposal

\* PrepareProposal: the extended commit info to inject, NoProposal on an error.
\* The handler runs when vote extensions are enabled; it then fits the block.
PrepareProposal(s, local) ==
    LET pruned == [local EXCEPT !.votes =
                      [i \in DOMAIN @ |->
                          IF ValidVote(s, "PrepareProposal", @[i]) THEN @[i]
                          ELSE Prune(@[i])]]
    IN  IF ValidateVoteExtensions(pruned, local, height) THEN pruned ELSE NoProposal

\* ProcessProposal accepts, given the proposed last commit.
ProcessProposal(s, ec, lc) ==
    /\ ValidateVoteExtensions(ec, lc, height)
    /\ \A i \in DOMAIN ec.votes : ValidVote(s, "ProcessProposal", ec.votes[i])

\* A block is decided only if the validators that accept it are a quorum.
Accepted(ec, lc) ==
    IsQuorum(Byz \cup {n \in Honest : ProcessProposal(store[n], ec, lc)})

\* The vote of a validator in the commit of the last height, with extension e.
CommitVote(n, e) ==
    [addr |-> n, power |-> Power[n], flag |-> "Commit", ext |-> e,
     sig |-> Sign(n, e, height - 1, last.round)]

AbsentVote(n) ==
    [addr |-> n, power |-> Power[n], flag |-> "Absent", ext |-> NoExt, sig |-> NoSig]

\* A commit of the last height: the votes of a quorum S, with extensions e.
CommitOf(S, e) ==
    [round |-> last.round,
     votes |-> [i \in DOMAIN Validators |->
                   IF Validators[i] \in S
                   THEN CommitVote(Validators[i], e[Validators[i]])
                   ELSE AbsentVote(Validators[i])]]

\* The extensions of the last height, b being those of the validators in Byz.
Exts(b) == [n \in Node |-> IF n \in Byz THEN b[n] ELSE last.ext[n]]

VotersOf(c) == {c.votes[i].addr : i \in {j \in DOMAIN c.votes : c.votes[j].flag = "Commit"}}

\* The commits of the last height: the votes of any quorum.
Commits ==
    {CommitOf(S, Exts(b)) :
        S \in {S \in SUBSET Node :
                  IsQuorum(S) /\ \A n \in S \ Byz : last.ext[n] # NoValue},
        b \in [Byz -> ByzExts]}

\* Those an honest validator may hold: a quorum of votes it verified, and
\* perhaps late votes, whose extensions CometBFT does not have verified.
LocalCommits ==
    {c \in Commits :
        IsQuorum({c.votes[i].addr : i \in
            {j \in DOMAIN c.votes : /\ c.votes[j].flag = "Commit"
                                    /\ Verifies(last.maxNumCP, c.votes[j].ext)}})}

\* What a proposer in Byz may make of a commit: votes marked as absent, one
\* extension exchanged under its old signature, one vote put in twice.
Tampered(c) ==
    {[c EXCEPT !.votes = [i \in DOMAIN @ |-> IF i \in I THEN Prune(@[i]) ELSE @[i]]] :
        I \in SUBSET DOMAIN c.votes}
    \cup {[c EXCEPT !.votes[i].ext = e] : i \in DOMAIN c.votes, e \in ByzExts}
    \cup {[c EXCEPT !.votes[i] = c.votes[j]] : i \in DOMAIN c.votes, j \in DOMAIN c.votes}

-----------------------------------------------------------------------------
(* The chain *)

NoVotes == [n \in Honest |-> NoValue]

NoReports == [n \in Honest |-> [cp \in CurrencyPair |-> NoPrice]]

Init ==
    /\ height = 1
    /\ round = 0
    /\ store = [n \in Honest |-> InitGenesis(Genesis0)]
    /\ proposal = NoProposal
    /\ ext = NoVotes
    /\ reported = NoReports
    /\ preCache = [n \in Honest |-> NewStrategy]
    /\ veCache = [n \in Honest |-> NewStrategy]
    /\ last = [round |-> 0, ext |-> NoVotes, reported |-> NoReports, maxNumCP |-> 0]
    /\ restarts = 0

\* Before vote extensions are enabled a proposal carries no oracle data.
ProposeWithoutInfo ==
    /\ proposal = NoProposal /\ ~VoteExtensionsEnabled /\ height <= MaxHeight
    /\ proposal' = NoInfo
    /\ UNCHANGED <<height, round, store, ext, reported, preCache, veCache, last, restarts>>

\* An honest proposer prepares, the others process.
Propose(n) ==
    /\ proposal = NoProposal /\ VoteExtensionsEnabled /\ height <= MaxHeight
    /\ \E local \in LocalCommits :
          LET ec == PrepareProposal(store[n], local)
          IN  /\ ec # NoProposal /\ Accepted(ec, local)
              /\ proposal' = ec
    /\ UNCHANGED <<height, round, store, ext, reported, preCache, veCache, last, restarts>>

ProposeByz ==
    /\ proposal = NoProposal /\ VoteExtensionsEnabled /\ height <= MaxHeight
    /\ Byz # {}
    /\ \E lc \in Commits : \E ec \in Tampered(lc) :
          /\ Accepted(ec, lc)
          /\ proposal' = ec
    /\ UNCHANGED <<height, round, store, ext, reported, preCache, veCache, last, restarts>>

\* transformOracleServicePrices: the encoded prices of the pairs known in state.
Transform(s, c, quote) ==
    LET known == {cp \in GetAllCurrencyPairs(s) : quote[cp] # NoPrice}
        named == [id \in ID |-> {cp \in known : GetIDForCurrencyPair(s, cp) = id}]
    IN  [id \in ID |->
            IF named[id] = {} THEN NoValue
            ELSE LET cp == CHOOSE cp \in named[id] : TRUE
                 IN  GetEncodedPrice(s, c, height, cp, quote[cp])]

\* ExtendVote: the PreBlocker on the proposal, in a store that is dropped, then
\* the oracle's answer, encoded.  The extension is empty when the PreBlocker
\* fails (see PreBlockNeverFails) and when the oracle fails or is late.
ExtendVote(n) ==
    /\ proposal # NoProposal /\ ext[n] = NoValue
    /\ \E quote \in Quotes :
          LET s == PreBlocker(store[n], preCache[n], proposal)
              answered == ~PreBlockFails(proposal) /\ quote # NoAnswer
              known == {cp \in GetAllCurrencyPairs(s) : quote[cp] # NoPrice}
          IN  /\ ext' = [ext EXCEPT ![n] =
                     IF answered THEN Transform(s, veCache[n], quote) ELSE NoExt]
              /\ reported' = IF answered
                    THEN [reported EXCEPT ![n] =
                            [cp \in CurrencyPair |-> IF cp \in known THEN quote[cp] ELSE NoPrice]]
                    ELSE reported
              /\ veCache' = IF answered
                    THEN [veCache EXCEPT ![n] = Remember(s, @, height, {}, known)]
                    ELSE veCache
    /\ preCache' = IF PreBlockFails(proposal) THEN preCache
                   ELSE [preCache EXCEPT ![n] = PreBlockerCache(store[n], @, proposal)]
    /\ UNCHANGED <<height, round, store, proposal, last, restarts>>

\* The round fails.  Another proposal can only be decided later if the honest
\* validators locked on this one (those that extended their vote) are too few
\* to keep it from a quorum.
NextRound ==
    /\ proposal # NoProposal /\ round < MaxRound[height]
    /\ IsQuorum(Node \ {n \in Honest : ext[n] # NoValue})
    /\ round' = round + 1
    /\ proposal' = NoProposal
    /\ ext' = NoVotes
    /\ reported' = NoReports
    /\ UNCHANGED <<height, store, preCache, veCache, last, restarts>>

\* AddCurrencyPairs and RemoveCurrencyPairs of one pair; see OracleModule for
\* messages of several pairs.
Deliver(s, msg) ==
    CASE msg.kind = "Add" /\ ~HasCurrencyPair(s, msg.cp) /\ s.nextCurrencyPairID < MaxID
            -> CreateCurrencyPair(s, msg.cp)
      [] msg.kind = "Remove" /\ HasCurrencyPair(s, msg.cp) -> RemoveCurrencyPair(s, msg.cp)
      [] OTHER -> s

DeliverAll(s, msgs) ==
    LET run[i \in 0..Len(msgs)] == IF i = 0 THEN s ELSE Deliver(run[i - 1], msgs[i])
    IN  run[Len(msgs)]

\* FinalizeBlock and Commit, on every honest validator.
FinalizeBlock ==
    /\ proposal # NoProposal
    /\ IsQuorum(Byz \cup {n \in Honest : ext[n] # NoValue})
    /\ ~PreBlockFails(proposal)
    /\ \E msgs \in BlockMsgs :
          store' = [n \in Honest |->
              DeliverAll(BeginBlocker(PreBlocker(store[n], preCache[n], proposal)), msgs)]
    /\ preCache' = [n \in Honest |-> PreBlockerCache(store[n], preCache[n], proposal)]
    /\ last' = [round |-> round, ext |-> ext, reported |-> reported,
                maxNumCP |-> Min({GetMaxNumCP(store[n], "VerifyVoteExtension") :
                                     n \in Honest})]
    /\ height' = height + 1
    /\ round' = 0
    /\ proposal' = NoProposal
    /\ ext' = NoVotes
    /\ reported' = NoReports
    /\ UNCHANGED <<veCache, restarts>>

\* A validator restarts with its committed state; its strategies are new.  (A
\* restart before the proposal is one after it: proposing reads no cache.)
Restart(n) ==
    /\ proposal # NoProposal /\ restarts < MaxRestarts
    /\ <<preCache[n], veCache[n]>> # <<NewStrategy, NewStrategy>>
    /\ preCache' = [preCache EXCEPT ![n] = NewStrategy]
    /\ veCache' = [veCache EXCEPT ![n] = NewStrategy]
    /\ UNCHANGED <<height, round, store, proposal, ext, reported, last>>
    /\ restarts' = restarts + 1

Next ==
    \/ ProposeWithoutInfo
    \/ \E n \in Honest : Propose(n)
    \/ ProposeByz
    \/ \E n \in Honest : ExtendVote(n)
    \/ NextRound
    \/ FinalizeBlock
    \/ \E n \in Honest : Restart(n)

Spec == Init /\ [][Next]_vars
-----------------------------------------------------------------------------
(* Properties *)

HasInfo == proposal \notin {NoProposal, NoInfo}

\* The handlers keep the types of the validators' state: a written price is one
\* that was voted for, an extension maps ids to encoded prices, and no cache is
\* from a later height.
TypeOK ==
    /\ height \in 1..(MaxHeight + 1)
    /\ round \in Nat
    /\ \A n \in Honest :
          /\ store[n] \in Store
          /\ ext[n] \in Extension \cup {NoValue}
          /\ reported[n] \in [CurrencyPair -> Price \cup {NoPrice}]
          /\ preCache[n].height <= height /\ veCache[n].height <= height
    /\ HasInfo => \A i \in DOMAIN proposal.votes : proposal.votes[i].ext \in Extension

\* Every honest validator computes the same x/oracle state for a block, whatever
\* its strategies have cached: from earlier rounds, from extending its vote or
\* not, from a restart in between.
NodesAgree == \A m, n \in Honest : store[m] = store[n]

\* The extension an honest validator makes is accepted by VerifyVoteExtension
\* of every other.
HonestExtensionVerifies ==
    \A m, n \in Honest :
        ext[n] # NoValue =>
            Verifies(GetMaxNumCP(store[m], "VerifyVoteExtension"), ext[n])

\* An honest proposer always gets a proposal out of the commit it holds, also
\* when the block in between removed pairs or when late votes with unverified
\* extensions must be pruned; the others accept it; and no vote of an honest
\* validator is pruned.
HonestProposalAccepted ==
    (proposal = NoProposal /\ VoteExtensionsEnabled) =>
        \A local \in LocalCommits, n \in Honest :
            LET ec == PrepareProposal(store[n], local)
            IN  /\ ec # NoProposal
                /\ Accepted(ec, local)
                /\ \A i \in DOMAIN Validators :
                      Validators[i] \in Honest => ec.votes[i] = local.votes[i]

\* The PreBlocker never fails on a proposal that was accepted: finalizing a
\* decided block does not halt the chain.
PreBlockNeverFails == HasInfo => ~PreBlockFails(proposal)

\* What an honest validator's oracle reported is what every PreBlocker decodes
\* from its vote, for every pair that is still the same pair.
DecodedAsReported ==
    HasInfo =>
        \A m \in Honest : \A i \in DOMAIN proposal.votes : \A cp \in CurrencyPair :
            LET vote == proposal.votes[i]
                e == Decode(vote.ext)
            IN  (/\ vote.addr \in Honest
                 /\ HasCurrencyPair(store[m], cp)
                 /\ e[GetIDForCurrencyPair(store[m], cp)] # NoValue) =>
                    VotePrice(store[m], preCache[m], height, e, cp) =
                        last.reported[vote.addr][cp]

\* A price is only written for a pair if it lies between two prices that honest
\* validators reported for that very pair, whoever proposed, whatever votes the
\* proposer left out and whatever the validators in Byz voted.
PriceWithinHonestRange ==
    [][\A n \in Honest, cp \in CurrencyPair :
          LET old == store[n].currencyPairs[cp]
              new == store'[n].currencyPairs[cp]
              says == {last.reported[m][cp] : m \in Honest} \ {NoPrice}
          IN  (/\ old # NoPair /\ new # NoPair
               /\ new.id = old.id /\ new.nonce # old.nonce) =>
                  \E low, high \in says : low <= new.price /\ new.price <= high]_vars
=============================================================================

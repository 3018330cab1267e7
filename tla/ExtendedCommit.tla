--------------------------- MODULE ExtendedCommit ---------------------------
(***************************************************************************)
(* The extended commit info that a proposer puts in front of its proposal, *)
(* and its validation against the commit of the previous height            *)
(* (abci/ve/utils.go).  A commit is a round and a sequence of votes; a     *)
(* vote carries the validator's address (a number: addresses are compared  *)
(* as bytes) and power, a block id flag, an extension and its signature.   *)
(***************************************************************************)
EXTENDS Integers, Sequences, FiniteSets, FiniteSetsExt

CONSTANTS
    NoExt,   \* the empty extension
    NoSig    \* the empty signature

Flags == {"Commit", "Nil", "Absent"}

\* What a validator signs, and CometBFT's check of it: a signature is the
\* signer together with the signed fields.
Sign(addr, ext, height, round) ==
    [by |-> addr, ext |-> ext, height |-> height, round |-> round]

\* Mutant: any signature will do.
VerifyNothing(vote, height, round) == vote.sig # NoSig

\* Mutant: the round is left at zero.
VerifyFirstRound(vote, height, round) == vote.sig = Sign(vote.addr, vote.ext, height, 0)

VerifySignature(vote, height, round) ==
    vote.sig = Sign(vote.addr, vote.ext, height, round)

\* The mark that pruning leaves on a vote.
IsPruned(vote) == vote.flag = "Absent" /\ vote.ext = NoExt /\ vote.sig = NoSig

Prune(vote) == [vote EXCEPT !.flag = "Absent", !.ext = NoExt, !.sig = NoSig]

\* By power, descending, then by address.
IsSorted(votes) ==
    \A i \in 1..(Len(votes) - 1) :
        \/ votes[i].power > votes[i + 1].power
        \/ /\ votes[i].power = votes[i + 1].power
           /\ votes[i].addr <= votes[i + 1].addr

ValidateExtendedCommitAgainstLastCommit(ec, lc) ==
    /\ ec.round = lc.round
    /\ Len(ec.votes) = Len(lc.votes)
    /\ IsSorted(ec.votes)
    /\ \A i, j \in DOMAIN ec.votes : ec.votes[i].addr = ec.votes[j].addr => i = j
    /\ \A i \in DOMAIN ec.votes :
          /\ ec.votes[i].addr = lc.votes[i].addr
          /\ ec.votes[i].power = lc.votes[i].power
          /\ IsPruned(ec.votes[i]) \/ ec.votes[i].flag = lc.votes[i].flag

VotingPower(votes, I) ==
    LET sum[i \in 0..Len(votes)] ==
            IF i = 0 THEN 0
            ELSE sum[i - 1] + IF i \in I THEN votes[i].power ELSE 0
    IN  sum[Len(votes)]

\* Validation with vote extensions enabled (the only way it is called).
ValidateVoteExtensions(ec, lc, height) ==
    LET votes == ec.votes
        commits == {i \in DOMAIN votes : votes[i].flag = "Commit"}
        totalVP == VotingPower(votes, DOMAIN votes)
        sumVP == VotingPower(votes, commits)
    IN  /\ ValidateExtendedCommitAgainstLastCommit(ec, lc)
        /\ \A i \in commits :
              votes[i].sig # NoSig /\ VerifySignature(votes[i], height - 1, ec.round)
        /\ \A i \in DOMAIN votes \ commits :
              votes[i].ext = NoExt /\ votes[i].sig = NoSig
        /\ totalVP > 0
        /\ sumVP >= ((totalVP * 2) \div 3) + 1
=============================================================================

---------------------------- MODULE UptimeHistory ----------------------------
(***************************************************************************)
(* What x/sla promises, without bitmaps: for every SLA, currency pair and  *)
(* validator the statuses of the last blocks, oldest first, and the        *)
(* validators that are punished for them.  A window that is being tracked  *)
(* moves by exactly what the validator did in the block, where an absence  *)
(* counts as a vote without a price; it is dropped as a whole or not at    *)
(* all; and a check punishes those, and only those, whose window does not  *)
(* keep the terms of its SLA.                                              *)
(***************************************************************************)
EXTENDS Integers, Sequences, FiniteSets

CONSTANTS
    SLAID,          \* the ids of SLAs
    CurrencyPair,
    Validator,
    NoSLA,          \* the terms of an id that has no SLA
    NoFeed,         \* the history of what is not tracked
    NotTracked,     \* the report of a pair or validator that is not tracked
    Absent          \* the report of a signer that did not vote

VARIABLES
    terms,          \* per id: the SLA
    history,        \* per feed: the statuses of the last blocks, or NoFeed
    reported,       \* per validator and pair: what it did in this block
    punished        \* the feeds that their validator is slashed for in this block

vars == <<terms, history, reported, punished>>

Key == SLAID \X CurrencyPair \X Validator

-----------------------------------------------------------------------------
(* Windows *)

Blank(W) == [i \in 1..W |-> "NoVote"]

\* The oldest status goes, s comes.
Moved(h, s) == [i \in 1..Len(h) |-> IF i = Len(h) THEN s ELSE h[i + 1]]

\* The status that a report counts as.
Counted(s) == IF s = Absent THEN "VoteWithoutPrice" ELSE s

Votes(h) == Cardinality({i \in 1..Len(h) : h[i] # "NoVote"})

PriceUpdates(h) == Cardinality({i \in 1..Len(h) : h[i] = "VoteWithPrice"})

\* Enough votes to judge, and too few of them with a price.
Fails(h, t) ==
    /\ Votes(h) >= t.minimumBlockUpdates
    /\ 100 * PriceUpdates(h) < t.expectedUptime * Votes(h)

-----------------------------------------------------------------------------

\* Nothing is tracked before the first block.
Init ==
    /\ history = [k \in Key |-> NoFeed]
    /\ punished = {}

\* A block's votes: every tracked window moves by what its validator did.
Record ==
    /\ punished' = {}
    /\ terms' = terms
    /\ \A k \in Key :
          LET s == Counted(reported'[k[3]][k[2]])
          IN  IF s = NotTracked \/ terms[k[1]] = NoSLA
              THEN history'[k] \in {history[k], NoFeed}
              ELSE \/ history[k] = NoFeed
                      /\ history'[k] = Moved(Blank(terms[k[1]].maximumViableWindow), s)
                   \/ history[k] # NoFeed /\ history'[k] = Moved(history[k], s)

\* The SLAs of a set of ids are checked.
Enforce ==
    /\ UNCHANGED terms
    /\ \A k \in Key : history'[k] \in {history[k], NoFeed}
    /\ \E checked \in SUBSET SLAID :
          punished' = {k \in Key : /\ k[1] \in checked
                                   /\ terms[k[1]] # NoSLA
                                   /\ history'[k] # NoFeed
                                   /\ Fails(history[k], terms[k[1]])}

\* SLAs are added and removed; one that is removed takes its windows along.
Govern ==
    /\ UNCHANGED punished
    /\ \A k \in Key :
          history'[k] = IF terms'[k[1]] = NoSLA THEN NoFeed ELSE history[k]

Next == Record \/ Enforce \/ Govern

Spec == Init /\ [][Next]_vars
=============================================================================

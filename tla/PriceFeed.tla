------------------------------ MODULE PriceFeed ------------------------------
(***************************************************************************)
(* A price feed of x/sla (x/sla/types/price_feed.go): whether a validator  *)
(* voted, and voted with a price, in each of the last W blocks, kept as    *)
(* two bitmaps that an index walks around.  A bitmap is the set of its     *)
(* bits; the bitset's serialisation is left out.                           *)
(***************************************************************************)
EXTENDS Integers, FiniteSets

\* UpdateStatus
Status == {"NoVote", "VoteWithPrice", "VoteWithoutPrice"}

\* A feed with a window of W blocks.
FeedOf(W) ==
    [maximumViableWindow : {W},
     index : 0..(W - 1),
     updateMap : SUBSET (0..(W - 1)),
     inclusionMap : SUBSET (0..(W - 1))]

NewPriceFeed(W) ==
    [maximumViableWindow |-> W, index |-> 0, updateMap |-> {}, inclusionMap |-> {}]

\* bitset.Set or bitset.Clear
SetTo(bits, i, on) == IF on THEN bits \cup {i} ELSE bits \ {i}

\* Mutant: a vote without a price leaves the update bit of W blocks ago.
SetUpdateKeepBit(feed, status) ==
    [feed EXCEPT
        !.inclusionMap = SetTo(@, feed.index, status # "NoVote"),
        !.updateMap = IF status = "VoteWithPrice" THEN @ \cup {feed.index} ELSE @,
        !.index = (feed.index + 1) % feed.maximumViableWindow]

\* Mutant: the index does not wrap.
SetUpdateNoWrap(feed, status) ==
    [feed EXCEPT
        !.inclusionMap = SetTo(@, feed.index, status # "NoVote"),
        !.updateMap = SetTo(@, feed.index, status = "VoteWithPrice"),
        !.index = feed.index + 1]

SetUpdate(feed, status) ==
    [maximumViableWindow |-> feed.maximumViableWindow,
     index |-> (feed.index + 1) % feed.maximumViableWindow,
     updateMap |-> SetTo(feed.updateMap, feed.index, status = "VoteWithPrice"),
     inclusionMap |-> SetTo(feed.inclusionMap, feed.index, status # "NoVote")]

\* bitset.FlipRange of the bits from lower up to but not including upper
FlipRange(bits, lower, upper) ==
    LET range == lower..(upper - 1)
    IN  (bits \ range) \cup (range \ bits)

\* The bits of the previous n blocks, for n up to the window (a larger n is
\* an error).
getBitRange(feed, n) ==
    IF n < feed.index
    THEN FlipRange({}, feed.index - n, feed.index)
    ELSE FlipRange(FlipRange({}, feed.maximumViableWindow - (n - feed.index),
                             feed.maximumViableWindow),
                   0, feed.index)

GetNumPriceUpdatesWithWindow(feed, n) == Cardinality(feed.updateMap \cap getBitRange(feed, n))

GetNumVotesWithWindow(feed, n) == Cardinality(feed.inclusionMap \cap getBitRange(feed, n))
=============================================================================

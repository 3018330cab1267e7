----------------------------- MODULE MarketMap -----------------------------
(***************************************************************************)
(* x/marketmap (x/marketmap/keeper) with the pairs that its hooks create   *)
(* in x/oracle.  Market authorities create and update markets, several in  *)
(* a message; a message that fails has no effect.  Markets are never       *)
(* removed.  With x/marketmap in use, x/oracle refuses its own messages.   *)
(***************************************************************************)
EXTENDS Markets, Sequences

CONSTANTS
    Msgs,           \* the markets of a message: functions from tickers
    Account,        \* the accounts that sign messages
    Authorities,    \* the lists of market authorities that governance may set
    Geneses,        \* the market maps a chain may start with
    GenesisUpdated, \* the lastUpdated it may start with: InitGenesis takes any
    MaxHeight       \* bound: last height

ASSUME MarketMapAssumption ==
    /\ \A msg \in Msgs : DOMAIN msg \subseteq Ticker /\ \A t \in DOMAIN msg : msg[t] \in Market
    /\ Geneses \subseteq Maps
    /\ GenesisUpdated \subseteq Nat
    /\ Authorities \subseteq Seq(Account)
    /\ MaxHeight \in Nat \ {0}

VARIABLES
    height,
    markets,        \* per ticker: the market or NoMarket
    lastUpdated,    \* the height of the last message that changed a market, or
                    \* what the genesis says
    authorities,    \* params.MarketAuthorities
    pairs,          \* the currency pairs in x/oracle
    committed       \* what queries see: markets and lastUpdated of the last block

chain == <<height, markets, lastUpdated, authorities, pairs, committed>>

-----------------------------------------------------------------------------
(* Validation *)

\* Mutant: a market with one provider that can be normalized is accepted.
ValidateOne(m, msg) ==
    \A t \in DOMAIN msg :
        NormalizeBy(msg[t]) = {} \/ \E n \in NormalizeBy(msg[t]) : m[n] # NoMarket

\* Keeper.ValidateState: IsMarketValid of the markets of a message, with all of
\* them in state.
ValidateState(m, msg) ==
    \A t \in DOMAIN msg : \A n \in NormalizeBy(msg[t]) : m[n] # NoMarket

-----------------------------------------------------------------------------
(* Genesis.  The modules that use the market map come first, and           *)
(* AfterMarketGenesis wants their pairs.                                   *)

ChainInit ==
    /\ height = 1
    /\ markets \in {m \in Geneses : ValidateBasic(m)}
    /\ lastUpdated \in GenesisUpdated
    /\ authorities \in Authorities
    /\ pairs = {t \in Ticker : markets[t] # NoMarket}
    /\ committed = [markets |-> markets, lastUpdated |-> lastUpdated]

-----------------------------------------------------------------------------
(* Messages.  Those that fail change nothing and are left out.             *)

checkMarketAuthority(a) == \E i \in DOMAIN authorities : authorities[i] = a

With(m, msg) == [t \in Ticker |-> IF t \in DOMAIN msg THEN msg[t] ELSE m[t]]

\* CreateMarket refuses a market that exists, and the hook AfterMarketCreated a
\* pair that does.  A message that has a ticker twice therefore fails.
CreateMarkets(a, msg) ==
    /\ checkMarketAuthority(a)
    /\ \A t \in DOMAIN msg : markets[t] = NoMarket /\ t \notin pairs
    /\ markets' = With(markets, msg)
    /\ pairs' = pairs \cup DOMAIN msg
    /\ ValidateState(markets', msg)
    /\ lastUpdated' = height
    /\ UNCHANGED <<height, authorities, committed>>

\* Mutant: the height of the update is not recorded.
UpdateMarketsSilently(a, msg) ==
    /\ checkMarketAuthority(a)
    /\ \A t \in DOMAIN msg : markets[t] # NoMarket
    /\ markets' = With(markets, msg)
    /\ ValidateState(markets', msg)
    /\ UNCHANGED <<height, lastUpdated, authorities, pairs, committed>>

\* Mutant: the height is off by one.
UpdateMarketsLater(a, msg) ==
    /\ checkMarketAuthority(a)
    /\ \A t \in DOMAIN msg : markets[t] # NoMarket
    /\ markets' = With(markets, msg)
    /\ ValidateState(markets', msg)
    /\ lastUpdated' = height + 1
    /\ UNCHANGED <<height, authorities, pairs, committed>>

\* The hook AfterMarketUpdated does nothing in x/oracle.
UpdateMarkets(a, msg) ==
    /\ checkMarketAuthority(a)
    /\ \A t \in DOMAIN msg : markets[t] # NoMarket
    /\ markets' = With(markets, msg)
    /\ ValidateState(markets', msg)
    /\ lastUpdated' = height
    /\ UNCHANGED <<height, authorities, pairs, committed>>

\* The module's authority sets the parameters.
UpdateParams ==
    /\ authorities' \in Authorities
    /\ UNCHANGED <<height, markets, lastUpdated, pairs, committed>>

\* The list l without its element at i, as slices.Delete leaves the array.
DeleteAt(l, i) == SubSeq(l, 1, i - 1) \o SubSeq(l, i + 1, Len(l))

\* RemoveMarketAuthorities deletes from the list while it ranges over it: when
\* the element at i is deleted the next one moves to i, and is not looked at.
AfterRemoval(l, remove) ==
    LET at[i \in 0..Len(l)] ==
            IF i = 0 THEN l
            ELSE IF i <= Len(at[i - 1]) /\ at[i - 1][i] \in remove
                 THEN DeleteAt(at[i - 1], i)
                 ELSE at[i - 1]
    IN  at[Len(l)]

\* The module's admin removes market authorities.
RemoveMarketAuthorities(remove) ==
    /\ Cardinality(remove) <= Len(authorities)
    /\ authorities' = AfterRemoval(authorities, remove)
    /\ UNCHANGED <<height, markets, lastUpdated, pairs, committed>>

Commit ==
    /\ height < MaxHeight
    /\ height' = height + 1
    /\ committed' = [markets |-> markets, lastUpdated |-> lastUpdated]
    /\ UNCHANGED <<markets, lastUpdated, authorities, pairs>>

ChainNext ==
    \/ \E a \in Account, msg \in Msgs : CreateMarkets(a, msg) \/ UpdateMarkets(a, msg)
    \/ UpdateParams
    \/ \E remove \in SUBSET Account \ {{}} : RemoveMarketAuthorities(remove)
    \/ Commit

ChainSpec == ChainInit /\ [][ChainNext]_chain
-----------------------------------------------------------------------------
(* Properties *)

\* Every pair that some market is normalized by has a market, over the whole
\* map and any sequence of messages, although a message only validates its own
\* markets (ValidateState).
NormalizationExists ==
    \A t \in Ticker : markets[t] # NoMarket =>
        \A n \in NormalizeBy(markets[t]) : markets[n] # NoMarket

\* The markets and the pairs of x/oracle are the same set: no market is without
\* a pair to write its price to, and AfterMarketGenesis accepts an export.
MarketsHavePairs == pairs = {t \in Ticker : markets[t] # NoMarket}

\* A reader who polls the market map and compares lastUpdated (the query
\* MarketMap returns it for this) misses no change.  There is one exception: what
\* it holds is the lastUpdated of a genesis that was not of an earlier block,
\* which InitGenesis does not look at.
LastUpdatedTells ==
    [][committed'.markets # committed.markets =>
          \/ committed'.lastUpdated > committed.lastUpdated
          \/ committed.lastUpdated \in GenesisUpdated /\ committed.lastUpdated >= height]_chain
=============================================================================

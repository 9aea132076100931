----------------------------- MODULE MCServices -----------------------------
(***************************************************************************)
(* The smaller services for TLC, which share no state: the cron job of     *)
(* sui-master that reaps (MasterCron) and the one that compresses          *)
(* (Compression), the CLI (Compression, SyncTrades), the prices of         *)
(* sui-ingest/swap (PriceHistory), and sui-price-feed (PriceFeed).  part   *)
(* tells which of them a behaviour is about.  So are the queries of        *)
(* sui-api: GET /tokens over the prices (TokensApi), and what an account   *)
(* is told (AccountApi).                                                   *)
(***************************************************************************)
EXTENDS MasterCron, SyncTrades, Compression, PriceHistory, PriceFeed,
  TokensApi, AccountApi, TLC

CONSTANTS r1, r2, coinU, coinV

VARIABLE part

-----------------------------------------------------------------------------
(***************************************************************************)
(* Values.                                                                 *)
(***************************************************************************)
\* A file, and a prefix with more objects than one listing has.
SomeSources ==
  {[from |-> "local", files |-> <<ls>>] : ls \in
     {<<"good", "good", "good", "good">>, <<"good", "good", "long", "good">>,
      <<"good", "broken", "good">>, <<"short", "good">>}}
  \cup {[from |-> "s3", files |-> fs] : fs \in
     {<<<<"good", "long", "good">>, <<"good", "good">>, <<"good">>>>,
      <<<<"good", "good">>, <<"good", "short", "good">>, <<"good">>>>,
      <<<<"broken">>, <<"good">>>>}}

Event(time, block, x, y) == [time |-> time, block |-> block, from |-> x, to |-> y]

\* Days of six minutes.  Calls that follow each other within the cache's time
\* and not, one that spans more than twenty days, and one of long ago.  Tokens
\* coinU and coinV are not listed.
SomeCalls ==
  {{Event(140, 5, "SUI", coinU), Event(141, 6, coinU, coinV)},
   {Event(141, 6, coinV, "SUI"), Event(142, 7, coinU, coinV)},
   {Event(12, 1, "SUI", coinU), Event(140, 5, coinV, coinU)},
   {Event(147, 8, coinU, "SUI"), Event(145, 7, coinV, coinU)},
   {Event(21, 2, coinU, "SUI")}}

SomeModes ==
  {[loops |-> {"live"}, state |-> ""],
   [loops |-> {"backfill"}, state |-> "backfill"],
   [loops |-> {"live", "backfill"}, state |-> ""]}

\* Three blocks, a trade that put in nothing, one that got nothing, and
\* trades of a token without metadata.
Traded(block, x, y, in, out) == [block |-> block, from |-> x, to |-> y, in |-> in, out |-> out]

SomeSwaps ==
  <<Traded(0, "SUI", coinU, 1, 1), Traded(1, coinU, coinV, 1, 1), Traded(2, "SUI", coinV, 0, 1),
    Traded(2, coinV, "SUI", 1, 0)>>

Caps == coinU :> 1 @@ coinV :> 2

\* Two trades of the same time, and one before and one after them.
TradeTimes == 1 :> 5 @@ 2 :> 6 @@ 3 :> 6 @@ 4 :> 7

CoinTypes == 1 :> "SUI" @@ 2 :> coinU @@ 3 :> "SUI" @@ 4 :> coinU

\* The reaper treats rows alike.
Rows == Permutations(Row)

-----------------------------------------------------------------------------
Parts == {"cron", "sync", "compress", "price", "feed", "tokens", "account"}

\* The parts that do not move begin with one of their initial states.
MCInit ==
  /\ part \in Parts
  /\ Init /\ (part # "cron" => wait = Period)
  /\ SyncInit /\ (part # "sync" => source = CHOOSE s \in Sources : TRUE)
  /\ CompressInit
  /\ PriceInit /\ (part # "price" => mode = CHOOSE m \in Modes : TRUE)
  /\ FeedInit
  /\ TokensInit
  /\ AccountInit /\ (part # "account" => nfts.stage = "objects" /\ account.nft = "wallet"
                                          /\ nfts.page = 1 /\ nfts.image)

\* The list of the tokens is asked for when there is a whole epoch to look back on,
\* and it is the first run that may fail.
MCNext ==
  \/ /\ part = "cron" /\ Next
     /\ UNCHANGED <<syncVars, compressVars, priceVars, feedVars, tokensVars, accountVars>>
  \/ /\ part = "sync" /\ SyncNext
     /\ UNCHANGED <<vars, compressVars, priceVars, feedVars, tokensVars, accountVars>>
  \/ /\ part = "compress" /\ CompressNext
     /\ UNCHANGED <<vars, syncVars, priceVars, feedVars, tokensVars, accountVars>>
  \/ /\ part = "price" /\ PriceNext
     /\ UNCHANGED <<vars, syncVars, compressVars, feedVars, tokensVars, accountVars>>
  \/ /\ part = "feed" /\ FeedNext
     /\ UNCHANGED <<vars, syncVars, compressVars, priceVars, tokensVars, accountVars>>
  \/ /\ part = "tokens" /\ TokensNext
     /\ listings' = listings \/ minute >= Epoch
     /\ unpriced' = unpriced \/ minute < Epoch
     /\ UNCHANGED <<vars, syncVars, compressVars, priceVars, feedVars, accountVars>>
  \/ /\ part = "account" /\ AccountNext
     /\ UNCHANGED <<vars, syncVars, compressVars, priceVars, feedVars, tokensVars>>

mcVars == <<part, vars, syncVars, compressVars, priceVars, feedVars, tokensVars, accountVars>>

MCSpec == MCInit /\ [][MCNext /\ part' = part]_mcVars

\* Type correctness of all parts.
ServicesTypeOK ==
  TypeOK /\ SyncTypeOK /\ CompressTypeOK /\ PriceTypeOK /\ FeedTypeOK /\ TokensTypeOK
    /\ AccountTypeOK

=============================================================================

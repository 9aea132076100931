------------------------------ MODULE AccountApi ----------------------------
(***************************************************************************)
(* sui-api: what an account is told, GET /trades (src/api/trades.ts), GET  *)
(* /holding/tokens and GET /holding/nfts (src/api/holding.ts), while the   *)
(* table of trades and the account go on changing.                         *)
(***************************************************************************)
EXTENDS Integers, Sequences, FiniteSets

CONSTANTS
  TradeTime,   \* the trades of the account, with their timestamps
  TradeLimit,  \* rows of a page of trades, 50
  CoinType,    \* coin objects, by the order of the node's cursor, with their types
  CoinLimit,   \* coins of a page, 10
  Misspelt,    \* types that the node spells otherwise than the table of tokens does
  MaxChanges   \* bound: how often the account changes

ASSUME AccountAssumption ==
  /\ TradeTime \in [DOMAIN TradeTime -> Nat] /\ IsFiniteSet(DOMAIN TradeTime)
  /\ DOMAIN CoinType \subseteq Nat \ {0} /\ IsFiniteSet(DOMAIN CoinType)
  /\ {TradeLimit, CoinLimit} \subseteq Nat \ {0}
  /\ MaxChanges \in Nat

VARIABLES
  account,  \* the tables of trades and tokens, the coins, and where the NFT is
  paging,   \* a client that reads the trades page by page
  coins,    \* a request for the coins
  nfts,     \* a request for the NFTs
  changes   \* how often the account has changed

accountVars == <<account, paging, coins, nfts, changes>>

-----------------------------------------------------------------------------
Change == changes < MaxChanges /\ changes' = changes + 1

\* sui-ingest/swap saves a trade: the latest, or an older one.
TradeSaved(t) ==
  /\ t \in DOMAIN TradeTime \ account.trades
  /\ Change
  /\ account' = [account EXCEPT !.trades = @ \cup {t}]
  /\ UNCHANGED <<paging, coins, nfts>>

\* A token becomes known to the table.
TokenSaved(type) ==
  /\ type \notin account.tokens
  /\ Change
  /\ account' = [account EXCEPT !.tokens = @ \cup {type}]
  /\ UNCHANGED <<paging, coins, nfts>>

\* A coin object is spent, or another one received.
CoinMoves(c) ==
  /\ Change
  /\ account' = [account EXCEPT !.coins =
                   IF c \in account.coins THEN account.coins \ {c} ELSE account.coins \cup {c}]
  /\ coins' = [coins EXCEPT !.moved = @ \cup {c}]
  /\ UNCHANGED <<paging, nfts>>

\* The NFT is put into the owner's kiosk, or taken out of it.
NftMoves ==
  /\ Change
  /\ account' = [account EXCEPT !.nft = IF @ = "kiosk" THEN "wallet" ELSE "kiosk"]
  /\ nfts' = [nfts EXCEPT !.moved = TRUE]
  /\ UNCHANGED <<paging, coins>>

-----------------------------------------------------------------------------
(***************************************************************************)
(* GET /trades.                                                            *)
(***************************************************************************)
\* ORDER BY timestamp DESC says nothing of trades of the same time: each query may
\* have them in another order.
LatestFirst(trades) ==
  {l \in [1 .. Cardinality(trades) -> trades] :
     \A i, j \in DOMAIN l : i < j => l[i] # l[j] /\ TradeTime[l[i]] >= TradeTime[l[j]]}

\* Variant: skip is one too many.
TradePageSkipped(l, offset) ==
  SubSeq(l, offset + 2, IF offset + 1 + TradeLimit < Len(l) THEN offset + 1 + TradeLimit ELSE Len(l))

\* skip and take
TradePage(l, offset) ==
  SubSeq(l, offset + 1, IF offset + TradeLimit < Len(l) THEN offset + TradeLimit ELSE Len(l))

\* The client asks for the next page until one is not full.
GetTrades ==
  /\ paging.stage = "paging"
  /\ \E l \in LatestFirst({t \in account.trades : TradeTime[t] >= paging.since}) :
       LET page == TradePage(l, paging.offset) IN
       paging' = [paging EXCEPT
         !.got = @ \cup {page[i] : i \in DOMAIN page},
         !.offset = @ + Len(page),
         !.stage = IF Len(page) < TradeLimit THEN "end" ELSE "paging"]
  /\ UNCHANGED <<account, coins, nfts, changes>>

-----------------------------------------------------------------------------
(***************************************************************************)
(* getTokenHolding.                                                        *)
(***************************************************************************)
After(cursor) == {c \in account.coins : c > cursor}

\* The node's page: the first coins after the cursor.
CoinPage(cursor) ==
  {c \in After(cursor) : Cardinality({d \in After(cursor) : d < c}) < CoinLimit}

\* findUnique by the type as the node spells it: a coin that is not found is "N/A",
\* without decimals.
Found(c) == CoinType[c] \in account.tokens \ Misspelt

CoinsListed(page) ==
  [coins EXCEPT !.times = [c \in DOMAIN CoinType |-> IF c \in page THEN @[c] + 1 ELSE @[c]],
                !.named = @ \cup {c \in page : Found(c)}]

\* Variant: the next page starts after the first coin of this one.
GetAllCoinsAgain ==
  /\ coins.stage = "reading"
  /\ LET page == CoinPage(coins.cursor) IN
     coins' = [CoinsListed(page) EXCEPT
       !.cursor = IF page = {} THEN @ ELSE CHOOSE c \in page : \A d \in page : c <= d,
       !.stage = IF page = After(coins.cursor) THEN "end" ELSE "reading"]
  /\ UNCHANGED <<account, paging, nfts, changes>>

\* One turn of the loop: it ends with an empty page or without a next one.
GetAllCoins ==
  /\ coins.stage = "reading"
  /\ LET page == CoinPage(coins.cursor) IN
     coins' = [CoinsListed(page) EXCEPT
       !.cursor = IF page = {} THEN @ ELSE CHOOSE c \in page : \A d \in page : d <= c,
       !.stage = IF page = After(coins.cursor) THEN "end" ELSE "reading"]
  /\ UNCHANGED <<account, paging, nfts, changes>>

-----------------------------------------------------------------------------
(***************************************************************************)
(* getHoldingNFT: the kiosks, the objects, and then what is in the kiosks. *)
(* Only the first page of the objects is read.                             *)
(***************************************************************************)
GetOwnedObjects ==
  /\ nfts.stage = "objects"
  /\ nfts' = [nfts EXCEPT !.stage = "kiosks",
       !.shown = IF account.nft = "wallet" /\ nfts.page = 1 /\ nfts.image THEN @ + 1 ELSE @]
  /\ UNCHANGED <<account, paging, coins, changes>>

\* Objects without an image are left out only if they are not in a kiosk.
GetKiosk ==
  /\ nfts.stage = "kiosks"
  /\ nfts' = [nfts EXCEPT !.stage = "end",
       !.shown = IF account.nft = "kiosk" THEN @ + 1 ELSE @]
  /\ UNCHANGED <<account, paging, coins, changes>>

-----------------------------------------------------------------------------
Types == {CoinType[c] : c \in DOMAIN CoinType}

\* One of the three is asked for.
AccountInit ==
  /\ \E asked \in {"trades", "coins", "nfts"}, trades \in SUBSET DOMAIN TradeTime,
        tokens \in SUBSET Types, owned \in SUBSET DOMAIN CoinType :
       /\ asked # "trades" => trades = {}
       /\ asked # "coins" => tokens = {} /\ owned = {}
       /\ account \in [trades : {trades}, tokens : {tokens}, coins : {owned},
                       nft : IF asked = "nfts" THEN {"wallet", "kiosk"} ELSE {"wallet"}]
       /\ paging \in [stage : {IF asked = "trades" THEN "paging" ELSE "end"},
                      since : IF asked = "trades" THEN {0} \cup {TradeTime[t] : t \in trades} ELSE {0},
                      offset : {0}, got : {{}}, first : {trades}]
       /\ coins = [stage |-> IF asked = "coins" THEN "reading" ELSE "end", cursor |-> 0,
                   first |-> owned, known |-> tokens, moved |-> {}, named |-> {},
                   times |-> [c \in DOMAIN CoinType |-> 0]]
       /\ nfts \in [stage : {IF asked = "nfts" THEN "objects" ELSE "end"}, page : {1, 2},
                    image : BOOLEAN, moved : {asked # "nfts"}, shown : {0}]
  /\ changes = 0

\* The account changes in what the request is about.
AccountNext ==
  \/ GetTrades \/ GetAllCoins \/ GetOwnedObjects \/ GetKiosk
  \/ nfts.stage # "end" /\ NftMoves
  \/ paging.stage # "end" /\ \E t \in DOMAIN TradeTime : TradeSaved(t)
  \/ coins.stage # "end" /\ (\/ \E c \in DOMAIN CoinType : CoinMoves(c)
                             \/ \E type \in Types : TokenSaved(type))

AccountSpec == AccountInit /\ [][AccountNext]_accountVars

-----------------------------------------------------------------------------
(***************************************************************************)
(* Properties.                                                             *)
(***************************************************************************)
AccountTypeOK ==
  /\ account \in [trades : SUBSET DOMAIN TradeTime, tokens : SUBSET Types,
                   coins : SUBSET DOMAIN CoinType, nft : {"wallet", "kiosk"}]
  /\ paging.stage \in {"paging", "end"} /\ paging.offset \in Nat
  /\ paging.got \cup paging.first \subseteq account.trades
  /\ coins.stage \in {"reading", "end"} /\ coins.cursor \in {0} \cup DOMAIN CoinType
  /\ coins.times \in [DOMAIN CoinType -> Nat] /\ coins.named \subseteq DOMAIN CoinType
  /\ nfts.stage \in {"objects", "kiosks", "end"} /\ nfts.shown \in 0 .. 2
  /\ changes \in 0 .. MaxChanges

(***************************************************************************)
(* A client that pages through the trades gets every trade that was there  *)
(* when it began and is recent enough, whatever is saved in the meantime:  *)
(* what is saved pushes a trade to later pages, never to an earlier one.   *)
(* The exception are trades of the same time (the events of a checkpoint   *)
(* have the same), whose order each page of trades.ts:157 is free to       *)
(* choose.                                                                 *)
(***************************************************************************)
Tied(t) == \E u \in account.trades \ {t} : TradeTime[u] = TradeTime[t]

TradesPaged ==
  paging.stage = "end" =>
    \A t \in paging.first :
      TradeTime[t] >= paging.since => t \in paging.got \/ Tied(t)

(***************************************************************************)
(* A coin that the owner has all the time is listed once, however others   *)
(* come and go between the pages, and with its name if its token was known *)
(* and is spelt as the node spells it.  An NFT that stays where it is is   *)
(* shown once, but for an object outside the kiosks that has no image or   *)
(* is not on the first page (holding.ts:310: "TODO: Support query          *)
(* paginatated").                                                          *)
(***************************************************************************)
NftExpected == IF account.nft = "kiosk" \/ (nfts.page = 1 /\ nfts.image) THEN 1 ELSE 0

HoldingsShown ==
  /\ coins.stage = "end" =>
       \A c \in coins.first \ coins.moved :
         /\ coins.times[c] = 1
         /\ CoinType[c] \in coins.known \ Misspelt => c \in coins.named
  /\ nfts.stage = "end" => nfts.moved \/ nfts.shown = NftExpected

=============================================================================

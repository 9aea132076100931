---------------------------- MODULE DefiAdapters ----------------------------
(***************************************************************************)
(* sui-ingest/defi/src/protocols: from the events of lending, staking and  *)
(* liquidity to rows of the tables defi_*.                                 *)
(*                                                                         *)
(* An event has a kind, its type, and names up to two coins, x and y; a    *)
(* coin that a handler names by a constant is written here as the x or y   *)
(* of the event.  events is the sequence of events on the topic, n the     *)
(* place of one.  priced is what price_feeds had to say within the last    *)
(* six hours when the handler asked: for the coins with a price, the       *)
(* decimals stored next to it.  decimals is what getPool says of the coins *)
(* of a pool.  Neither needs to be right: see TokenPoolCache.              *)
(*                                                                         *)
(* Coins in parsed events lack the "0x" that they are stored with.  Most   *)
(* handlers add it; a price asked for without it is never found.           *)
(***************************************************************************)
EXTENDS Integers, Sequences

CONSTANTS
  Coin,          \* the coins
  CoinDecimals   \* their decimals

ASSUME CoinAssumption == CoinDecimals \in [Coin -> Nat] /\ "none" \notin Coin

Kind ==
  {"AmAdd", "AmRemove", "AmStake", "AmUnstake", "AmReward", "BmAdd", "BmRemove",
   "CeOpen", "CeAdd", "CeRemove", "CeFee", "CeClose", "CeMint", "CeRedeem",
   "CeStakeLP", "CeUnstakeLP", "CeReward", "FxAdd", "FxRemove",
   "KrAdd", "KrRemove", "KrStake", "KrUnstake", "KrClaim",
   "NaMint", "NaWithdraw", "NaBorrow", "NaRepay",
   "ScStake", "ScUnstake", "ScMint", "ScRedeem", "ScCollateral", "ScWithdraw",
   "ScBorrow", "ScRepay", "ScReward", "ScIncentive", "ScVeStake",
   "StStake", "StUnstake", "SsAdded", "SsRemoved",
   "TuMint", "TuBurn", "TuCollect0", "TuCollect1"}

DefiEvent == [tx : Nat, block : Nat, kind : Kind, x : Coin, y : Coin]

-----------------------------------------------------------------------------
(***************************************************************************)
(* Rows.  An entry of a row is a coin, the amount filed under it, the      *)
(* decimals the amount was divided by and whether there is a price next to *)
(* it.  An amount is named by the event and the field it was read from.    *)
(***************************************************************************)
NoAmount == <<0, "none">>

Entry(coin, amount, scale, hasPrice) ==
  [coin |-> coin, amount |-> amount, scale |-> scale, price |-> hasPrice]

HasPrice(c, priced) == c \in DOMAIN priced

OrNine(d) == IF d = 0 THEN 9 ELSE d

\* getNimbusDBPrice: 18 without a price, and "price.decimals || 9".
PriceDecimals(c, priced) == IF HasPrice(c, priced) THEN OrNine(priced[c]) ELSE 18

ByPrice(c, amount, priced) ==
  Entry(c, amount, PriceDecimals(c, priced), HasPrice(c, priced))

\* A price that is asked for without "0x".
ByNoPrice(c, amount) == Entry(c, amount, 18, FALSE)

\* The decimals of the pool, and the value of the price.
ByPool(c, amount, priced, decimals) == Entry(c, amount, decimals[c], HasPrice(c, priced))

\* "valueConvert(..., 9)"
ByNine(c, amount, hasPrice) == Entry(c, amount, 9, hasPrice)

Row(action, input, output) == [action |-> action, input |-> input, output |-> output]

\* The tables of liquidity have two tokens and no sides: the action tells.
Liquidity(action, a, b) ==
  IF action \in {"Add", "Mint"} THEN Row(action, {a, b}, {}) ELSE Row(action, {}, {a, b})

X(n) == <<n, "x">>
Y(n) == <<n, "y">>

\* Both tokens with the decimals of their pool, or of their prices.
PoolLiquidity(action, e, n, priced, decimals) ==
  {Liquidity(action, ByPool(e.x, X(n), priced, decimals), ByPool(e.y, Y(n), priced, decimals))}

PriceLiquidity(action, e, n, priced) ==
  {Liquidity(action, ByPrice(e.x, X(n), priced), ByPrice(e.y, Y(n), priced))}

Unvalued(action, e) ==
  {Liquidity(action, Entry(e.x, NoAmount, 0, FALSE), Entry(e.y, NoAmount, 0, FALSE))}

Gives(action, entry) == {Row(action, {entry}, {})}
Gets(action, entry)  == {Row(action, {}, {entry})}

-----------------------------------------------------------------------------
(***************************************************************************)
(* The handlers: what each saves for its event e, the n-th.                *)
(***************************************************************************)
\* aftermath
AmAdd(e, n, priced)    == PriceLiquidity("Add", e, n, priced)
AmRemove(e, n, priced) == PriceLiquidity("Remove", e, n, priced)
AmStake(e, n)   == Gives("Stake", ByNine(e.x, X(n), FALSE))
AmUnstake(e, n) == Gives("Unstake", ByNine(e.x, X(n), FALSE))

\* Two rewards: the coin is the output, the amount stands at the input.
AmReward(e, n, priced) ==
  {Row("Reward", {[r EXCEPT !.coin = "none"]}, {Entry(r.coin, NoAmount, 0, FALSE)}) :
     r \in {ByPrice(e.x, X(n), priced), ByPrice(e.y, Y(n), priced)}}

\* blueMove
BmAdd(e, n)    == {Liquidity("Add", ByNoPrice(e.x, X(n)), ByNoPrice(e.y, Y(n)))}
BmRemove(e, n) == {Liquidity("Remove", ByNoPrice(e.x, X(n)), ByNoPrice(e.y, Y(n)))}

\* cetus
CeOpen(e)              == Unvalued("Mint", e)
CeAdd(e, n, priced, decimals)    == PoolLiquidity("Add", e, n, priced, decimals)
CeRemove(e, n, priced, decimals) == PoolLiquidity("Remove", e, n, priced, decimals)
CeFee(e, n, priced, decimals)    == PoolLiquidity("Fee", e, n, priced, decimals)
CeClose(e)             == Unvalued("Close", e)
CeMint(e, n, priced) ==
  {Row("Stake", {Entry(e.x, NoAmount, 0, HasPrice(e.x, priced))}, {ByNine(e.y, Y(n), FALSE)})}
CeRedeem(e, n, priced) ==
  {Row("Unstake", {ByNine(e.x, X(n), FALSE)}, {ByNine(e.y, Y(n), HasPrice(e.y, priced))})}
CeStakeLP(e, n)        == Gives("Stake", ByNine(e.x, X(n), FALSE))
CeUnstakeLP(e, n)      == Gives("Unstake", ByNine(e.x, X(n), FALSE))
CeReward(e, n)         == Gets("Reward", ByNoPrice(e.x, X(n)))

\* flowX
FxAdd(e, n, priced, decimals)    == PoolLiquidity("Add", e, n, priced, decimals)
FxRemove(e, n, priced, decimals) == PoolLiquidity("Remove", e, n, priced, decimals)

\* kriya
KrAdd(e, n, priced, decimals)    == PoolLiquidity("Add", e, n, priced, decimals)
KrRemove(e, n, priced, decimals) == PoolLiquidity("Remove", e, n, priced, decimals)
KrStake(e)   == Gives("Stake", Entry(e.x, NoAmount, 0, FALSE))
KrUnstake(e) == Gives("Unstake", Entry(e.x, NoAmount, 0, FALSE))
KrClaim(e)   == Gives("Reward", Entry(e.x, NoAmount, 0, FALSE))

\* navi asks for the transaction and takes the coin of its first PoolDeposit
\* or PoolWithdraw.
Deposits  == {"NaMint", "NaRepay"}
Withdraws == {"NaWithdraw", "NaBorrow"}

\* Variant: the last event of its kind is taken.
PoolCoinLast(events, n, kinds) ==
  LET found == {m \in DOMAIN events : events[m].tx = events[n].tx /\ events[m].kind \in kinds}
  IN events[CHOOSE m \in found : \A k \in found : k <= m].x

PoolCoin(events, n, kinds) ==
  LET found == {m \in DOMAIN events : events[m].tx = events[n].tx /\ events[m].kind \in kinds}
  IN events[CHOOSE m \in found : \A k \in found : m <= k].x

NaMint(events, n, priced) ==
  Gives("Add", ByPrice(PoolCoin(events, n, Deposits), X(n), priced))
NaWithdraw(events, n, priced) ==
  Gets("Remove", ByPrice(PoolCoin(events, n, Withdraws), X(n), priced))
NaBorrow(events, n, priced) ==
  Gets("Borrow", ByPrice(PoolCoin(events, n, Withdraws), X(n), priced))
NaRepay(events, n, priced) ==
  Gives("Repay", ByPrice(PoolCoin(events, n, Deposits), X(n), priced))

\* scallop
ScStake(e, n)   == Gives("Add", ByNine(e.x, X(n), FALSE))
ScUnstake(e, n) == Gets("Remove", ByNine(e.x, X(n), FALSE))

\* Variant: the sCoin gets its own price, too.
ScMintPriced(e, n, priced) ==
  {Row("Add", {ByPrice(e.x, X(n), priced)},
       {Entry(e.y, Y(n), PriceDecimals(e.x, priced), HasPrice(e.y, priced))})}

ScMint(e, n, priced) ==
  {Row("Add", {ByPrice(e.x, X(n), priced)},
       {Entry(e.y, Y(n), PriceDecimals(e.x, priced), FALSE)})}
ScRedeem(e, n, priced) ==
  {Row("Remove", {Entry(e.x, X(n), PriceDecimals(e.y, priced), FALSE)},
       {ByPrice(e.y, Y(n), priced)})}
ScCollateral(e, n, priced) == Gives("Collateral", ByPrice(e.x, X(n), priced))
ScWithdraw(e, n, priced)   == Gets("CollateralWithdrawl", ByPrice(e.x, X(n), priced))

\* valueConvert is given the type of the coin, and BigInt throws.
ScBorrow == {}

ScRepay(e, n, priced)     == Gives("Repay", ByPrice(e.x, X(n), priced))
ScReward(e, n, priced)    == Gets("Reward", ByPrice(e.x, X(n), priced))
ScIncentive(e, n, priced) == Gets("Reward", ByPrice(e.x, X(n), priced))
ScVeStake(e, n, priced)   == Gives("VeStake", ByPrice(e.x, X(n), priced))

\* stake
StStake(e, n, priced)   == Gives("Add", ByPrice(e.x, X(n), priced))
StUnstake(e, n, priced) == Gets("Remove", ByPrice(e.x, X(n), priced))

\* suiSwap has one event, with is_added.
SsLiquidity(e, n, priced, decimals) ==
  PoolLiquidity(IF e.kind = "SsAdded" THEN "Add" ELSE "Remove", e, n, priced, decimals)

\* turbosFinance
TuMint(e, n, priced, decimals) == PoolLiquidity("Mint", e, n, priced, decimals)

TuBurn(e, n, priced, decimals) == PoolLiquidity("Remove", e, n, priced, decimals)

\* reward_index 0 is taken for token a, any other for token b.
TuCollect(e, n, priced, decimals) ==
  {Liquidity("Fee",
     ByPool(e.x, IF e.kind = "TuCollect0" THEN X(n) ELSE NoAmount, priced, decimals),
     ByPool(e.y, IF e.kind = "TuCollect0" THEN NoAmount ELSE Y(n), priced, decimals))}

-----------------------------------------------------------------------------
\* The topics of the handlers are distinct, and each event here has one.
Process(events, n, priced, decimals) ==
  LET e == events[n] IN
  CASE e.kind = "AmAdd"        -> AmAdd(e, n, priced)
    [] e.kind = "AmRemove"     -> AmRemove(e, n, priced)
    [] e.kind = "AmStake"      -> AmStake(e, n)
    [] e.kind = "AmUnstake"    -> AmUnstake(e, n)
    [] e.kind = "AmReward"     -> AmReward(e, n, priced)
    [] e.kind = "BmAdd"        -> BmAdd(e, n)
    [] e.kind = "BmRemove"     -> BmRemove(e, n)
    [] e.kind = "CeOpen"       -> CeOpen(e)
    [] e.kind = "CeAdd"        -> CeAdd(e, n, priced, decimals)
    [] e.kind = "CeRemove"     -> CeRemove(e, n, priced, decimals)
    [] e.kind = "CeFee"        -> CeFee(e, n, priced, decimals)
    [] e.kind = "CeClose"      -> CeClose(e)
    [] e.kind = "CeMint"       -> CeMint(e, n, priced)
    [] e.kind = "CeRedeem"     -> CeRedeem(e, n, priced)
    [] e.kind = "CeStakeLP"    -> CeStakeLP(e, n)
    [] e.kind = "CeUnstakeLP"  -> CeUnstakeLP(e, n)
    [] e.kind = "CeReward"     -> CeReward(e, n)
    [] e.kind = "FxAdd"        -> FxAdd(e, n, priced, decimals)
    [] e.kind = "FxRemove"     -> FxRemove(e, n, priced, decimals)
    [] e.kind = "KrAdd"        -> KrAdd(e, n, priced, decimals)
    [] e.kind = "KrRemove"     -> KrRemove(e, n, priced, decimals)
    [] e.kind = "KrStake"      -> KrStake(e)
    [] e.kind = "KrUnstake"    -> KrUnstake(e)
    [] e.kind = "KrClaim"      -> KrClaim(e)
    [] e.kind = "NaMint"       -> NaMint(events, n, priced)
    [] e.kind = "NaWithdraw"   -> NaWithdraw(events, n, priced)
    [] e.kind = "NaBorrow"     -> NaBorrow(events, n, priced)
    [] e.kind = "NaRepay"      -> NaRepay(events, n, priced)
    [] e.kind = "ScStake"      -> ScStake(e, n)
    [] e.kind = "ScUnstake"    -> ScUnstake(e, n)
    [] e.kind = "ScMint"       -> ScMint(e, n, priced)
    [] e.kind = "ScRedeem"     -> ScRedeem(e, n, priced)
    [] e.kind = "ScCollateral" -> ScCollateral(e, n, priced)
    [] e.kind = "ScWithdraw"   -> ScWithdraw(e, n, priced)
    [] e.kind = "ScBorrow"     -> ScBorrow
    [] e.kind = "ScRepay"      -> ScRepay(e, n, priced)
    [] e.kind = "ScReward"     -> ScReward(e, n, priced)
    [] e.kind = "ScIncentive"  -> ScIncentive(e, n, priced)
    [] e.kind = "ScVeStake"    -> ScVeStake(e, n, priced)
    [] e.kind = "StStake"      -> StStake(e, n, priced)
    [] e.kind = "StUnstake"    -> StUnstake(e, n, priced)
    [] e.kind = "TuMint"       -> TuMint(e, n, priced, decimals)
    [] e.kind = "TuBurn"       -> TuBurn(e, n, priced, decimals)
    [] e.kind \in {"SsAdded", "SsRemoved"}   -> SsLiquidity(e, n, priced, decimals)
    [] e.kind \in {"TuCollect0", "TuCollect1"} -> TuCollect(e, n, priced, decimals)

=============================================================================

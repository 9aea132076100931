--------------------------- MODULE PositionAdapters --------------------------
(***************************************************************************)
(* sui-ingest/defi/src/protocols, position.ts: from what an owner has to   *)
(* the positions that GET /positions/:address answers with.                *)
(*                                                                         *)
(* A holding is of a kind and has a place: it is in the owner's wallet, or *)
(* staked (farmed, locked, lent, borrowed), or gone.  A position has three *)
(* lists of entries: what was put in, what it is now, and its yield.  x    *)
(* and y are the coins of the pool, or x the coin lent or locked and y the *)
(* coin of the rewards; priced is what price_feeds has to say, as in       *)
(* DefiAdapters.                                                           *)
(*                                                                         *)
(* blueMove, flowX, suiSwap and turbosFinance have no positions: their     *)
(* index.ts resolves to [].                                                *)
(***************************************************************************)
EXTENDS DefiAdapters, FiniteSets

Place == {"wallet", "staked"}

HoldingKind ==
  {"AmPool", "CePool", "KrPool", "ScCoin", "CeVe", "ScVe", "ScDebt", "Stake", "Navi"}

\* What a position is read from: the owner's objects and the owner's balances,
\* both of getUserContext, or a call of the protocol's own.
ReadFrom(kind, place) ==
  CASE <<kind, place>> \in {<<"AmPool", "wallet">>, <<"ScCoin", "wallet">>} -> "holding"
    [] <<kind, place>> \in {<<"CePool", "staked">>, <<"CeVe", "staked">>, <<"ScVe", "staked">>,
                            <<"KrPool", "wallet">>, <<"KrPool", "staked">>} -> "obj"
    [] OTHER -> "call"

\* The places a holding can have.
PlacesOf(kind) ==
  IF kind \in {"AmPool", "CePool", "KrPool", "ScCoin"} THEN Place ELSE {"staked"}

\* The staking list of scallop has every coin that is supplied, the ones in the
\* wallet with the lending list too, and what is staked of it (position.ts:182):
\* of a coin in the wallet, a position with nothing in it.
ShowsEmpty(kind, place) == kind = "ScCoin" /\ place = "wallet"

\* What a holding can be shown as.
Guises(kind) == PlacesOf(kind) \cup (IF kind = "ScCoin" THEN {"empty"} ELSE {})

-----------------------------------------------------------------------------
(***************************************************************************)
(* Positions.  Amounts are named: "x" and "y" are what the holding is      *)
(* worth in either coin, "fee" and "reward" what it has earned.  The data  *)
(* of the tables defi_* is commented out everywhere, so nothing was ever   *)
(* put in or collected: such amounts are 0.                                *)
(***************************************************************************)
Holding(input, current, yield) == [input |-> input, current |-> current, yield |-> yield]

Zero(c, priced) == Entry(c, "zero", 0, HasPrice(c, priced))

\* Both coins of a pool by the share of the holding in it.
Shares(x, y, priced) == {ByPrice(x, "x", priced), ByPrice(y, "y", priced)}

\* aftermath
AmPool(x, y, priced) ==
  Holding({Zero(x, priced), Zero(y, priced)}, Shares(x, y, priced), {})

AmFarm(x, y, priced) ==
  Holding({Zero(x, priced), Zero(y, priced)}, Shares(x, y, priced),
          {ByPrice(y, "reward", priced)})

\* kriya
KrPool(x, y, priced) ==
  Holding({Zero(x, priced), Zero(y, priced)}, Shares(x, y, priced), {})

KrFarm(x, y, priced) ==
  Holding({Zero(x, priced), Zero(y, priced)}, Shares(x, y, priced),
          {ByPrice(y, "reward", priced)})

\* cetus, where the fees of a staked position are 0.
CePool(x, y, priced, staked) ==
  Holding({Zero(x, priced), Zero(y, priced)}, Shares(x, y, priced),
          {ByPrice(y, "reward", priced)} \cup
          (IF staked THEN {Zero(x, priced), Zero(y, priced)}
                     ELSE {ByPrice(x, "fee", priced), ByPrice(y, "fee", priced)}))

\* The input has no value, the current amount the price of CETUS.
CeVe(x, y, priced) ==
  Holding({ByNine(x, "x", FALSE)}, {ByNine(x, "x", HasPrice(x, priced))},
          {ByPrice(y, "reward", priced)})

\* scallop.  The yield of a lending is what it is now less what was put in.
ScLending(x, priced) ==
  Holding({Zero(x, priced)}, {ByPrice(x, "x", priced)}, {ByPrice(x, "x", priced)})

\* The SDK has converted these amounts.
BySDK(c, amount, priced) == Entry(c, amount, CoinDecimals[c], HasPrice(c, priced))

ScStaking(x, y, priced) ==
  Holding({Zero(x, priced)}, {BySDK(x, "x", priced)}, {BySDK(y, "reward", priced)})

\* The call also tells what is still to be claimed of an earlier stake.
ScEmpty(x, y, priced) ==
  Holding({Zero(x, priced)}, {Zero(x, priced)}, {BySDK(y, "reward", priced)})

ScObligation(x, y, priced) ==
  Holding({BySDK(x, "x", priced)}, {BySDK(y, "y", priced)}, {})

ScVe(x, priced) == Holding({Zero(x, priced)}, {ByNine(x, "x", HasPrice(x, priced))}, {})

\* Variant: with the nine decimals of SUI, whatever the price says.
StakeByNine(x, priced) ==
  Holding({ByNine(x, "x", HasPrice(x, priced))}, {ByNine(x, "x", HasPrice(x, priced))},
          {ByNine(x, "reward", HasPrice(x, priced))})

\* stake
Stake(x, priced) ==
  Holding({ByPrice(x, "x", priced)}, {ByPrice(x, "x", priced)},
          {ByPrice(x, "reward", priced)})

PositionOf(kind, place, x, y, priced) ==
  CASE kind = "AmPool" -> IF place = "staked" THEN AmFarm(x, y, priced) ELSE AmPool(x, y, priced)
    [] kind = "KrPool" -> IF place = "staked" THEN KrFarm(x, y, priced) ELSE KrPool(x, y, priced)
    [] kind = "CePool" -> CePool(x, y, priced, place = "staked")
    [] kind = "ScCoin" /\ place = "staked" -> ScStaking(x, y, priced)
    [] kind = "ScCoin" /\ place = "wallet" -> ScLending(x, priced)
    [] kind = "ScCoin" /\ place = "empty"  -> ScEmpty(x, y, priced)
    [] kind = "CeVe"   -> CeVe(x, y, priced)
    [] kind = "ScVe"   -> ScVe(x, priced)
    [] kind = "ScDebt" -> ScObligation(x, y, priced)
    [] kind = "Stake"  -> Stake(x, priced)

-----------------------------------------------------------------------------
(***************************************************************************)
(* navi, whose reserves are pairs of a coin and what the owner has in it.  *)
(***************************************************************************)
\* 9 decimals of the balance and 27 of the index.
NaAmount(c, amount, priced) == Entry(c, amount, 9, HasPrice(c, priced))

NaLending(c, priced) == Holding({Zero(c, priced)}, {NaAmount(c, "x", priced)}, {})

NaBorrowing(c, lendings, priced) ==
  Holding(UNION {l.current : l \in lendings}, {NaAmount(c, "y", priced)}, {})

\* All lendings are put into each borrowing, or stand alone if there is none.
NaPositions(lent, borrowed, priced) ==
  LET lendings == {NaLending(c, priced) : c \in lent}
  IN IF borrowed = {} THEN lendings
     ELSE {NaBorrowing(c, lendings, priced) : c \in borrowed}

-----------------------------------------------------------------------------
(***************************************************************************)
(* isInRange of cetus compares objects of the class BN with >= and <=.     *)
(* JavaScript turns them into their decimal digits, and compares those as  *)
(* strings.                                                                *)
(***************************************************************************)
Digits(n) ==
  CASE n < 10        -> <<n>>
    [] n \in 10 .. 99 -> <<n \div 10, n % 10>>
    [] OTHER         -> <<n \div 100, (n \div 10) % 10, n % 10>>

\* s is a prefix of t, or smaller where they first differ.
AtMost(s, t) ==
  \/ Len(s) <= Len(t) /\ \A i \in DOMAIN s : s[i] = t[i]
  \/ \E i \in DOMAIN s \cap DOMAIN t :
        s[i] < t[i] /\ \A j \in 1 .. i - 1 : s[j] = t[j]

IsInRange(price, range) ==
  AtMost(Digits(range.lower), Digits(price)) /\ AtMost(Digits(price), Digits(range.upper))

=============================================================================

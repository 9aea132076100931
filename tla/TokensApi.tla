------------------------------ MODULE TokensApi -----------------------------
(***************************************************************************)
(* sui-api: GET /tokens (src/api/tokens.ts), over the table that the job   *)
(* of sui-price-feed fills.                                                *)
(*                                                                         *)
(* The two meet in the clock: the job starts when the minutes are a        *)
(* multiple of five (cronjob.go:46) and stamps its prices with the minute  *)
(* in which it knows the latest checkpoint (price_feed_service.go:70); the *)
(* list has the prices stamped between the last such minute and the one    *)
(* before it, both included.  Which tokens get a price, and that the sends *)
(* of one run do not hinder each other, is in PriceFeed.                   *)
(***************************************************************************)
EXTENDS Integers, Sequences, FiniteSets

CONSTANTS
  Listable,    \* the tokens of the tables tokens and price_feeds
  Cap,         \* what each is worth in all
  Minted,      \* those whose supply the chain knows
  Epoch,       \* minutes from one start of the job to the next, 5
  ListingLimit, \* rows of a list, 50
  MaxMinute,   \* bound: the clock
  MaxListings, \* bound: requests
  MaxUnpriced  \* bound: runs and prices that are lost

ASSUME TokensApiAssumption ==
  /\ Cap \in [Listable -> Nat] /\ Minted \subseteq Listable
  /\ Epoch \in Nat \ {0, 1, 2} /\ ListingLimit \in Nat \ {0}
  /\ {MaxMinute, MaxListings, MaxUnpriced} \subseteq Nat

VARIABLES
  minute,     \* the clock
  pricing,    \* the run of the job: if it is due, its start, stage, stamp and what it still stores
  priceRows,  \* the table price_feeds: token, stamp, and (history) the run's start
  supplied,   \* the tokens with a total_supply in the table tokens
  listings,   \* the requests
  unpriced    \* the faults spent

tokensVars == <<minute, pricing, priceRows, supplied, listings, unpriced>>

-----------------------------------------------------------------------------
NoRun == [due |-> FALSE, start |-> 0, stage |-> "idle", stamp |-> 0, left |-> {}]

LosePrice == unpriced < MaxUnpriced /\ unpriced' = unpriced + 1

\* The job, or its error: the checkpoint is not known after five attempts.
StartRun ==
  /\ pricing.due
  /\ \/ pricing' = [NoRun EXCEPT !.start = minute, !.stage = "fetching"] /\ UNCHANGED unpriced
     \/ LosePrice /\ pricing' = NoRun
  /\ UNCHANGED <<minute, priceRows, supplied, listings>>

\* The checkpoint is known, after up to five attempts: StartOfMinute, of now.
StampRun ==
  /\ pricing.stage = "fetching"
  /\ pricing' = [pricing EXCEPT !.stage = "storing", !.stamp = minute, !.left = Listable]
  /\ UNCHANGED <<minute, priceRows, supplied, listings, unpriced>>

\* priceFeedRepo.Create, or its error.
StorePrice(t) ==
  /\ t \in pricing.left
  /\ pricing' = [pricing EXCEPT !.left = @ \ {t},
                                !.stage = IF pricing.left = {t} THEN "idle" ELSE @]
  /\ \/ priceRows' = priceRows \cup {[token |-> t, stamp |-> pricing.stamp, run |-> pricing.start]}
        /\ UNCHANGED unpriced
     \/ LosePrice /\ UNCHANGED priceRows
  /\ UNCHANGED <<minute, supplied, listings>>

\* Time.  A run that is due starts in its minute; with one under way the next is
\* left out (LimitModeReschedule).
MinutePasses ==
  /\ minute < MaxMinute /\ ~pricing.due
  /\ minute' = minute + 1
  /\ pricing' = [pricing EXCEPT !.due = (minute' % Epoch = 0) /\ pricing.stage = "idle"]
  /\ UNCHANGED <<priceRows, supplied, listings, unpriced>>

-----------------------------------------------------------------------------
getCurrentEpochStart == minute - (minute % Epoch)

\* Variant: the window is open at its beginning.
WindowOpen == {p \in priceRows : getCurrentEpochStart - Epoch < p.stamp
                                 /\ p.stamp <= getCurrentEpochStart}

\* BETWEEN includes both ends.
Window == {p \in priceRows : getCurrentEpochStart - Epoch <= p.stamp
                             /\ p.stamp <= getCurrentEpochStart}

\* COALESCE(total_supply, 0) * price
MarketCap(p) == IF p.token \in supplied THEN Cap[p.token] ELSE 0

\* The rows of the join in the order of the market cap, ties in any order.
Ordered(rows) ==
  {l \in [1 .. Cardinality(rows) -> rows] :
     \A i, j \in DOMAIN l : i < j => l[i] # l[j] /\ MarketCap(l[i]) >= MarketCap(l[j])}

\* A row is "known" if the table had its supply, "empty" if not, and later
\* "asked" when the chain has been.  last is a history: the tokens that the run of
\* the epoch before had stored, if it knew the checkpoint within its epoch.
QueryTokens ==
  /\ Len(listings) < MaxListings
  /\ \E l \in Ordered(Window) :
       listings' = Append(listings,
         [rows |-> [i \in 1 .. IF Len(l) < ListingLimit THEN Len(l) ELSE ListingLimit |->
                      [token |-> l[i].token,
                       supply |-> IF l[i].token \in supplied THEN "known" ELSE "empty"]],
          last |-> {p.token : p \in {q \in priceRows :
                    q.run = getCurrentEpochStart - Epoch /\ q.stamp < getCurrentEpochStart}},
          stage |-> "loop"])
  /\ UNCHANGED <<minute, pricing, priceRows, supplied, unpriced>>

\* The first row without a supply: getTotalSupply, and tokens.update.  An error of
\* either leaves the row as it is.  The rows are not sorted again.
FillSupply(n) ==
  /\ listings[n].stage = "loop"
  /\ \E i \in DOMAIN listings[n].rows :
       /\ listings[n].rows[i].supply = "empty"
       /\ \A j \in 1 .. i - 1 : listings[n].rows[j].supply # "empty"
       /\ listings' = [listings EXCEPT ![n].rows[i].supply = "asked"]
       /\ supplied' \in {supplied} \cup
                        (IF listings[n].rows[i].token \in Minted
                         THEN {supplied \cup {listings[n].rows[i].token}} ELSE {})
  /\ UNCHANGED <<minute, pricing, priceRows, unpriced>>

AnswerTokens(n) ==
  /\ listings[n].stage = "loop"
  /\ \A i \in DOMAIN listings[n].rows : listings[n].rows[i].supply # "empty"
  /\ listings' = [listings EXCEPT ![n].stage = "answered"]
  /\ UNCHANGED <<minute, pricing, priceRows, supplied, unpriced>>

-----------------------------------------------------------------------------
TokensInit ==
  /\ minute = 0 /\ pricing = [NoRun EXCEPT !.due = TRUE] /\ priceRows = {} /\ supplied = {}
  /\ listings = <<>> /\ unpriced = 0

TokensNext ==
  \/ StartRun \/ StampRun \/ MinutePasses \/ QueryTokens
  \/ \E t \in Listable : StorePrice(t)
  \/ \E n \in DOMAIN listings : FillSupply(n) \/ AnswerTokens(n)

TokensSpec == TokensInit /\ [][TokensNext]_tokensVars

-----------------------------------------------------------------------------
(***************************************************************************)
(* Properties.                                                             *)
(***************************************************************************)
TokensTypeOK ==
  /\ minute \in 0 .. MaxMinute
  /\ pricing \in [due : BOOLEAN, start : 0 .. MaxMinute, stage : {"idle", "fetching", "storing"},
                  stamp : 0 .. MaxMinute, left : SUBSET Listable]
  /\ priceRows \subseteq [token : Listable, stamp : 0 .. MaxMinute, run : 0 .. MaxMinute]
  /\ supplied \subseteq Minted
  /\ \A n \in DOMAIN listings :
        /\ Len(listings[n].rows) <= ListingLimit
        /\ \A i \in DOMAIN listings[n].rows :
              listings[n].rows[i] \in [token : Listable, supply : {"known", "empty", "asked"}]
  /\ unpriced \in 0 .. MaxUnpriced

(***************************************************************************)
(* Whenever the list is asked for, it has every token that the run of the  *)
(* epoch before gave a price, at most twice, unless the limit cuts it off; *)
(* so there is no minute in which the list is empty because the run of     *)
(* this epoch has not stored its prices yet (tokens.ts:129 has a window    *)
(* with both its ends).  Twice is the normal case: the runs at both ends   *)
(* count.  The exception is a run that needs the whole epoch to know the   *)
(* checkpoint: its prices are too new for one list and perhaps the only    *)
(* ones.  Rows are in the order of the market cap where the table knew the *)
(* supply, and these come first, but for those that are worth nothing.     *)
(***************************************************************************)
Times(l, t) == Cardinality({i \in DOMAIN l : l[i].token = t})

ListComplete(e) ==
  LET l == e.rows IN
  /\ \A t \in Listable : Times(l, t) <= 2
  /\ \A t \in e.last : Times(l, t) > 0 \/ Len(l) = ListingLimit
  /\ \A i, j \in DOMAIN l :
        i < j /\ l[j].supply = "known" =>
          \/ l[i].supply = "known" /\ Cap[l[i].token] >= Cap[l[j].token]
          \/ Cap[l[j].token] = 0

TokensListed == \A n \in DOMAIN listings : ListComplete(listings[n])

=============================================================================

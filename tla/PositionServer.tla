---------------------------- MODULE PositionServer ---------------------------
(***************************************************************************)
(* sui-ingest/defi: GET /positions/:address (src/server.ts), with the      *)
(* context of an owner (protocols/context.ts) and the cache in Redis that  *)
(* it is read through (services/cache.ts).                                 *)
(*                                                                         *)
(* A request reads the owner's objects and balances, from Redis or else    *)
(* from the chain, and then lets every protocol look for its positions.    *)
(* What was read from the chain is stored without waiting: a SET, and when *)
(* that is acknowledged an EXPIRE.  One holding of one owner is followed,  *)
(* while it moves between the wallet and the protocol.                     *)
(***************************************************************************)
EXTENDS PositionAdapters

CONSTANTS
  HoldingKinds, \* what the holding may be
  Request,     \* requests for the positions of the owner, numbered as they come
  Ttl,         \* for how long an entry of the context is kept
  FetchTime,   \* bound: the time all the work of one request takes
  SqrtPrice,   \* the square roots of prices and of the ends of ranges
  MaxMoves,    \* bound: how often the holding moves
  MaxDefects   \* bound: failed calls and stops of the process

ASSUME PositionAssumption ==
  /\ HoldingKinds \subseteq HoldingKind
  /\ Request \subseteq Nat
  /\ {Ttl, FetchTime} \subseteq Nat \ {0}
  /\ SqrtPrice \subseteq 0 .. 999
  /\ {MaxMoves, MaxDefects} \subseteq Nat

VARIABLES
  kind,      \* what the holding is
  place,     \* where it is: in a Place, or "gone"
  page,      \* the page of the owner's objects that it is on
  still,     \* for how long it has been there
  moves,     \* how often it moved
  redis,     \* the entry of the list that shows it, of the owner's context
  stage,     \* of each request
  spent,     \* the time it has taken
  fetch,     \* its read of the list
  answer,    \* what it was answered with
  defects    \* the faults spent

holdingVars  == <<kind, place, page, still, moves>>
positionVars == <<holdingVars, redis, stage, spent, fetch, answer, defects>>

-----------------------------------------------------------------------------
(***************************************************************************)
(* The context has two lists, of objects and of balances, which are read   *)
(* at the same time and in the same way.  A holding shows in one of them,  *)
(* at most: that is the list followed here.  Of the other it only matters  *)
(* that it may fail.                                                       *)
(***************************************************************************)
List == IF "obj" \in {ReadFrom(kind, p) : p \in Place} THEN "obj" ELSE "holding"

\* Balances come on one page.
Pages == IF List = "obj" THEN {"page1", "page2"} ELSE {"page1"}

\* An entry, and a read, is told by where it shows the holding.
\* ttl is what is left of its time; Unlimited is that of a key without one.  orphan
\* is a history: the process stopped before its EXPIRE.
Unlimited == Ttl + 1
NoEntry   == [shows |-> {}, ttl |-> 0, orphan |-> FALSE]

\* The longest that an answer may be behind: the work of a request that read
\* before the holding moved, of one whose EXPIRE came last, the life of the
\* entry, and the work of the request that found it.
LongAgo == Ttl + 3 * FetchTime

\* at: "get", then "page1" and "page2" of what the chain has, then "set" and
\* "expire" of the entry, and "end"; or "failed".  orphan: it is of such an entry.
NoFetch == [at |-> "end", shows |-> {}, orphan |-> FALSE]

NoAnswer == [shown |-> {}, why |-> "none"]

At(r) == fetch[r].at

HasList(r) == At(r) \in {"set", "expire", "end"}

Goes(r, at) == fetch' = [fetch EXCEPT ![r].at = at]

SpendDefect == defects < MaxDefects /\ defects' = defects + 1

-----------------------------------------------------------------------------
(***************************************************************************)
(* getUserContext, by getOrSet.                                            *)
(***************************************************************************)
AskPositions(r) ==
  /\ stage[r] = "idle"
  /\ \A q \in Request : q < r => stage[q] # "idle"
  /\ stage' = [stage EXCEPT ![r] = "context"]
  /\ spent' = [spent EXCEPT ![r] = 0]
  /\ Goes(r, "get")
  /\ UNCHANGED <<holdingVars, redis, answer, defects>>

\* getCache: HIT, or MISS.
GetCache(r) ==
  /\ At(r) = "get"
  /\ IF redis # NoEntry
     THEN fetch' = [fetch EXCEPT ![r] =
            [at |-> "end", shows |-> redis.shows, orphan |-> redis.orphan]]
     ELSE Goes(r, "page1")
  /\ UNCHANGED <<holdingVars, redis, stage, spent, answer, defects>>

\* Where the holding is seen by a call at this moment.
Seen(source) == {p \in Place : place = p /\ ReadFrom(kind, p) = source}

\* What the calls of the protocol show of it.
Called == Seen("call") \cup (IF ShowsEmpty(kind, place) THEN {"empty"} ELSE {})

\* What a page shows of it.
OnPage(r) == IF At(r) = page THEN Seen(List) ELSE {}

\* A page of getAllOwnedObjects, or the one call of getAllBalances.
ReadPage(r) ==
  /\ At(r) \in {"page1", "page2"}
  /\ fetch' = [fetch EXCEPT ![r].at = IF @ = "page1" /\ "page2" \in Pages THEN "page2" ELSE "set",
                            ![r].shows = @ \cup OnPage(r)]
  /\ UNCHANGED <<holdingVars, redis, stage, spent, answer, defects>>

\* setCache: SET takes the time to live off the entry, if it had one.
SetEntry(r) ==
  /\ At(r) = "set"
  /\ redis' = [shows |-> fetch[r].shows, ttl |-> Unlimited, orphan |-> FALSE]
  /\ Goes(r, "expire")
  /\ UNCHANGED <<holdingVars, stage, spent, answer, defects>>

\* Variant: client.expire is not called.
ExpireEntryNot(r) ==
  /\ At(r) = "expire"
  /\ Goes(r, "end")
  /\ UNCHANGED <<holdingVars, redis, stage, spent, answer, defects>>

ExpireEntry(r) ==
  /\ At(r) = "expire"
  /\ redis' = IF redis = NoEntry THEN redis ELSE [redis EXCEPT !.ttl = Ttl]
  /\ Goes(r, "end")
  /\ UNCHANGED <<holdingVars, stage, spent, answer, defects>>

\* Redis or the chain answers with an error, or not at all.
FetchFails(r) ==
  /\ At(r) \in {"get", "page1", "page2"}
  /\ SpendDefect
  /\ Goes(r, "failed")
  /\ UNCHANGED <<holdingVars, redis, stage, spent, answer>>

\* Promise.all rejects: 500.
Refuse(r) ==
  /\ stage[r] = "context" /\ At(r) = "failed"
  /\ stage' = [stage EXCEPT ![r] = "refused"]
  /\ answer' = [answer EXCEPT ![r].why = "context"]
  /\ UNCHANGED <<holdingVars, redis, spent, fetch, defects>>

\* The other list failed.  This one is read to its end, and stored.
OtherListFails(r) ==
  /\ stage[r] = "context"
  /\ SpendDefect
  /\ stage' = [stage EXCEPT ![r] = "refused"]
  /\ answer' = [answer EXCEPT ![r].why = "context"]
  /\ UNCHANGED <<holdingVars, redis, spent, fetch>>

-----------------------------------------------------------------------------
(***************************************************************************)
(* getUserPositions, of the one protocol that knows the holding.           *)
(***************************************************************************)
\* What the lists show, those of the context and those of a call of now.
Shown(r) == fetch[r].shows \cup Called

\* rewardJct divides by the interval and the weight of the farm, which BigInt
\* does not do by zero.  That ends the positions of kriya, pools included.
Throws(r, idle) == kind = "KrPool" /\ "staked" \in Shown(r) /\ idle

\* One Promise.all over the lists of the protocol.
LookUp(r) ==
  /\ stage[r] = "context" /\ HasList(r)
  /\ \E idle \in BOOLEAN :
       answer' = [answer EXCEPT ![r] =
         IF Throws(r, idle) THEN [NoAnswer EXCEPT !.why = "idle"]
                            ELSE [NoAnswer EXCEPT !.shown = Shown(r)]]
  /\ stage' = [stage EXCEPT ![r] = "looked"]
  /\ UNCHANGED <<holdingVars, redis, spent, fetch, defects>>

\* Variant: no catch, so the request fails.
LookUpFailsAll(r) ==
  /\ stage[r] = "context" /\ HasList(r)
  /\ SpendDefect
  /\ stage' = [stage EXCEPT ![r] = "refused"]
  /\ UNCHANGED <<holdingVars, redis, spent, fetch, answer>>

\* A call of the protocol fails; the protocol answers { protocol, error }.
LookUpFails(r) ==
  /\ stage[r] = "context" /\ HasList(r)
  /\ SpendDefect
  /\ answer' = [answer EXCEPT ![r].why = "call"]
  /\ stage' = [stage EXCEPT ![r] = "looked"]
  /\ UNCHANGED <<holdingVars, redis, spent, fetch>>

\* The other protocols have ended, one way or the other.
AnswerPositions(r) ==
  /\ stage[r] = "looked"
  /\ stage' = [stage EXCEPT ![r] = "answered"]
  /\ UNCHANGED <<holdingVars, redis, spent, fetch, answer, defects>>

-----------------------------------------------------------------------------
(***************************************************************************)
(* The rest of the world.                                                  *)
(***************************************************************************)
\* The process stops, and another is started.  A SET that fails does that, too:
\* nothing handles its rejection.
ServerStops ==
  /\ \E r \in Request : stage[r] \in {"context", "looked"} \/ At(r) \notin {"end", "failed"}
  /\ SpendDefect
  /\ stage' = [r \in Request |-> IF stage[r] \in {"context", "looked"} THEN "dead" ELSE stage[r]]
  /\ redis' = [redis EXCEPT !.orphan = redis.ttl = Unlimited]
  /\ fetch' = [r \in Request |-> IF At(r) \in {"end", "failed"} THEN fetch[r] ELSE NoFetch]
  /\ UNCHANGED <<holdingVars, spent, answer>>

\* The owner stakes the holding, gets it back, or ends it.  The object of it is
\* a new one every time.
MoveHolding ==
  /\ place # "gone" /\ moves < MaxMoves
  /\ place' \in (PlacesOf(kind) \cup {"gone"}) \ {place}
  /\ page' \in Pages
  /\ still' = 0 /\ moves' = moves + 1
  /\ UNCHANGED <<kind, redis, stage, spent, fetch, answer, defects>>

Working(r) ==
  stage[r] \in {"context", "looked"} \/ At(r) \notin {"end", "failed"}

\* Time.  A request, and the storing of what it read, are done within FetchTime.
Pass ==
  /\ \A r \in Request : Working(r) => spent[r] < FetchTime
  /\ spent' = [r \in Request |-> IF Working(r) THEN spent[r] + 1 ELSE 0]
  /\ still' = IF still < LongAgo THEN still + 1 ELSE still
  /\ redis' = CASE redis.ttl = Unlimited -> redis
                [] redis.ttl \in 2 .. Ttl -> [redis EXCEPT !.ttl = @ - 1]
                [] OTHER                  -> NoEntry
  /\ UNCHANGED <<kind, place, page, moves, stage, fetch, answer, defects>>

-----------------------------------------------------------------------------
PositionInit ==
  /\ kind \in HoldingKinds
  /\ place \in PlacesOf(kind) /\ page \in Pages
  /\ still = LongAgo /\ moves = 0 /\ defects = 0
  /\ redis = NoEntry
  /\ stage = [r \in Request |-> "idle"]
  /\ spent = [r \in Request |-> 0]
  /\ fetch = [r \in Request |-> NoFetch]
  /\ answer = [r \in Request |-> NoAnswer]

RequestStep(r) ==
  \/ GetCache(r) \/ ReadPage(r) \/ SetEntry(r) \/ ExpireEntry(r)
  \/ Refuse(r) \/ LookUp(r) \/ AnswerPositions(r)

PositionNext ==
  \/ \E r \in Request :
       AskPositions(r) \/ RequestStep(r) \/ FetchFails(r) \/ OtherListFails(r) \/ LookUpFails(r)
  \/ ServerStops \/ MoveHolding \/ Pass

PositionSpec == PositionInit /\ [][PositionNext]_positionVars

-----------------------------------------------------------------------------
(***************************************************************************)
(* Properties.                                                             *)
(***************************************************************************)
PositionTypeOK ==
  /\ kind \in HoldingKinds
  /\ place \in PlacesOf(kind) \cup {"gone"} /\ page \in {"page1", "page2"}
  /\ still \in 0 .. LongAgo /\ moves \in 0 .. MaxMoves
  /\ redis.shows \subseteq PlacesOf(kind) /\ redis.ttl \in 0 .. Unlimited /\ redis.orphan \in BOOLEAN
  /\ stage \in [Request -> {"idle", "context", "looked", "answered", "refused", "dead"}]
  /\ spent \in [Request -> 0 .. FetchTime]
  /\ \A r \in Request :
        /\ At(r) \in {"get", "page1", "page2", "set", "expire", "end", "failed"}
        /\ fetch[r].shows \subseteq PlacesOf(kind) /\ fetch[r].orphan \in BOOLEAN
        /\ answer[r].shown \subseteq Guises(kind)
        /\ answer[r].why \in {"none", "context", "call", "idle"}
  /\ defects \in 0 .. MaxDefects

(***************************************************************************)
(* The worth of a holding that has been where it is for long enough is     *)
(* answered once, and as what it is.  (One that has just moved may be      *)
(* answered twice, or not at all: its two places are read at different     *)
(* times, and cached.)  The exceptions are an entry that lost its EXPIRE   *)
(* when the process stopped after the SET, which is there for good and     *)
(* which every request believes; and a coin of scallop in the wallet, of   *)
(* which a second position may be shown, with nothing in it.               *)
(* And an answer has no positions of the protocol only if a call of the    *)
(* protocol failed, or kriya divided by zero.                              *)
(***************************************************************************)
Settled == still = LongAgo

ShowsTheTruth(r) ==
  \/ /\ answer[r].shown \ {"empty"} = {place} \cap Place
     /\ "empty" \in answer[r].shown => ShowsEmpty(kind, place)
  \/ fetch[r].orphan
  \/ answer[r].why = "call"
  \/ answer[r].why = "idle" /\ kind = "KrPool"

\* A request is refused only if it could not have its context: the protocols
\* do not take each other down.
RefusedWithContext(r) == stage[r] # "refused" /\ stage'[r] = "refused" /\ answer'[r].why # "context"

SettledShownOnce ==
  [][\A r \in Request :
       /\ ~RefusedWithContext(r)
       /\ stage[r] # "answered" /\ stage'[r] = "answered" /\ Settled => ShowsTheTruth(r)]_positionVars

(***************************************************************************)
(* The positions of an answer say what the holding is worth, whatever      *)
(* coins it is in and whatever prices there are.                           *)
(***************************************************************************)
\* An amount that stands next to a price was converted with the decimals of its
\* coin: the value is not off by a power of ten.  The exceptions are coins
\* without decimals, the protocols that take any coin to have nine, and prices
\* that are stored with the guess of nine (see DefiIngest).
NinePlaces == {"CeVe", "ScVe"}

Scaled(f, nine, quoted) ==
  f.price /\ f.amount # "zero" =>
    \/ f.scale = CoinDecimals[f.coin]
    \/ f.scale = 9 /\ (nine \/ CoinDecimals[f.coin] = 0 \/ quoted[f.coin] = 9)

\* What price_feeds may have: any prices, with the decimals of the coin or a guess.
AnyQuotes ==
  UNION {{quoted \in [found -> {9} \cup {CoinDecimals[c] : c \in found}] :
            \A c \in found : quoted[c] \in {CoinDecimals[c], 9}} : found \in SUBSET Coin}

\* The yield is not what was put in.  The exception is the lending of scallop:
\* nothing is known to have been put in, so all of it is yield
\* (scallop/position.ts:129 asks what if the data is wrong).
YieldIsEarned(k, p, position) ==
  \/ \A f \in position.yield : f.amount \in {"fee", "reward", "zero"}
  \/ <<k, p>> = <<"ScCoin", "wallet">>

\* What was lent to navi is in the answer, as a lending or as what a borrowing
\* stands on.
LentIsListed(lent, positions) ==
  lent \subseteq UNION {{f.coin : f \in q.input \cup q.current} : q \in positions}

\* isInRange is true of a position whose price is in its range, and of no other,
\* as long as the three numbers have equally many digits.
RangeIsRight(price, range) ==
  Len(Digits(range.lower)) = Len(Digits(range.upper)) /\ Len(Digits(price)) = Len(Digits(range.lower))
    => (IsInRange(price, range) <=> range.lower <= price /\ price <= range.upper)

LendingsWorth(quoted) ==
  \A lent \in SUBSET Coin, borrowed \in SUBSET Coin :
    LET positions == NaPositions(lent, borrowed, quoted) IN
    /\ LentIsListed(lent, positions)
    /\ \A q \in positions : \A f \in q.input \cup q.current : Scaled(f, TRUE, quoted)

PositionWorth(k, p, quoted) ==
  \A x \in Coin, y \in Coin :
    LET position == PositionOf(k, p, x, y, quoted) IN
    /\ \A f \in position.input \cup position.current \cup position.yield :
          Scaled(f, k \in NinePlaces, quoted)
    /\ YieldIsEarned(k, p, position)

RangesRight ==
  \A price, lower, upper \in SqrtPrice :
    RangeIsRight(price, [lower |-> lower, upper |-> upper])

\* For each kind and place, whatever the coins and the prices.
Worth ==
  [k \in HoldingKinds |-> [p \in Guises(k) |->
    /\ \A quoted \in AnyQuotes :
         IF k = "Navi" THEN LendingsWorth(quoted) ELSE PositionWorth(k, p, quoted)
    /\ k = "CePool" => RangesRight]]

PositionsWorth ==
  \A r \in Request : stage[r] = "answered" =>
    \A p \in answer[r].shown : Worth[kind][p]

=============================================================================

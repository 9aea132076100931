----------------------------- MODULE DefiIngest -----------------------------
(***************************************************************************)
(* sui-ingest/defi: the live process, from the topic to the tables defi_*. *)
(*                                                                         *)
(* It differs from sui-ingest/swap (SwapIngest) in what it remembers and   *)
(* in how it saves: getLatestIndexed is always 0, so a start never skips   *)
(* what an earlier run saved; and each event is handled and saved alone,   *)
(* an error being logged and forgotten.                                    *)
(***************************************************************************)
EXTENDS DefiAdapters, FiniteSets

CONSTANTS
  Topics,          \* what the topic may hold: sequences of events
  LATEST_BACKFILL, \* the constant of src/index.ts
  FetchLimit,      \* the most messages of one fetch
  MaxLoss          \* bound: errors, stops and expired sessions in one behaviour

ASSUME DefiAssumption ==
  /\ Topics \subseteq Seq(DefiEvent)
  /\ {LATEST_BACKFILL, MaxLoss} \subseteq Nat
  /\ FetchLimit \in Nat \ {0}

VARIABLES
  topic,       \* the events on sui-events, by offset
  priced,      \* prices in the window of these events: the decimals next to them
  guesses,     \* guessed decimals of coins, in caches or tables of either process
  saved,       \* what each event has in the tables: the rows of each call
  lost,        \* history: events whose handler ended with an error
  losses,      \* the faults spent
  phase,       \* "down", "polling", "preparing" or "handling"
  acked,       \* the offset the broker has for the consumer group
  resolved,    \* the offset up to which the process has resolved
  reached,     \* the offset up to which the batch in hand reaches
  pending,     \* its events whose handlers have not ended
  replays      \* history: how often the process went back

consuming == <<phase, acked, resolved, reached, pending, replays>>
defiVars  == <<topic, priced, guesses, saved, lost, losses, consuming>>

-----------------------------------------------------------------------------
Lose == losses < MaxLoss /\ losses' = losses + 1

\* startSnapshot is LATEST_BACKFILL at every start.
Early(n) == topic[n].block <= LATEST_BACKFILL

StartDefi ==
  /\ phase = "down"
  /\ phase' = "polling"
  /\ UNCHANGED <<topic, priced, guesses, saved, lost, losses, acked, resolved, reached, pending, replays>>

\* The handler returns at once when it is given no event.
FetchDefi ==
  /\ phase = "polling"
  /\ reached' \in {n \in DOMAIN topic : resolved < n /\ n <= resolved + FetchLimit}
  /\ pending' = {n \in (resolved + 1) .. reached' : ~Early(n)}
  /\ IF pending' = {} THEN phase' = "polling" /\ resolved' = reached'
                      ELSE phase' = "preparing" /\ resolved' = resolved
  /\ UNCHANGED <<topic, priced, guesses, saved, lost, losses, acked, replays>>

\* prepareTokens, preloadPool and preparePrices, which are awaited first.
PrepareDefi ==
  /\ phase = "preparing"
  /\ phase' = "handling"
  /\ UNCHANGED <<topic, priced, guesses, saved, lost, losses, acked, resolved, reached, pending, replays>>

\* Back to where the group, or the process, last was.
Back(to) ==
  /\ resolved' = to /\ reached' = to /\ pending' = {}
  /\ replays' = IF phase = "handling" \/ to < resolved THEN replays + 1 ELSE replays

\* kafkajs commits what is resolved, if it can, and calls again.
PrepareThrows ==
  /\ phase = "preparing"
  /\ Lose
  /\ acked' \in {acked, resolved}
  /\ \E to \in {acked', resolved} : Back(to)
  /\ phase' = "polling"
  /\ UNCHANGED <<topic, priced, guesses, saved, lost>>

-----------------------------------------------------------------------------
(***************************************************************************)
(* What a handler is told.  A price that the database fails to find is as  *)
(* one that is not there.  The decimals of the coins of a pool are what    *)
(* GuessesTraced of TokenPoolCache says: right, 9 for none, or a guess.    *)
(***************************************************************************)
Quotes == {[c \in found |-> priced[c]] : found \in SUBSET DOMAIN priced}

DecimalsTold(c) == {OrNine(CoinDecimals[c])} \cup {d \in {9, 18} : <<c, d>> \in guesses}

PoolDecimals ==
  {decimals \in [Coin -> UNION {DecimalsTold(c) : c \in Coin}] :
     \A c \in Coin : decimals[c] \in DecimalsTold(c)}

\* The rows its handler may make of an event.
RowsOf(n) ==
  {Process(topic, n, quotes, decimals) : quotes \in Quotes, decimals \in PoolDecimals}

\* The handler of one event, up to the answer to its create.
Handle(n) ==
  /\ phase = "handling" /\ n \in pending
  /\ \E rows \in RowsOf(n) :
        IF rows # {}
        THEN saved' = [saved EXCEPT ![n] = Append(@, rows)] /\ UNCHANGED lost
        ELSE lost' = lost \cup {n} /\ UNCHANGED saved
  /\ pending' = pending \ {n}
  /\ UNCHANGED <<topic, priced, guesses, losses, phase, acked, resolved, reached, replays>>

\* Variant: a create that failed is tried again.
HandleErrorRetried(n) ==
  /\ phase = "handling" /\ n \in pending
  /\ Lose
  /\ \/ \E rows \in RowsOf(n) \ {{}} : saved' = [saved EXCEPT ![n] = Append(@, rows)]
     \/ UNCHANGED saved
  /\ UNCHANGED <<topic, priced, guesses, lost, phase, acked, resolved, reached, pending, replays>>

\* tryCatchFn: an error, after the row was saved or before.
HandleError(n) ==
  /\ phase = "handling" /\ n \in pending
  /\ Lose
  /\ \/ \E rows \in RowsOf(n) \ {{}} : saved' = [saved EXCEPT ![n] = Append(@, rows)]
     \/ UNCHANGED saved
  /\ lost' = lost \cup {n}
  /\ pending' = pending \ {n}
  /\ UNCHANGED <<topic, priced, guesses, phase, acked, resolved, reached, replays>>

\* Variant: the batch ends with its first handler.
EndBatchEarly ==
  /\ phase = "handling"
  /\ Cardinality(pending) <= 1
  /\ phase' = "polling"
  /\ resolved' = reached /\ pending' = {}
  /\ UNCHANGED <<topic, priced, guesses, saved, lost, losses, acked, reached, replays>>

\* Promise.all, and eachBatch returns.
EndBatch ==
  /\ phase = "handling" /\ pending = {}
  /\ phase' = "polling"
  /\ resolved' = reached
  /\ UNCHANGED <<topic, priced, guesses, saved, lost, losses, acked, reached, pending, replays>>

-----------------------------------------------------------------------------
CommitDefi ==
  /\ phase = "polling" /\ acked < resolved
  /\ acked' = resolved
  /\ UNCHANGED <<topic, priced, guesses, saved, lost, losses, phase, resolved, reached, pending, replays>>

\* Variant: the group has lost its offsets and starts from the beginning.
RejoinFromBeginning ==
  /\ phase = "polling" /\ acked < resolved
  /\ Lose
  /\ Back(0)
  /\ UNCHANGED <<topic, priced, guesses, saved, lost, phase, acked>>

\* The session of the group expires between two batches.
RejoinDefi ==
  /\ phase = "polling" /\ acked < resolved
  /\ Lose
  /\ Back(acked)
  /\ UNCHANGED <<topic, priced, guesses, saved, lost, phase, acked>>

\* Any handlers of the batch may have saved their rows.
StopDefi ==
  /\ phase # "down"
  /\ Lose
  /\ phase' = "down"
  /\ Back(acked)
  /\ UNCHANGED <<topic, priced, guesses, saved, lost, acked>>

\* sui-price-feed stores the price of a coin, and the decimals that table tokens
\* has for it, where either process of sui-ingest may have put its guess of 9.
PriceArrives(c) ==
  /\ c \in Coin \ DOMAIN priced
  /\ \E d \in {CoinDecimals[c]} \cup {g \in {9} : <<c, g>> \in guesses} :
        priced' = [b \in DOMAIN priced \cup {c} |-> IF b = c THEN d ELSE priced[b]]
  /\ UNCHANGED <<topic, guesses, saved, lost, losses, consuming>>

\* A lookup fails, or finds nothing: AnswerErrorDefi and Answer of TokenPoolCache.
GuessDecimals(c, d) ==
  /\ <<c, d>> \notin guesses
  /\ Lose
  /\ guesses' = guesses \cup {<<c, d>>}
  /\ UNCHANGED <<topic, priced, saved, lost, consuming>>

-----------------------------------------------------------------------------
DefiInit ==
  /\ topic \in Topics
  /\ priced = [c \in {} |-> 0] /\ guesses = {}
  /\ saved = [n \in DOMAIN topic |-> <<>>]
  /\ lost = {} /\ losses = 0
  /\ phase = "down"
  /\ acked = 0 /\ resolved = 0 /\ reached = 0
  /\ pending = {} /\ replays = 0

DefiNext ==
  \/ StartDefi \/ FetchDefi \/ PrepareDefi \/ PrepareThrows
  \/ \E n \in pending : Handle(n) \/ HandleError(n)
  \/ EndBatch \/ CommitDefi \/ RejoinDefi \/ StopDefi
  \/ \E c \in Coin : PriceArrives(c) \/ \E d \in {9, 18} : GuessDecimals(c, d)

DefiSpec == DefiInit /\ [][DefiNext]_defiVars

-----------------------------------------------------------------------------
(***************************************************************************)
(* Properties.                                                             *)
(***************************************************************************)
EntryType == [coin : Coin \cup {"none"}, amount : (Nat \X {"x", "y"}) \cup {NoAmount},
              scale : Nat, price : BOOLEAN]

DefiTypeOK ==
  /\ topic \in Topics
  /\ DOMAIN priced \subseteq Coin /\ \A c \in DOMAIN priced : priced[c] \in Nat
  /\ guesses \subseteq Coin \X {9, 18}
  /\ DOMAIN saved = DOMAIN topic
  /\ \A n \in DOMAIN saved : \A k \in DOMAIN saved[n] : \A row \in saved[n][k] :
        row.input \cup row.output \subseteq EntryType
  /\ lost \subseteq DOMAIN topic
  /\ losses \in 0 .. MaxLoss
  /\ phase \in {"down", "polling", "preparing", "handling"}
  /\ acked \in 0 .. resolved /\ resolved \in 0 .. reached /\ reached \in 0 .. Len(topic)
  /\ pending \subseteq (resolved + 1) .. reached
  /\ replays \in 0 .. losses

(***************************************************************************)
(* An event the group has passed is in the tables, or its handler ended    *)
(* with an error, or it is too early: a batch is resolved only when all    *)
(* the handlers it started have ended, in whatever order they do.          *)
(***************************************************************************)
PassedOrLost ==
  \A n \in 1 .. acked : saved[n] # <<>> \/ n \in lost \/ Early(n)

(***************************************************************************)
(* An event is saved again only if the process went back, and once each    *)
(* time.  Other than in SwapIngest a restart is enough.                    *)
(***************************************************************************)
RepeatedOnlyByReplays == \A n \in DOMAIN topic : Len(saved[n]) <= 1 + replays

\* What the delivery to the tables is worth: neither lost nor repeated but for that.
DeliveryExplained == PassedOrLost /\ RepeatedOnlyByReplays

(***************************************************************************)
(* The process is the consumer of TopicConsumer: it commits what is        *)
(* resolved, late and from several places, and starts without a memory,    *)
(* but no step saves an event that the group has passed.                   *)
(***************************************************************************)
SavedCopies == [n \in DOMAIN topic |-> Len(saved[n])]

Excused == lost \cup {n \in DOMAIN topic : Early(n)}

Consumer == INSTANCE TopicConsumer
              WITH passed <- acked, copies <- SavedCopies, excused <- Excused,
                   returns <- replays

ImplementsConsumer == Consumer!Spec

-----------------------------------------------------------------------------
(***************************************************************************)
(* What the events of each kind mean: what their owner gave and got.       *)
(***************************************************************************)
GivesBoth == {"AmAdd", "BmAdd", "CeAdd", "FxAdd", "KrAdd", "SsAdded", "TuMint"}
GetsBoth  == {"AmRemove", "BmRemove", "CeRemove", "CeFee", "FxRemove", "KrRemove",
              "SsRemoved", "TuBurn", "AmReward"}
GivesX    == {"AmStake", "CeStakeLP", "KrStake", "NaMint", "NaRepay", "ScStake",
              "ScCollateral", "ScRepay", "ScVeStake", "StStake"}
GetsX     == {"AmUnstake", "CeUnstakeLP", "CeReward", "KrUnstake", "KrClaim", "NaWithdraw",
              "NaBorrow", "ScUnstake", "ScWithdraw", "ScReward", "ScIncentive",
              "StUnstake", "TuCollect0"}
GetsY     == {"TuCollect1"}
Exchanges == {"CeMint", "CeRedeem", "ScMint", "ScRedeem"}

GivenBy(e, n) ==
  (IF e.kind \in GivesBoth \cup GivesX \cup Exchanges THEN {<<e.x, X(n)>>} ELSE {})
  \cup (IF e.kind \in GivesBoth THEN {<<e.y, Y(n)>>} ELSE {})

GotBy(e, n) ==
  (IF e.kind \in GetsBoth \cup GetsX THEN {<<e.x, X(n)>>} ELSE {})
  \cup (IF e.kind \in GetsBoth \cup GetsY \cup Exchanges THEN {<<e.y, Y(n)>>} ELSE {})

Flow(entries) == {<<f.coin, f.amount>> : f \in {g \in entries : g.amount # NoAmount}}

GivenIn(rows) == Flow(UNION {row.input : row \in rows})
GotIn(rows)   == Flow(UNION {row.output : row \in rows})

(***************************************************************************)
(* Rows say of an event what it means, with these exceptions.  Amounts are *)
(* filed as given that were got (aftermath/indexer.ts:224 and 291,         *)
(* cetus/indexer.ts:541), or left out (kriya/indexer.ts:209, 253 and 295,  *)
(* cetus/indexer.ts:383).  And navi takes the coin of the first pool event *)
(* of the transaction, which is the wrong one when the transaction has     *)
(* another operation of the same direction before it.                      *)
(***************************************************************************)
Inverted == {"AmUnstake", "AmReward", "CeUnstakeLP"}
LeftOut  == {"KrStake", "KrUnstake", "KrClaim", "CeMint"}

Shadowed(n) ==
  \E m \in 1 .. n - 1, side \in {Deposits, Withdraws} :
     {topic[m].kind, topic[n].kind} \subseteq side
     /\ topic[m].tx = topic[n].tx /\ topic[m].x # topic[n].x

RowsMirrorEvents ==
  \A n \in DOMAIN topic : \A k \in DOMAIN saved[n] :
     LET e    == topic[n]
         rows == saved[n][k]
     IN \/ GivenIn(rows) = GivenBy(e, n) /\ GotIn(rows) = GotBy(e, n)
        \/ e.kind \in Inverted \cup LeftOut \/ Shadowed(n)

(***************************************************************************)
(* A value is off by a power of ten only through a guess: an amount that   *)
(* stands next to a price was converted with the decimals of its coin (9   *)
(* for a coin without), or with decimals that somebody guessed for this    *)
(* very coin.  When the price is missing, and the decimals with it, the    *)
(* value is 0.  The exception is cetus, which redeems xCETUS with 9        *)
(* decimals, those that both coins have.                                   *)
(***************************************************************************)
AlwaysNine == {"CeRedeem"}

ScaledFor(f, k) ==
  \/ f.scale = OrNine(CoinDecimals[f.coin])
  \/ <<f.coin, f.scale>> \in guesses
  \/ f.scale = 9 /\ k \in AlwaysNine

ValuesScaled ==
  \A n \in DOMAIN topic : \A k \in DOMAIN saved[n] : \A row \in saved[n][k] :
     \A f \in row.input \cup row.output :
        f.coin \in Coin /\ f.price /\ f.amount # NoAmount => ScaledFor(f, topic[n].kind)

\* Rows that can be believed: the coins and amounts of the event, rightly scaled.
RowsBelievable == RowsMirrorEvents /\ ValuesScaled

=============================================================================

----------------------------- MODULE PriceFeed -----------------------------
(***************************************************************************)
(* sui-price-feed: every five minutes GetPriceFeed averages the prices of  *)
(* the tokens traded in the latest checkpoints, and sends each average to  *)
(* Kafka and to the table price_feeds                                      *)
(* (sui-price-feed/internal/service/price_feed_service.go).  The trades    *)
(* are what sui-ingest/swap has saved by then.                             *)
(***************************************************************************)
EXTENDS Integers, Sequences, FiniteSets

CONSTANTS
  Swap,       \* trades with a value: [block, from, to, in, out], by name
  Metadata,   \* the tokens that the table tokens knows
  MaxCheckpoint,       \* bound: the youngest checkpoint
  Span,       \* the checkpoints of "the last 5 mins", 300
  Attempts,   \* of FetchLatestCheckpoint, 5
  MaxFeeds,   \* bound: runs of the job
  MaxRefused  \* bound: calls that fail

ASSUME FeedAssumption ==
  /\ {MaxCheckpoint, Span, MaxFeeds, MaxRefused} \subseteq Nat
  /\ Attempts \in Nat \ {0}

VARIABLES
  latest,   \* the latest checkpoint of the node
  stored,   \* the trades in the table
  feeding,  \* the run: "idle", "fetching", "querying" or "sending"
  attempt,  \* calls of FetchLatestCheckpoint that failed
  checkpoint, \* the node's answer
  sends,    \* the sends that are under way, each in its goroutine
  feeds,    \* history: the runs that got prices
  runs, refused \* the bounds' counters

feedVars == <<latest, stored, feeding, attempt, checkpoint, sends, feeds, runs, refused>>

Sinks == {"kafka", "postgres"}

-----------------------------------------------------------------------------
Refuse == refused < MaxRefused /\ refused' = refused + 1

\* A LEFT JOIN: all tokens without metadata make up one group, without a name.
Group(token) == IF token \in Metadata THEN token ELSE "NULL"

\* WHERE: what amounts to nothing was not bought, and block BETWEEN.
InWindow(at, t) ==
  /\ Swap[t].out > 0
  /\ Swap[t].block >= at - Span /\ Swap[t].block <= at

Seen == {t \in stored : InWindow(checkpoint, t)}

\* Both tokens of a trade get a price from it.
Prices(swaps) == UNION {{Group(Swap[t].from), Group(Swap[t].to)} : t \in swaps}

-----------------------------------------------------------------------------
\* The chain, and the swap ingester, in any order and at any delay.
NewCheckpoint == /\ latest < MaxCheckpoint /\ latest' = latest + 1
                 /\ UNCHANGED <<stored, feeding, attempt, checkpoint, sends, feeds, runs, refused>>

SaveSwap(t) == /\ t \notin stored /\ Swap[t].block <= latest
               /\ stored' = stored \cup {t}
               /\ UNCHANGED <<latest, feeding, attempt, checkpoint, sends, feeds, runs, refused>>

\* The job; while a run goes on, gocron puts the next one off.
GetPriceFeed ==
  /\ feeding = "idle" /\ runs < MaxFeeds
  /\ feeding' = "fetching" /\ attempt' = 0 /\ runs' = runs + 1
  /\ UNCHANGED <<latest, stored, checkpoint, sends, feeds, refused>>

\* The node's answer is the checkpoint from here on; the last of the attempts
\* ends the run.
FetchLatestCheckpoint ==
  /\ feeding = "fetching"
  /\ \/ /\ feeding' = "querying" /\ checkpoint' = latest
        /\ UNCHANGED <<attempt, refused>>
     \/ /\ Refuse /\ attempt' = attempt + 1
        /\ feeding' = IF attempt' < Attempts THEN "fetching" ELSE "idle"
        /\ UNCHANGED checkpoint
  /\ UNCHANGED <<latest, stored, sends, feeds, runs>>

\* amount_usd / quanlity_in has no WHERE: one trade with nothing put in fails
\* the whole query.
QueryPrices ==
  /\ feeding = "querying"
  /\ LET swaps == Seen
     IN \/ /\ \A t \in swaps : Swap[t].in > 0
           /\ sends' = Prices(swaps) \X Sinks
           /\ feeds' = Append(feeds, [swaps |-> swaps, sent |-> {}, lost |-> {}])
           /\ feeding' = "sending" /\ UNCHANGED refused
        \/ /\ IF \E t \in swaps : Swap[t].in = 0 THEN UNCHANGED refused ELSE Refuse
           /\ feeding' = "idle" /\ UNCHANGED <<sends, feeds>>
  /\ UNCHANGED <<latest, stored, attempt, checkpoint, runs>>

\* A send succeeds.
Send(s) ==
  /\ s \in sends /\ sends' = sends \ {s}
  /\ feeds' = [feeds EXCEPT ![Len(feeds)].sent = @ \cup {s}]
  /\ UNCHANGED <<latest, stored, feeding, attempt, checkpoint, runs, refused>>

\* Variant: the goroutine returns the error, which cancels the others.
SendFailsAll(s) ==
  /\ s \in sends /\ sends' = {}
  /\ Refuse
  /\ feeds' = [feeds EXCEPT ![Len(feeds)].lost = @ \cup {s}]
  /\ UNCHANGED <<latest, stored, feeding, attempt, checkpoint, runs>>

\* It fails, which is logged: the goroutine returns nil.
SendFails(s) ==
  /\ s \in sends /\ sends' = sends \ {s}
  /\ Refuse
  /\ feeds' = [feeds EXCEPT ![Len(feeds)].lost = @ \cup {s}]
  /\ UNCHANGED <<latest, stored, feeding, attempt, checkpoint, runs>>

\* eg.Wait
WaitSends ==
  /\ feeding = "sending" /\ sends = {}
  /\ feeding' = "idle"
  /\ UNCHANGED <<latest, stored, attempt, checkpoint, sends, feeds, runs, refused>>

\* The process ends, and with it what it was sending.
StopFeed ==
  /\ feeding # "idle" /\ Refuse
  /\ feeding' = "idle" /\ sends' = {}
  /\ feeds' = IF feeding = "sending" THEN SubSeq(feeds, 1, Len(feeds) - 1) ELSE feeds
  /\ UNCHANGED <<latest, stored, attempt, checkpoint, runs>>

-----------------------------------------------------------------------------
FeedInit ==
  /\ latest = 0 /\ stored = {} /\ feeding = "idle" /\ attempt = 0 /\ checkpoint = 0
  /\ sends = {} /\ feeds = <<>> /\ runs = 0 /\ refused = 0

FeedNext ==
  \/ NewCheckpoint
  \/ \E t \in DOMAIN Swap : SaveSwap(t)
  \/ GetPriceFeed \/ FetchLatestCheckpoint \/ QueryPrices \/ WaitSends \/ StopFeed
  \/ \E s \in sends : Send(s) \/ SendFails(s)

FeedSpec == FeedInit /\ [][FeedNext]_feedVars

-----------------------------------------------------------------------------
(***************************************************************************)
(* Properties.                                                             *)
(***************************************************************************)
FeedTypeOK ==
  /\ latest \in 0 .. MaxCheckpoint /\ stored \subseteq DOMAIN Swap
  /\ feeding \in {"idle", "fetching", "querying", "sending"}
  /\ attempt \in 0 .. Attempts /\ checkpoint \in 0 .. latest
  /\ sends \subseteq (Metadata \cup {"NULL"}) \X Sinks
  /\ Len(feeds) <= runs
  /\ runs \in 0 .. MaxFeeds /\ refused \in 0 .. MaxRefused

(***************************************************************************)
(* When a run that got prices is over, each token of each trade it saw has *)
(* a price in Kafka and in Postgres, save for exactly those sends that     *)
(* failed by themselves: no failure of one sink, or of one token, costs    *)
(* another its price.  And no token has a price without a trade.           *)
(***************************************************************************)
PricedInBothSinks ==
  \A n \in DOMAIN feeds :
     feeding # "sending" \/ n < Len(feeds) =>
       /\ feeds[n].sent \cap feeds[n].lost = {}
       /\ feeds[n].sent \cup feeds[n].lost = Prices(feeds[n].swaps) \X Sinks

=============================================================================

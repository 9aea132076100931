----------------------------- MODULE SwapIngest -----------------------------
(***************************************************************************)
(* sui-ingest/swap: two processes that write trades to one table.          *)
(*                                                                         *)
(* The live process (liveIndexer of src/index.ts) consumes the events      *)
(* topic in batches, the backfill process (backfillData) reads a csv       *)
(* export.  Both hand what they read to one handler (src/main.ts), which   *)
(* saves all trades of a call with one createMany.  Every trade gets a     *)
(* fresh uuid as its id, so skipDuplicates never finds a duplicate: what   *)
(* keeps trades from being saved twice is that both processes ask the      *)
(* table, when they start, how far it has got.                             *)
(*                                                                         *)
(* One partition, one consumer: src/index.ts has no support for more.      *)
(***************************************************************************)
EXTENDS Integers, Sequences, FiniteSets

CONSTANTS
  Topic,         \* the blocks of the swap events on sui-events, by offset
  File,          \* the blocks of the rows of BACKFILL_FILE
  First,         \* LATEST_BACKFILL
  Checkpoint,    \* CHECKPOINT, the end of the backfill range
  BackfillBatch, \* config.backfillBatch
  MaxFetch,      \* the most messages of one fetch
  MaxFault       \* bound: faults of the environment in one behaviour

ASSUME SwapAssumption ==
  /\ Topic \in Seq(Nat) /\ File \in Seq(Nat)
  /\ {First, Checkpoint, MaxFault} \subseteq Nat
  /\ {BackfillBatch, MaxFetch} \subseteq Nat \ {0}

\* An event, named by where it was read.
Event == ({"topic"} \X DOMAIN Topic) \cup ({"file"} \X DOMAIN File)

Block(e) == IF e[1] = "topic" THEN Topic[e[2]] ELSE File[e[2]]

VARIABLES
  trades,        \* the number of trades each event has in the table
  dropped,       \* history: events whose protocol failed, which is only logged
  faults,        \* the faults spent
  consumer,      \* the live process: "down", "polling" or "handling"
  startSnapshot, \* read once, when it starts
  committed,     \* the offset the broker has for the consumer group
  position,      \* the offset up to which the process has resolved
  fetched,       \* the offset up to which the batch in hand reaches
  thrown,        \* history: handler calls that failed, and expired sessions
  backfill,      \* "down", "reading", "first", "second" or "finished"
  from,          \* the lower end of the backfill range
  cursor,        \* rows of the file read so far
  rows           \* rows in the buffer

live    == <<consumer, startSnapshot, committed, position, fetched, thrown>>
reader  == <<backfill, from, cursor, rows>>
table   == <<trades, dropped>>
vars    == <<table, faults, live, reader>>

-----------------------------------------------------------------------------
Spend == /\ faults < MaxFault
         /\ faults' = faults + 1

Saved(e) == trades[e] > 0

\* The highest saved block below a limit; 0 stands for no trade.
HighestBelow(limit) ==
  LET blocks == {Block(e) : e \in {x \in Event : Saved(x) /\ Block(x) < limit}}
  IN IF blocks = {} THEN 0 ELSE CHOOSE b \in blocks : \A c \in blocks : c <= b

\* No limit is above all blocks.
NoLimit == 1 + CHOOSE b \in {First} \cup {Block(e) : e \in Event} :
                 \A e \in Event : Block(e) <= b

(***************************************************************************)
(* The handler.  A protocol that fails gives null and its event no trade.  *)
(***************************************************************************)
Create(events) == trades' = [e \in Event |-> IF e \in events THEN trades[e] + 1
                                             ELSE trades[e]]

Handler(events) ==
  \E failed \in SUBSET events :
     /\ IF failed = {} THEN faults' = faults ELSE Spend
     /\ dropped' = dropped \cup failed
     /\ Create(events \ failed)

\* It throws: while preparing, in createMany, or when the answer is lost.
HandlerThrows(events) ==
  /\ Spend
  /\ Create(events) \/ UNCHANGED trades
  /\ UNCHANGED dropped

-----------------------------------------------------------------------------
(***************************************************************************)
(* The live process.                                                       *)
(***************************************************************************)
\* Variant: the snapshot is a constant.
GetLatestIndexedNever == First

\* "getLatestIndexed() || LATEST_BACKFILL"
GetLatestIndexed == IF HighestBelow(NoLimit) = 0 THEN First ELSE HighestBelow(NoLimit)

StartLive ==
  /\ consumer = "down"
  /\ consumer' = "polling"
  /\ startSnapshot' = GetLatestIndexed
  /\ position' = committed /\ fetched' = committed
  /\ UNCHANGED <<table, faults, committed, thrown, reader>>

\* Variant: the offsets of a batch are committed when it arrives.
FetchCommitting ==
  /\ consumer = "polling"
  /\ fetched' \in {n \in DOMAIN Topic : position < n /\ n <= position + MaxFetch}
  /\ committed' = position + 1
  /\ consumer' = "handling"
  /\ UNCHANGED <<table, faults, startSnapshot, position, thrown, reader>>

Fetch ==
  /\ consumer = "polling"
  /\ fetched' \in {n \in DOMAIN Topic : position < n /\ n <= position + MaxFetch}
  /\ consumer' = "handling"
  /\ UNCHANGED <<table, faults, startSnapshot, committed, position, thrown, reader>>

\* The topic holds nothing new.
FetchNothing ==
  /\ consumer = "polling" /\ position = Len(Topic)
  /\ UNCHANGED vars

\* What eachBatch keeps of its batch.
Batch == {<<"topic", n>> : n \in {m \in (position + 1) .. fetched :
                                    Topic[m] > startSnapshot}}

\* Variant: a batch without new events is not resolved.
EachBatchUnresolved ==
  /\ consumer = "handling"
  /\ Handler(Batch)
  /\ consumer' = "polling"
  /\ position' = IF Batch = {} THEN position ELSE fetched
  /\ fetched' = position'
  /\ UNCHANGED <<startSnapshot, committed, thrown, reader>>

EachBatch ==
  /\ consumer = "handling"
  /\ Handler(Batch)
  /\ consumer' = "polling"
  /\ position' = fetched
  /\ UNCHANGED <<startSnapshot, committed, fetched, thrown, reader>>

\* An error in eachBatch: kafkajs commits what is resolved, if it can, and
\* calls again, at the batch or after a restart at the committed offset.
EachBatchThrows ==
  /\ consumer = "handling" /\ Batch # {}
  /\ HandlerThrows(Batch)
  /\ committed' \in {committed, position}
  /\ position' \in {committed', position}
  /\ consumer' = "polling"
  /\ fetched' = position'
  /\ thrown' = thrown + 1
  /\ UNCHANGED <<startSnapshot, reader>>

\* The timer of autoCommit.
Commit ==
  /\ consumer = "polling"
  /\ committed < position
  /\ committed' = position
  /\ UNCHANGED <<table, faults, consumer, startSnapshot, position, fetched, thrown, reader>>

\* The session of the group expires between two batches, and the process goes
\* back to the committed offset with the snapshot it has.
Rejoin ==
  /\ consumer = "polling" /\ committed < position
  /\ Spend
  /\ position' = committed /\ fetched' = committed
  /\ thrown' = thrown + 1
  /\ UNCHANGED <<table, consumer, startSnapshot, committed, reader>>

StopLive ==
  /\ consumer # "down"
  /\ Spend
  /\ consumer' = "down"
  /\ position' = committed /\ fetched' = committed
  /\ UNCHANGED <<table, startSnapshot, committed, thrown, reader>>

-----------------------------------------------------------------------------
(***************************************************************************)
(* The backfill process.  An error rejects its promise and ends it; it is  *)
(* run again by hand.                                                      *)
(***************************************************************************)
StartBackfill ==
  /\ backfill = "down"
  /\ backfill' = "reading"
  /\ from' = HighestBelow(Checkpoint)
  /\ cursor' = 0 /\ rows' = {}
  /\ UNCHANGED <<table, faults, live>>

\* Variant: the range includes its lower end.
InRangeClosed(n) == from <= File[n] /\ File[n] < Checkpoint

InRange(n) == from < File[n] /\ File[n] < Checkpoint

\* Variant: the buffer is processed when it holds more than a batch.
ReadRowLate ==
  /\ backfill = "reading" /\ cursor < Len(File)
  /\ cursor' = cursor + 1
  /\ rows' = IF InRange(cursor') THEN rows \cup {<<"file", cursor'>>} ELSE rows
  /\ backfill' = IF Cardinality(rows') > BackfillBatch THEN "first" ELSE "reading"
  /\ UNCHANGED <<table, faults, from, live>>

\* One turn of the loop over the rows, up to the first call of processData.
ReadRow ==
  /\ backfill = "reading" /\ cursor < Len(File)
  /\ cursor' = cursor + 1
  /\ rows' = IF InRange(cursor') THEN rows \cup {<<"file", cursor'>>} ELSE rows
  /\ backfill' = IF Cardinality(rows') >= BackfillBatch THEN "first" ELSE "reading"
  /\ UNCHANGED <<table, faults, from, live>>

\* Variant: the buffer is not cleared.
ProcessDataKeeping ==
  /\ backfill \in {"first", "second"}
  /\ Handler(rows)
  /\ \/ backfill = "first" /\ backfill' = "second"
     \/ backfill = "second" /\ backfill' = "reading"
  /\ UNCHANGED <<rows, from, cursor, live>>

\* A full buffer is processed, and processed again before it is cleared.
ProcessData ==
  /\ backfill \in {"first", "second"}
  /\ Handler(rows)
  /\ \/ backfill = "first" /\ backfill' = "second" /\ rows' = rows
     \/ backfill = "second" /\ backfill' = "reading" /\ rows' = {}
  /\ UNCHANGED <<from, cursor, live>>

ProcessDataThrows ==
  /\ backfill \in {"first", "second"}
  /\ HandlerThrows(rows)
  /\ backfill' = "down" /\ rows' = {}
  /\ UNCHANGED <<from, cursor, live>>

\* The end of the file: what is in the buffer is forgotten.
EndOfFile ==
  /\ backfill = "reading" /\ cursor = Len(File)
  /\ backfill' = "finished" /\ rows' = {}
  /\ UNCHANGED <<table, faults, from, cursor, live>>

StopBackfill ==
  /\ backfill \notin {"down", "finished"}
  /\ Spend
  /\ backfill' = "down" /\ rows' = {}
  /\ UNCHANGED <<table, from, cursor, live>>

-----------------------------------------------------------------------------
Init ==
  /\ trades = [e \in Event |-> 0]
  /\ dropped = {} /\ faults = 0
  /\ consumer = "down"
  /\ startSnapshot = First
  /\ committed = 0 /\ position = 0 /\ fetched = 0
  /\ thrown = 0
  /\ backfill = "down"
  /\ from = 0 /\ cursor = 0 /\ rows = {}

LiveStep == StartLive \/ Fetch \/ FetchNothing \/ EachBatch \/ EachBatchThrows \/ Commit

Next ==
  \/ LiveStep \/ Rejoin \/ StopLive
  \/ StartBackfill \/ ReadRow \/ ProcessData \/ ProcessDataThrows
  \/ EndOfFile \/ StopBackfill

Spec == Init /\ [][Next]_vars

\* The live process is started again when it stops, and the poll loop and the
\* timer of kafkajs keep running.
FairSpec == Spec /\ WF_vars(StartLive \/ Fetch \/ EachBatch \/ EachBatchThrows)
                 /\ SF_vars(Commit)

-----------------------------------------------------------------------------
(***************************************************************************)
(* Properties.                                                             *)
(***************************************************************************)
TypeOK ==
  /\ trades \in [Event -> Nat]
  /\ dropped \subseteq Event
  /\ faults \in 0 .. MaxFault
  /\ consumer \in {"down", "polling", "handling"}
  /\ startSnapshot \in Nat
  /\ {committed, position, fetched} \subseteq 0 .. Len(Topic)
  /\ committed <= position /\ position <= fetched
  /\ thrown \in 0 .. faults
  /\ backfill \in {"down", "reading", "first", "second", "finished"}
  /\ from \in Nat
  /\ cursor \in 0 .. Len(File)
  /\ rows \subseteq Event
  /\ Cardinality(rows) <= BackfillBatch

(***************************************************************************)
(* Only calls of the handler that failed, and sessions that expired, can   *)
(* save an event of the topic again: the process goes back but keeps its   *)
(* snapshot.  A restart never does, although offsets are committed late    *)
(* and the ids of trades are fresh: what it reads again lies at or below   *)
(* the snapshot it starts with.                                            *)
(***************************************************************************)
RestartsAddNoCopies == \A n \in DOMAIN Topic : trades[<<"topic", n>>] <= 1 + thrown

(***************************************************************************)
(* The price of it.  An event the group has passed was saved, its protocol *)
(* failed, or it was skipped; and a skipped event was overtaken: a trade   *)
(* of its block or a higher one was saved from an earlier offset, or from  *)
(* the export.  The topic is not sorted by block (sui-worker has many      *)
(* threads) and one block has many events, so this happens.                *)
(***************************************************************************)
Overtaken(n) ==
  \/ Topic[n] <= First
  \/ \E e \in Event : /\ Saved(e) /\ Block(e) >= Topic[n]
                      /\ e[1] = "topic" => e[2] < n

PassedOrOvertaken ==
  \A n \in 1 .. committed : \/ Saved(<<"topic", n>>)
                            \/ <<"topic", n>> \in dropped
                            \/ Overtaken(n)

(***************************************************************************)
(* However often the backfill is interrupted and run again, no row is      *)
(* saved more often than one run saves it, which is twice.                 *)
(***************************************************************************)
RerunsAddNoCopies == \A n \in DOMAIN File : trades[<<"file", n>>] <= 2

(***************************************************************************)
(* A run that reached the end of the file leaves out of its range only the *)
(* rows of the last, incomplete buffer, and those whose protocol failed.   *)
(***************************************************************************)
TailBounded ==
  backfill = "finished" =>
     Cardinality({n \in DOMAIN File : /\ InRange(n)
                                      /\ ~Saved(<<"file", n>>)
                                      /\ <<"file", n>> \notin dropped}) < BackfillBatch

(***************************************************************************)
(* Of both processes together: no event becomes more trades than its       *)
(* failed calls, and the double call of a full buffer, explain, and none   *)
(* is left out that was not overtaken, dropped, or at the end of the file. *)
(***************************************************************************)
CopiesExplained == RestartsAddNoCopies /\ RerunsAddNoCopies

LossesExplained == PassedOrOvertaken /\ TailBounded

(***************************************************************************)
(* The live process is the consumer of TopicConsumer, beside the backfill  *)
(* that writes to the same table: in particular no step saves an event     *)
(* that the group has passed, although the process reads some again.       *)
(***************************************************************************)
TopicCopies == [n \in DOMAIN Topic |-> trades[<<"topic", n>>]]

Excused == {n \in DOMAIN Topic : <<"topic", n>> \in dropped \/ Overtaken(n)}

Consumer == INSTANCE TopicConsumer
              WITH passed <- committed, copies <- TopicCopies, excused <- Excused,
                   returns <- thrown

ImplementsConsumer == Consumer!Spec

(***************************************************************************)
(* createMany is called with skipDuplicates (main.ts:80): the same row     *)
(* does not give two trades.  The code does not keep this: index.ts:180    *)
(* processes a buffer that index.ts:176 has processed, and the ids differ. *)
(***************************************************************************)
BackfilledOnce == \A n \in DOMAIN File : trades[<<"file", n>>] <= 1

(***************************************************************************)
(* The group gets past every event, through failing handlers, stops and    *)
(* failed commits.                                                         *)
(***************************************************************************)
EventuallyPassed == <>[](committed = Len(Topic))

=============================================================================

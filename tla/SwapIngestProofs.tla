-------------------------- MODULE SwapIngestProofs --------------------------
(***************************************************************************)
(* Theorems about SwapIngest for any topic, file, batch sizes and number   *)
(* of faults.                                                              *)
(***************************************************************************)
EXTENDS SwapIngest, FiniteSetTheorems, SequenceTheorems, TLAPS

-----------------------------------------------------------------------------
(***************************************************************************)
(* Maxima.  The library's induction theorems cannot be used, but it knows  *)
(* that strict inclusion of the subsets of a finite set is well founded.   *)
(***************************************************************************)
\* A finite set of numbers has a greatest element.
LEMMA GreatestExists ==
  ASSUME NEW S \in SUBSET Int, IsFiniteSet(S), S # {}
  PROVE  \E m \in S : \A x \in S : x <= m
  <1> DEFINE above == [x \in S |-> {y \in S : x < y}]
             order == StrictSubsetOrdering(S)
             all   == {above[x] : x \in S}
  <1>1. IsWellFoundedOn(order, SUBSET S)
    BY FS_StrictSubsetOrderingWellFounded, FS_FiniteSubsetsOfFinite
  <1>2. all \subseteq SUBSET S /\ all # {}
    OBVIOUS
  <1>3. PICK least \in all : \A other \in all : <<other, least>> \notin order
    <2> HIDE DEF all, order
    <2>1. QED BY <1>1, <1>2, WFMin
  <1>4. PICK m \in S : least = above[m]
    OBVIOUS
  <1>5. ASSUME NEW x \in S, m < x PROVE FALSE
    <2>1. above[x] = {y \in S : x < y} /\ above[m] = {y \in S : m < y}
      OBVIOUS
    <2>2. x \in Int /\ m \in Int /\ \A y \in S : y \in Int
      OBVIOUS
    <2>3. \A y \in S : x < y => m < y
      BY <1>5, <2>2
    <2>4. ~(x < x)
      BY <2>2
    <2>5. above[x] \subseteq above[m] /\ x \in above[m] /\ x \notin above[x]
      <3> HIDE DEF above
      <3>1. QED BY <1>5, <2>1, <2>3, <2>4
    <2>6. <<above[x], above[m]>> \in (SUBSET S) \X (SUBSET S)
      BY <1>2
    <2>7. <<above[x], above[m]>> \in order
      <3> HIDE DEF above
      <3>1. QED BY <2>5, <2>6 DEF StrictSubsetOrdering
    <2>8. QED BY <1>3, <1>4, <2>7
  <1>6. QED BY <1>5

\* A finite set of events has finitely many blocks.
LEMMA BlocksFinite ==
  ASSUME NEW S, IsFiniteSet(S)
  PROVE  IsFiniteSet({Block(e) : e \in S})
  <1> DEFINE T == {Block(e) : e \in S}
             f == [e \in S |-> Block(e)]
  <1>1. f \in Surjection(S, T)
    BY DEF Surjection
  <1>2. QED BY <1>1, FS_Surjection

\* There are finitely many events.
LEMMA EventFinite == IsFiniteSet(Event)
  <1>1. IsFiniteSet(DOMAIN Topic) /\ IsFiniteSet(DOMAIN File)
    BY FS_Interval, LenProperties, SwapAssumption
  <1>2. IsFiniteSet({"topic"} \X DOMAIN Topic) /\ IsFiniteSet({"file"} \X DOMAIN File)
    BY <1>1, FS_Singleton, FS_Product
  <1>3. QED BY <1>2, FS_Union DEF Event

\* Events are of the topic or of the file, and have a block.
LEMMA EventType ==
  ASSUME NEW e \in Event
  PROVE  /\ Block(e) \in Nat
         /\ \/ \E n \in DOMAIN Topic : e = <<"topic", n>>
            \/ \E n \in DOMAIN File : e = <<"file", n>>
  BY SwapAssumption, ElementOfSeq, LenProperties DEF Event, Block

-----------------------------------------------------------------------------
(***************************************************************************)
(* What both processes ask the table.                                      *)
(***************************************************************************)
\* HighestBelow bounds the saved blocks below its limit, and is one of them
\* unless it is 0.
LEMMA HighestBelowSaved ==
  ASSUME NEW limit \in Int
  PROVE  /\ HighestBelow(limit) \in Nat
         /\ \A e \in Event : Saved(e) /\ Block(e) < limit => Block(e) <= HighestBelow(limit)
         /\ HighestBelow(limit) # 0 =>
              \E e \in Event : Saved(e) /\ Block(e) = HighestBelow(limit)
  <1> DEFINE below  == {x \in Event : Saved(x) /\ Block(x) < limit}
             blocks == {Block(e) : e \in below}
             top    == CHOOSE b \in blocks : \A c \in blocks : c <= b
  <1>1. HighestBelow(limit) = IF blocks = {} THEN 0 ELSE top
    BY DEF HighestBelow
  <1>2. CASE blocks = {}
    BY <1>1, <1>2
  <1>3. CASE blocks # {}
    <2>1. IsFiniteSet(below)
      BY EventFinite, FS_Subset
    <2>2. IsFiniteSet(blocks)
      BY <2>1, BlocksFinite
    <2>3. blocks \subseteq Int /\ blocks \subseteq Nat
      BY EventType
    <2>4. \E m \in blocks : \A x \in blocks : x <= m
      <3> HIDE DEF blocks
      <3>1. QED BY <1>3, <2>2, <2>3, GreatestExists
    <2>5. top \in blocks /\ \A c \in blocks : c <= top
      <3> HIDE DEF blocks
      <3>1. QED BY <2>4
    <2>6. HighestBelow(limit) = top
      BY <1>1, <1>3
    <2> HIDE DEF top
    <2>7. QED BY <2>3, <2>5, <2>6
  <1>4. QED BY <1>2, <1>3

\* NoLimit is above every block.
LEMMA NoLimitAbove == NoLimit \in Nat /\ \A e \in Event : Block(e) < NoLimit
  <1> DEFINE blocks == {Block(e) : e \in Event}
             all    == {First} \cup blocks
             top    == CHOOSE b \in all : \A e \in Event : Block(e) <= b
  <1>1. NoLimit = 1 + top
    BY DEF NoLimit
  <1>2. IsFiniteSet(blocks)
    BY EventFinite, BlocksFinite
  <1>3. IsFiniteSet(all) /\ all # {}
    <2> HIDE DEF blocks
    <2>1. QED BY <1>2, FS_Singleton, FS_Union
  <1>4. all \subseteq Nat /\ all \subseteq Int
    BY EventType, SwapAssumption
  <1>5. PICK m \in all : \A x \in all : x <= m
    <2> HIDE DEF all
    <2>1. QED BY <1>3, <1>4, GreatestExists
  <1>6. top \in all /\ \A e \in Event : Block(e) <= top
    <2>1. \E b \in all : \A e \in Event : Block(e) <= b
      BY <1>5
    <2> HIDE DEF all
    <2>2. QED BY <2>1
  <1> HIDE DEF top
  <1>7. top \in Nat /\ \A e \in Event : Block(e) \in Nat
    BY <1>4, <1>6, EventType
  <1>8. QED BY <1>1, <1>6, <1>7

\* The live process starts at or above every saved block, at a saved block or
\* at LATEST_BACKFILL.
LEMMA LatestIndexed ==
  /\ GetLatestIndexed \in Nat
  /\ \A e \in Event : Saved(e) => Block(e) <= GetLatestIndexed
  /\ \/ GetLatestIndexed = First
     \/ \E e \in Event : Saved(e) /\ Block(e) = GetLatestIndexed
  <1> DEFINE highest == HighestBelow(NoLimit)
  <1>1. /\ highest \in Nat
        /\ \A e \in Event : Saved(e) => Block(e) <= highest
        /\ highest # 0 => \E e \in Event : Saved(e) /\ Block(e) = highest
    BY HighestBelowSaved, NoLimitAbove
  <1>2. GetLatestIndexed = IF highest = 0 THEN First ELSE highest
    BY DEF GetLatestIndexed
  <1>3. First \in Nat /\ \A e \in Event : Block(e) \in Nat
    BY SwapAssumption, EventType
  <1> HIDE DEF highest
  <1>4. QED BY <1>1, <1>2, <1>3

-----------------------------------------------------------------------------
(***************************************************************************)
(* Calls of the handler.                                                   *)
(***************************************************************************)
\* A call with some events saves some of them once more, and drops others.
Called(events, saved) ==
  /\ saved \subseteq events
  /\ trades' = [e \in Event |-> IF e \in saved THEN trades[e] + 1 ELSE trades[e]]
  /\ dropped \subseteq dropped' /\ dropped' \subseteq dropped \cup events
  /\ faults' \in faults .. MaxFault

\* A call that ends has saved or dropped each of its events.
LEMMA HandlerCalls ==
  ASSUME TypeOK, NEW events, Handler(events)
  PROVE  \E saved : Called(events, saved) /\ events \ saved \subseteq dropped'
  <1>1. PICK failed \in SUBSET events :
          /\ IF failed = {} THEN faults' = faults ELSE Spend
          /\ dropped' = dropped \cup failed
          /\ Create(events \ failed)
    BY DEF Handler
  <1>2. faults' \in faults .. MaxFault
    BY <1>1, SwapAssumption DEF Spend, TypeOK
  <1>3. Called(events, events \ failed)
    BY <1>1, <1>2 DEF Create, Called
  <1>4. events \ (events \ failed) \subseteq dropped'
    BY <1>1
  <1>5. QED BY <1>2, <1>3, <1>4

\* A call that fails has saved all of its events or none.
LEMMA HandlerThrowsCalls ==
  ASSUME TypeOK, NEW events, HandlerThrows(events)
  PROVE  faults' = faults + 1 /\ \E saved \in {events, {}} : Called(events, saved)
  <1>1. faults' = faults + 1 /\ faults' \in faults .. MaxFault
    BY SwapAssumption DEF HandlerThrows, Spend, TypeOK
  <1>2. CASE Create(events)
    <2>1. Called(events, events)
      BY <1>1, <1>2 DEF HandlerThrows, Create, Called
    <2>2. QED BY <1>1, <2>1
  <1>3. CASE UNCHANGED trades
    <2>1. Called(events, {})
      BY <1>1, <1>3 DEF HandlerThrows, Called, TypeOK
    <2>2. QED BY <1>1, <2>1
  <1>4. QED BY <1>2, <1>3 DEF HandlerThrows

\* A call adds at most one trade to each event, and takes none away.
LEMMA CalledTrades ==
  ASSUME TypeOK, NEW events \in SUBSET Event, NEW saved, Called(events, saved)
  PROVE  /\ trades' \in [Event -> Nat]
         /\ dropped' \subseteq Event
         /\ \A e \in Event : /\ trades'[e] \in trades[e] .. trades[e] + 1
                             /\ e \in saved => trades'[e] = trades[e] + 1
                             /\ e \notin saved => trades'[e] = trades[e]
  <1>1. \A e \in Event : trades[e] \in Nat
    BY DEF TypeOK
  <1>2. \A e \in Event : trades'[e] = IF e \in saved THEN trades[e] + 1 ELSE trades[e]
    BY DEF Called
  <1>3. trades' \in [Event -> Nat]
    BY <1>1 DEF Called
  <1>4. dropped' \subseteq Event
    BY DEF Called, TypeOK
  <1>5. QED BY <1>1, <1>2, <1>3, <1>4

-----------------------------------------------------------------------------
(***************************************************************************)
(* The inductive invariant.                                                *)
(***************************************************************************)
\* What a process has in hand are rows it has read, of its range, each once.
RowsRead ==
  /\ rows \subseteq {<<"file", n>> : n \in 1 .. cursor}
  /\ \A n \in DOMAIN File : <<"file", n>> \in rows => InRange(n)
  /\ backfill \in {"down", "finished"} => rows = {}
  /\ backfill = "reading" => Cardinality(rows) < BackfillBatch

\* What lies ahead of the live process and above its snapshot was saved only by
\* calls that failed.
AheadFresh ==
  consumer # "down" =>
    \A n \in DOMAIN Topic :
       n > position /\ Topic[n] > startSnapshot => trades[<<"topic", n>>] <= thrown

\* What lies ahead of the backfill was never saved, what is in the buffer only
\* by the first of its two calls.
RowsFresh ==
  backfill \in {"reading", "first", "second"} =>
    \A n \in DOMAIN File :
       /\ n > cursor /\ InRange(n) => trades[<<"file", n>>] = 0
       /\ <<"file", n>> \in rows =>
            trades[<<"file", n>>] <= IF backfill = "second" THEN 1 ELSE 0

\* An event was saved, its protocol failed, or it was overtaken.
Settled(n) == \/ Saved(<<"topic", n>>)
              \/ <<"topic", n>> \in dropped
              \/ Overtaken(n)

\* So it is with every event that the process has passed, and with every event
\* before one that is saved: the group may be set back to it.
PassedSettled ==
  /\ \A n \in 1 .. position : Settled(n)
  /\ \A m, n \in DOMAIN Topic : n < m /\ Saved(<<"topic", m>>) => Settled(n)

\* The snapshot is LATEST_BACKFILL or the block of a trade.
SnapshotSaved ==
  \/ startSnapshot = First
  \/ \E e \in Event : Saved(e) /\ Block(e) = startSnapshot

\* The rows that the backfill has read were saved, dropped, or are in hand.
ReadSettled ==
  backfill \in {"reading", "first", "second"} =>
    \A n \in DOMAIN File :
       n <= cursor /\ InRange(n) => \/ Saved(<<"file", n>>)
                                   \/ <<"file", n>> \in dropped
                                   \/ <<"file", n>> \in rows

Inv ==
  /\ TypeOK /\ RowsRead
  /\ AheadFresh /\ RestartsAddNoCopies
  /\ RowsFresh /\ RerunsAddNoCopies
  /\ SnapshotSaved /\ PassedSettled
  /\ ReadSettled /\ TailBounded
-----------------------------------------------------------------------------
(***************************************************************************)
(* Facts that every step needs.                                            *)
(***************************************************************************)
\* The lengths of the topic and the file, and the blocks in them.
LEMMA InputType ==
  /\ Len(Topic) \in Nat /\ DOMAIN Topic = 1 .. Len(Topic)
  /\ Len(File) \in Nat /\ DOMAIN File = 1 .. Len(File)
  /\ \A n \in DOMAIN Topic : Topic[n] \in Nat /\ <<"topic", n>> \in Event
  /\ \A n \in DOMAIN File : File[n] \in Nat /\ <<"file", n>> \in Event
  BY SwapAssumption, LenProperties, ElementOfSeq DEF Event

\* A batch holds events of the topic ahead of the process, above its snapshot.
LEMMA BatchType ==
  ASSUME TypeOK
  PROVE  /\ Batch \in SUBSET Event
         /\ \A n \in DOMAIN Topic :
              <<"topic", n>> \in Batch <=> /\ position < n /\ n <= fetched
                                          /\ Topic[n] > startSnapshot
         /\ \A n : <<"file", n>> \notin Batch
  <1>1. position \in Nat /\ fetched \in Nat /\ fetched <= Len(Topic) /\ position <= fetched
    BY InputType DEF TypeOK
  <1>2. \A m \in (position + 1) .. fetched : m \in DOMAIN Topic
    BY <1>1, InputType
  <1>3. Batch \in SUBSET Event
    BY <1>2, InputType DEF Batch
  <1>4. \A n \in DOMAIN Topic : n \in (position + 1) .. fetched <=> position < n /\ n <= fetched
    BY <1>1, InputType
  <1>5. ASSUME NEW n \in DOMAIN Topic
        PROVE  <<"topic", n>> \in Batch <=> /\ n \in (position + 1) .. fetched
                                           /\ Topic[n] > startSnapshot
    BY DEF Batch
  <1>6. \A n : <<"file", n>> \notin Batch
    BY DEF Batch
  <1>7. QED BY <1>3, <1>4, <1>5, <1>6

\* The buffer is a finite set of events of the file.
LEMMA RowsType ==
  ASSUME TypeOK
  PROVE  rows \in SUBSET Event /\ IsFiniteSet(rows)
  BY EventFinite, FS_Subset DEF TypeOK

\* A step calls the handler or leaves the table as it is.
LEMMA StepKinds ==
  ASSUME TypeOK, [Next]_vars
  PROVE  \/ UNCHANGED vars
         \/ StartLive \/ Fetch \/ Commit \/ Rejoin \/ StopLive
         \/ EachBatch \/ EachBatchThrows
         \/ StartBackfill \/ ReadRow \/ EndOfFile \/ StopBackfill
         \/ ProcessData \/ ProcessDataThrows
  BY DEF Next, LiveStep, FetchNothing

\* Trades are only added, and dropped events stay dropped.
Grows ==
  /\ trades' \in [Event -> Nat] /\ dropped' \subseteq Event
  /\ dropped \subseteq dropped'
  /\ \A e \in Event : trades[e] <= trades'[e]

\* No step takes a trade away, or makes a dropped event one that is not.
LEMMA TableGrows ==
  ASSUME TypeOK, [Next]_vars
  PROVE  /\ trades' \in [Event -> Nat] /\ dropped' \subseteq Event
         /\ dropped \subseteq dropped'
         /\ \A e \in Event : trades[e] <= trades'[e] /\ (Saved(e) => Saved(e)')
  <1>1. \A e \in Event : trades[e] \in Nat
    BY DEF TypeOK
  <1>2. ASSUME NEW events \in SUBSET Event, NEW saved, Called(events, saved)
        PROVE  Grows
    <2>1. /\ trades' \in [Event -> Nat] /\ dropped' \subseteq Event
          /\ \A e \in Event : trades'[e] \in trades[e] .. trades[e] + 1
      BY <1>2, CalledTrades
    <2>2. QED BY <1>1, <1>2, <2>1 DEF Called, Grows
  <1>3. ASSUME UNCHANGED table PROVE Grows
    BY <1>1, <1>3 DEF table, TypeOK, Grows
  <1>4. ASSUME EachBatch PROVE Grows
    <2>1. PICK saved : Called(Batch, saved)
      BY <1>4, HandlerCalls DEF EachBatch
    <2>2. QED BY <1>2, <2>1, BatchType
  <1>5. ASSUME EachBatchThrows PROVE Grows
    <2>1. PICK saved : Called(Batch, saved)
      BY <1>5, HandlerThrowsCalls DEF EachBatchThrows
    <2>2. QED BY <1>2, <2>1, BatchType
  <1>6. ASSUME ProcessData PROVE Grows
    <2>1. PICK saved : Called(rows, saved)
      BY <1>6, HandlerCalls DEF ProcessData
    <2>2. QED BY <1>2, <2>1, RowsType
  <1>7. ASSUME ProcessDataThrows PROVE Grows
    <2>1. PICK saved : Called(rows, saved)
      BY <1>7, HandlerThrowsCalls DEF ProcessDataThrows
    <2>2. QED BY <1>2, <2>1, RowsType
  <1>8. UNCHANGED table \/ EachBatch \/ EachBatchThrows \/ ProcessData \/ ProcessDataThrows
    <2>1. UNCHANGED vars => UNCHANGED table
      BY DEF vars
    <2>2. QED BY <2>1, StepKinds DEF StartLive, Fetch, Commit, Rejoin, StopLive, StartBackfill,
                                     ReadRow, EndOfFile, StopBackfill
  <1>9. Grows
    BY <1>3, <1>4, <1>5, <1>6, <1>7, <1>8
  <1>10. \A e \in Event : Saved(e) => Saved(e)'
    BY <1>1, <1>9 DEF Grows, Saved
  <1>11. QED BY <1>9, <1>10 DEF Grows

-----------------------------------------------------------------------------
(***************************************************************************)
(* Types, and what is in the buffer.                                       *)
(***************************************************************************)
LiveTypeOK ==
  /\ consumer \in {"down", "polling", "handling"}
  /\ startSnapshot \in Nat
  /\ {committed, position, fetched} \subseteq 0 .. Len(Topic)
  /\ committed <= position /\ position <= fetched

ReaderTypeOK ==
  /\ backfill \in {"down", "reading", "first", "second", "finished"}
  /\ from \in Nat
  /\ cursor \in 0 .. Len(File)
  /\ rows \subseteq Event
  /\ Cardinality(rows) <= BackfillBatch

\* Every step keeps the types.
LEMMA TypeStep ==
  ASSUME TypeOK, RowsRead, [Next]_vars
  PROVE  TypeOK'
  <1>1. LiveTypeOK' /\ thrown' \in 0 .. faults' /\ faults' \in 0 .. MaxFault
    <2> USE InputType, SwapAssumption DEF LiveTypeOK, TypeOK
    <2>1. CASE UNCHANGED live /\ faults' \in faults .. MaxFault
      BY <2>1 DEF live
    <2>2. CASE StartLive
      BY <2>2, LatestIndexed DEF StartLive, table
    <2>3. CASE Fetch
      BY <2>3 DEF Fetch, table
    <2>4. CASE Commit
      BY <2>4 DEF Commit, table
    <2>5. CASE Rejoin
      BY <2>5 DEF Rejoin, Spend, table
    <2>6. CASE StopLive
      BY <2>6 DEF StopLive, Spend, table
    <2>7. CASE EachBatch
      <3>1. PICK saved : Called(Batch, saved)
        BY <2>7, HandlerCalls DEF EachBatch
      <3>2. QED BY <2>7, <3>1 DEF EachBatch, Called
    <2>8. CASE EachBatchThrows
      <3>1. faults' = faults + 1 /\ \E saved : Called(Batch, saved)
        BY <2>8, HandlerThrowsCalls DEF EachBatchThrows
      <3>2. QED BY <2>8, <3>1 DEF EachBatchThrows, Called
    <2>9. CASE ProcessData
      <3>1. PICK saved : Called(rows, saved)
        BY <2>9, HandlerCalls DEF ProcessData
      <3>2. QED BY <2>1, <2>9, <3>1 DEF ProcessData, Called
    <2>10. CASE ProcessDataThrows
      <3>1. PICK saved : Called(rows, saved)
        BY <2>10, HandlerThrowsCalls DEF ProcessDataThrows
      <3>2. QED BY <2>1, <2>10, <3>1 DEF ProcessDataThrows, Called
    <2>11. CASE StartBackfill \/ ReadRow \/ EndOfFile \/ UNCHANGED vars
      <3>1. UNCHANGED live /\ faults' = faults
        BY <2>11 DEF StartBackfill, ReadRow, EndOfFile, vars
      <3>2. QED BY <2>1, <3>1
    <2>12. CASE StopBackfill
      BY <2>1, <2>12 DEF StopBackfill, Spend
    <2>13. QED BY <2>2, <2>3, <2>4, <2>5, <2>6, <2>7, <2>8, <2>9, <2>10, <2>11, <2>12, StepKinds
  <1>2. ReaderTypeOK'
    <2> USE DEF ReaderTypeOK, TypeOK
    <2>0. BackfillBatch \in Nat /\ Checkpoint \in Int
      BY SwapAssumption
    <2>1. ASSUME UNCHANGED reader PROVE ReaderTypeOK'
      BY <2>1 DEF reader
    <2>2. ASSUME StartBackfill PROVE ReaderTypeOK'
      <3>1. Cardinality(rows') = 0
        BY <2>2, FS_EmptySet DEF StartBackfill
      <3>2. HighestBelow(Checkpoint) \in Nat
        BY <2>0, HighestBelowSaved
      <3>3. QED BY <2>0, <2>2, <3>1, <3>2 DEF StartBackfill
    <2>3. ASSUME ReadRow PROVE ReaderTypeOK'
      <3>1. cursor + 1 \in DOMAIN File
        BY <2>3, InputType DEF ReadRow
      <3>2. IsFiniteSet(rows)
        BY RowsType
      <3>3. Cardinality(rows) \in Nat /\ Cardinality(rows) < BackfillBatch
        BY <2>0, <2>3, <3>2, FS_CardinalityType DEF RowsRead, ReadRow
      <3> DEFINE more == <<"file", cursor + 1>>
      <3>4. Cardinality(rows \cup {more}) \in {Cardinality(rows), Cardinality(rows) + 1}
        BY <3>2, FS_AddElement
      <3>5. more \in Event
        BY <3>1, InputType
      <3>6. Cardinality(rows') <= BackfillBatch
        BY <2>0, <2>3, <3>3, <3>4 DEF ReadRow
      <3>7. QED BY <2>0, <2>3, InputType, <3>1, <3>5, <3>6 DEF ReadRow
    <2>4. ASSUME EndOfFile \/ StopBackfill \/ ProcessDataThrows PROVE ReaderTypeOK'
      <3>1. Cardinality(rows') = 0
        BY <2>4, FS_EmptySet DEF EndOfFile, StopBackfill, ProcessDataThrows
      <3>2. QED BY <2>0, <2>4, <3>1 DEF EndOfFile, StopBackfill, ProcessDataThrows
    <2>5. ASSUME ProcessData PROVE ReaderTypeOK'
      <3>1. rows' = {} => Cardinality(rows') = 0
        BY FS_EmptySet
      <3>2. QED BY <2>0, <2>5, <3>1 DEF ProcessData
    <2>6. ASSUME StartLive \/ Fetch \/ Commit \/ Rejoin \/ StopLive \/ EachBatch \/ EachBatchThrows
         PROVE  ReaderTypeOK'
      BY <2>1, <2>6 DEF StartLive, Fetch, Commit, Rejoin, StopLive, EachBatch, EachBatchThrows
    <2>7. QED BY <2>1, <2>2, <2>3, <2>4, <2>5, <2>6, StepKinds DEF vars
  <1>3. QED BY <1>1, <1>2, TableGrows DEF TypeOK, LiveTypeOK, ReaderTypeOK

\* The steps of the live process leave the backfill alone, and the other way round.
LEMMA Apart ==
  /\ StartLive \/ Fetch \/ Commit \/ Rejoin \/ StopLive \/ EachBatch \/ EachBatchThrows
       => UNCHANGED <<backfill, from, cursor, rows>>
  /\ StartBackfill \/ ReadRow \/ EndOfFile \/ StopBackfill \/ ProcessData \/ ProcessDataThrows
       => UNCHANGED <<consumer, startSnapshot, committed, position, fetched, thrown>>
  BY DEF StartLive, Fetch, Commit, Rejoin, StopLive, EachBatch, EachBatchThrows, reader,
         StartBackfill, ReadRow, EndOfFile, StopBackfill, ProcessData, ProcessDataThrows, live

\* The steps that call no handler.
LEMMA Quiet ==
  UNCHANGED vars \/ StartLive \/ Fetch \/ Commit \/ Rejoin \/ StopLive
    \/ StartBackfill \/ ReadRow \/ EndOfFile \/ StopBackfill
  => trades' = trades /\ dropped' = dropped
  BY DEF StartLive, Fetch, Commit, Rejoin, StopLive,
         StartBackfill, ReadRow, EndOfFile, StopBackfill, vars, table

\* What a step of either handler call does to the table.
LEMMA LiveCalls ==
  ASSUME TypeOK, EachBatch \/ EachBatchThrows
  PROVE  \E saved : /\ Called(Batch, saved)
                    /\ EachBatch => Batch \ saved \subseteq dropped'
  BY HandlerCalls, HandlerThrowsCalls DEF EachBatch, EachBatchThrows

\* The same for the handler of the backfill.
LEMMA BackfillCalls ==
  ASSUME TypeOK, ProcessData \/ ProcessDataThrows
  PROVE  \E saved : /\ Called(rows, saved)
                    /\ ProcessData => rows \ saved \subseteq dropped'
  BY HandlerCalls, HandlerThrowsCalls DEF ProcessData, ProcessDataThrows

\* What the backfill has read stays below its cursor.
LEMMA RowsReadStep ==
  ASSUME TypeOK, RowsRead, [Next]_vars
  PROVE  RowsRead'
  <1>1. ASSUME rows' = {} PROVE RowsRead'
    <2>1. Cardinality(rows') = 0 /\ BackfillBatch \in Nat \ {0}
      BY <1>1, FS_EmptySet, SwapAssumption
    <2>2. QED BY <1>1, <2>1 DEF RowsRead
  <1>2. ASSUME UNCHANGED <<backfill, from, cursor, rows>> PROVE RowsRead'
    BY <1>2 DEF RowsRead, InRange
  <1>3. ASSUME ReadRow PROVE RowsRead'
    <2> DEFINE more == <<"file", cursor + 1>>
    <2>1. cursor \in Nat /\ \A n \in 1 .. cursor : n \in 1 .. (cursor + 1)
      BY InputType DEF TypeOK
    <2>2. cursor + 1 \in 1 .. (cursor + 1)
      BY <2>1
    <2>3. rows' \subseteq {<<"file", n>> : n \in 1 .. cursor'}
      BY <1>3, <2>1, <2>2 DEF ReadRow, RowsRead
    <2>4. \A n \in DOMAIN File : InRange(n) <=> InRange(n)'
      BY <1>3 DEF ReadRow, InRange
    <2>5. ASSUME NEW n \in DOMAIN File, <<"file", n>> \in rows' PROVE InRange(n)'
      <3>1. <<"file", n>> \in rows \/ (n = cursor + 1 /\ InRange(n))
        BY <1>3, <2>5 DEF ReadRow, InRange
      <3>2. QED BY <2>4, <3>1 DEF RowsRead
    <2>6. backfill' \in {"reading", "first"}
      BY <1>3 DEF ReadRow
    <2>7. BackfillBatch \in Nat /\ Cardinality(rows') \in Nat
      <3>1. IsFiniteSet(rows')
        BY <1>3, RowsType, FS_AddElement DEF ReadRow
      <3>2. QED BY <3>1, FS_CardinalityType, SwapAssumption
    <2>8. backfill' = "reading" => Cardinality(rows') < BackfillBatch
      BY <1>3, <2>7 DEF ReadRow
    <2>9. QED BY <2>3, <2>5, <2>6, <2>8 DEF RowsRead
  <1>4. ASSUME ProcessData PROVE RowsRead'
    <2>1. CASE rows' = {}
      BY <1>1, <2>1
    <2>2. CASE backfill' = "second" /\ rows' = rows
      BY <1>4, <2>2 DEF ProcessData, RowsRead, InRange
    <2>3. QED BY <1>4, <2>1, <2>2 DEF ProcessData
  <1>5. ASSUME StartBackfill \/ EndOfFile \/ StopBackfill \/ ProcessDataThrows PROVE rows' = {}
    BY <1>5 DEF StartBackfill, EndOfFile, StopBackfill, ProcessDataThrows
  <1>6. UNCHANGED vars => UNCHANGED <<backfill, from, cursor, rows>>
    BY DEF vars, reader
  <1>7. QED BY <1>1, <1>2, <1>3, <1>4, <1>5, <1>6, StepKinds, Apart

-----------------------------------------------------------------------------
(***************************************************************************)
(* Copies.                                                                 *)
(***************************************************************************)
\* Handler calls of the backfill save no event of the topic, and those of the
\* live process no row of the file.
LEMMA LiveCopiesStep ==
  ASSUME TypeOK, TypeOK', RowsRead, AheadFresh, RestartsAddNoCopies, [Next]_vars
  PROVE  AheadFresh' /\ RestartsAddNoCopies'
  <1> DEFINE copies(n)  == trades[<<"topic", n>>]
             copies2(n) == trades'[<<"topic", n>>]
  <1>0. \A e \in Event : trades[e] \in Nat /\ trades'[e] \in Nat
    BY DEF TypeOK
  <1>1. ASSUME NEW n \in DOMAIN Topic
        PROVE  /\ <<"topic", n>> \in Event /\ copies(n) \in Nat /\ copies2(n) \in Nat
               /\ n \in Nat /\ Topic[n] \in Nat
    <2>1. <<"topic", n>> \in Event /\ n \in Nat /\ Topic[n] \in Nat
      BY InputType
    <2>2. QED BY <1>0, <2>1
  <1>2. /\ position \in Nat /\ thrown \in Nat /\ startSnapshot \in Nat /\ fetched \in Nat
        /\ position' \in Nat /\ thrown' \in Nat /\ startSnapshot' \in Nat
    BY InputType DEF TypeOK
  <1>4. CASE StartLive
    <2>1. ASSUME NEW n \in DOMAIN Topic, Topic[n] > startSnapshot'
          PROVE  copies(n) = 0
      <3>1. Block(<<"topic", n>>) = Topic[n]
        BY DEF Block
      <3>2. GetLatestIndexed = startSnapshot' /\ (Saved(<<"topic", n>>) => Topic[n] <= GetLatestIndexed)
        BY <1>1, <1>4, <3>1, LatestIndexed DEF StartLive
      <3>3. QED BY <1>1, <1>2, <2>1, <3>2 DEF Saved
    <2>2. trades' = trades /\ thrown' = thrown
      BY <1>4, Quiet DEF StartLive
    <2>3. AheadFresh'
      BY <1>2, <2>1, <2>2 DEF AheadFresh
    <2>4. QED BY <2>2, <2>3 DEF RestartsAddNoCopies
  <1>5. CASE Rejoin
    <2>1. trades' = trades /\ thrown' = thrown + 1
      BY <1>5 DEF Rejoin, table
    <2>2. ASSUME NEW n \in DOMAIN Topic PROVE copies2(n) <= thrown' /\ copies2(n) <= 1 + thrown'
      <3>1. copies2(n) = copies(n) /\ copies(n) <= 1 + thrown
        BY <2>1 DEF RestartsAddNoCopies
      <3>2. QED BY <1>1, <1>2, <2>1, <3>1
    <2>3. QED BY <2>2 DEF AheadFresh, RestartsAddNoCopies
  <1>6. CASE StopLive
    BY <1>6 DEF StopLive, table, AheadFresh, RestartsAddNoCopies
  <1>7. CASE Fetch \/ Commit
    <2>1. /\ trades' = trades /\ thrown' = thrown /\ position' = position
          /\ startSnapshot' = startSnapshot /\ consumer # "down"
      BY <1>7, Quiet DEF Fetch, Commit
    <2>2. QED BY <2>1 DEF AheadFresh, RestartsAddNoCopies
  <1>8. ASSUME EachBatch \/ EachBatchThrows
        PROVE  \A n \in DOMAIN Topic :
                  /\ copies2(n) <= 1 + thrown
                  /\ n > fetched /\ Topic[n] > startSnapshot => copies2(n) <= thrown
    <2>1. PICK saved : Called(Batch, saved)
      BY <1>8, LiveCalls
    <2>2. Batch \in SUBSET Event /\ saved \subseteq Batch
      BY <2>1, BatchType DEF Called
    <2>3. consumer = "handling"
      BY <1>8 DEF EachBatch, EachBatchThrows
    <2>4. TAKE n \in DOMAIN Topic
    <2>5. /\ copies2(n) \in copies(n) .. copies(n) + 1
          /\ <<"topic", n>> \notin saved => copies2(n) = copies(n)
      BY <1>1, <2>1, <2>2, CalledTrades
    <2>6. CASE <<"topic", n>> \in Batch
      <3>1. position < n /\ n <= fetched /\ Topic[n] > startSnapshot
        BY <2>6, BatchType
      <3>2. copies(n) <= thrown
        BY <1>1, <1>2, <2>3, <3>1 DEF AheadFresh
      <3>3. QED BY <1>1, <1>2, <2>5, <3>1, <3>2
    <2>7. CASE <<"topic", n>> \notin Batch
      <3>1. copies2(n) = copies(n)
        BY <2>2, <2>5, <2>7
      <3>2. n > fetched => n > position
        <4>1. n \in Nat /\ position <= fetched
          BY <1>1 DEF TypeOK
        <4>2. QED BY <1>2, <4>1
      <3>3. QED BY <1>1, <1>2, <2>3, <3>1, <3>2 DEF AheadFresh, RestartsAddNoCopies
    <2>8. QED BY <2>6, <2>7
  <1>9. CASE EachBatch
    <2>1. position' = fetched /\ startSnapshot' = startSnapshot /\ thrown' = thrown
      BY <1>9 DEF EachBatch
    <2>2. QED BY <1>8, <1>9, <2>1 DEF AheadFresh, RestartsAddNoCopies
  <1>10. CASE EachBatchThrows
    <2>1. thrown' = thrown + 1
      BY <1>10 DEF EachBatchThrows
    <2>2. ASSUME NEW n \in DOMAIN Topic PROVE copies2(n) <= thrown' /\ copies2(n) <= 1 + thrown'
      <3>1. copies2(n) \in Nat /\ copies2(n) <= 1 + thrown
        BY <1>1, <1>8, <1>10
      <3>2. QED BY <1>2, <2>1, <3>1
    <2>3. QED BY <2>2 DEF AheadFresh, RestartsAddNoCopies
  <1>11. CASE \/ StartBackfill \/ ReadRow \/ EndOfFile \/ StopBackfill
              \/ ProcessData \/ ProcessDataThrows \/ UNCHANGED vars
    <2>1. UNCHANGED <<consumer, startSnapshot, committed, position, fetched, thrown>>
      BY <1>11, Apart DEF vars, live
    <2>2. \A n \in DOMAIN Topic : copies2(n) = copies(n)
      <3>1. CASE trades' = trades
        BY <3>1
      <3>2. CASE ProcessData \/ ProcessDataThrows
        <4>1. PICK saved : Called(rows, saved)
          BY <3>2, BackfillCalls
        <4>2. rows \in SUBSET Event /\ saved \subseteq rows
          BY <4>1, RowsType DEF Called
        <4>3. \A n : <<"topic", n>> \notin rows
          BY DEF RowsRead
        <4>4. QED BY <1>1, <4>1, <4>2, <4>3, CalledTrades
      <3>3. QED BY <1>11, <3>1, <3>2, Quiet
    <2>3. QED BY <2>1, <2>2 DEF AheadFresh, RestartsAddNoCopies
  <1>12. QED BY <1>4, <1>5, <1>6, <1>7, <1>9, <1>10, <1>11, StepKinds

\* A run of the backfill begins above what was saved of its range, and calls the
\* handler twice with each row.
LEMMA FileCopiesStep ==
  ASSUME TypeOK, TypeOK', RowsRead, RowsFresh, RerunsAddNoCopies, [Next]_vars
  PROVE  RowsFresh' /\ RerunsAddNoCopies'
  <1> DEFINE copies(n)  == trades[<<"file", n>>]
             copies2(n) == trades'[<<"file", n>>]
  <1>0. \A e \in Event : trades[e] \in Nat /\ trades'[e] \in Nat
    BY DEF TypeOK
  <1>1. ASSUME NEW n \in DOMAIN File
        PROVE  /\ <<"file", n>> \in Event /\ copies(n) \in Nat /\ copies2(n) \in Nat
               /\ n \in Nat /\ File[n] \in Nat
    <2>1. <<"file", n>> \in Event /\ n \in Nat /\ File[n] \in Nat
      BY InputType
    <2>2. QED BY <1>0, <2>1
  <1>2. cursor \in Nat /\ from \in Nat /\ cursor' \in Nat
    BY InputType DEF TypeOK
  <1>3. CASE UNCHANGED vars
    BY <1>3 DEF vars, table, reader, RowsFresh, RerunsAddNoCopies, InRange
  <1>4. CASE StartLive \/ Fetch \/ Commit \/ Rejoin \/ StopLive \/ EachBatch \/ EachBatchThrows
    <2>1. UNCHANGED <<backfill, from, cursor, rows>>
      BY <1>4, Apart
    <2>2. \A n \in DOMAIN File : copies2(n) = copies(n)
      <3>1. CASE trades' = trades
        BY <3>1
      <3>2. CASE EachBatch \/ EachBatchThrows
        <4>1. PICK saved : Called(Batch, saved)
          BY <3>2, LiveCalls
        <4>2. Batch \in SUBSET Event /\ saved \subseteq Batch /\ \A n : <<"file", n>> \notin Batch
          BY <4>1, BatchType DEF Called
        <4>3. QED BY <1>1, <4>1, <4>2, CalledTrades
      <3>3. QED BY <1>4, <3>1, <3>2, Quiet
    <2>3. QED BY <2>1, <2>2 DEF RowsFresh, RerunsAddNoCopies, InRange
  <1>5. CASE StartBackfill
    <2>1. trades' = trades /\ cursor' = 0 /\ rows' = {} /\ from' = HighestBelow(Checkpoint)
      BY <1>5, Quiet DEF StartBackfill
    <2>2. ASSUME NEW n \in DOMAIN File, InRange(n)' PROVE copies(n) = 0
      <3>1. from' < File[n] /\ File[n] < Checkpoint /\ Block(<<"file", n>>) = File[n]
        BY <2>2 DEF InRange, Block
      <3>2. /\ HighestBelow(Checkpoint) \in Nat
            /\ Saved(<<"file", n>>) => File[n] <= HighestBelow(Checkpoint)
        BY <1>1, <3>1, HighestBelowSaved, SwapAssumption
      <3>3. QED BY <1>1, <2>1, <3>1, <3>2 DEF Saved
    <2>3. QED BY <2>1, <2>2 DEF RowsFresh, RerunsAddNoCopies
  <1>6. CASE ReadRow
    <2>1. /\ trades' = trades /\ from' = from /\ cursor' = cursor + 1
          /\ rows' \subseteq rows \cup {<<"file", cursor + 1>>}
          /\ <<"file", cursor + 1>> \in rows' => <<"file", cursor + 1>> \in rows \/ InRange(cursor + 1)
          /\ backfill = "reading" /\ backfill' # "second" /\ cursor < Len(File)
      BY <1>6, Quiet DEF ReadRow, InRange
    <2>2. cursor + 1 \in DOMAIN File
      BY <1>2, <2>1, InputType
    <2>3. ASSUME NEW n \in DOMAIN File, <<"file", n>> \in rows' PROVE copies(n) <= 0
      <3>1. <<"file", n>> \in rows \/ (n = cursor + 1 /\ InRange(n))
        BY <2>1, <2>3
      <3>2. QED BY <1>1, <1>2, <2>1, <3>1 DEF RowsFresh
    <2>4. \A n \in DOMAIN File : n > cursor' => n > cursor
      BY <1>1, <1>2, <2>1
    <2>5. \A n \in DOMAIN File : InRange(n)' = InRange(n)
      BY <2>1 DEF InRange
    <2>6. QED BY <2>1, <2>3, <2>4, <2>5 DEF RowsFresh, RerunsAddNoCopies
  <1>7. CASE EndOfFile \/ StopBackfill
    BY <1>7, Quiet DEF EndOfFile, StopBackfill, RowsFresh, RerunsAddNoCopies
  <1>8. ASSUME ProcessData \/ ProcessDataThrows
        PROVE  \A n \in DOMAIN File :
                  /\ copies2(n) <= 2
                  /\ <<"file", n>> \notin rows => copies2(n) = copies(n)
                  /\ <<"file", n>> \in rows /\ backfill = "first" => copies2(n) <= 1
    <2>1. PICK saved : Called(rows, saved)
      BY <1>8, BackfillCalls
    <2>2. rows \in SUBSET Event /\ saved \subseteq rows
      BY <2>1, RowsType DEF Called
    <2>3. backfill \in {"first", "second"}
      BY <1>8 DEF ProcessData, ProcessDataThrows
    <2>4. TAKE n \in DOMAIN File
    <2>5. /\ copies2(n) \in copies(n) .. copies(n) + 1
          /\ <<"file", n>> \notin saved => copies2(n) = copies(n)
      BY <1>1, <2>1, <2>2, CalledTrades
    <2>6. CASE <<"file", n>> \in rows
      <3>1. copies(n) <= IF backfill = "second" THEN 1 ELSE 0
        BY <2>3, <2>6 DEF RowsFresh
      <3>2. QED BY <1>1, <2>3, <2>5, <2>6, <3>1
    <2>7. CASE <<"file", n>> \notin rows
      <3>1. copies2(n) = copies(n) /\ copies(n) <= 2
        BY <2>2, <2>5, <2>7 DEF RerunsAddNoCopies
      <3>2. QED BY <2>7, <3>1
    <2>8. QED BY <2>6, <2>7
  <1>9. CASE ProcessDataThrows
    <2>1. backfill' = "down"
      BY <1>9 DEF ProcessDataThrows
    <2>2. QED BY <1>8, <1>9, <2>1 DEF RowsFresh, RerunsAddNoCopies
  <1>10. CASE ProcessData
    <2>1. /\ from' = from /\ cursor' = cursor /\ backfill \in {"first", "second"}
          /\ \/ backfill = "first" /\ backfill' = "second" /\ rows' = rows
             \/ backfill' = "reading" /\ rows' = {}
      BY <1>10 DEF ProcessData
    <2>2. \A n \in DOMAIN File : n > cursor => <<"file", n>> \notin rows
      BY <1>1, <1>2 DEF RowsRead
    <2>3. ASSUME NEW n \in DOMAIN File, n > cursor', InRange(n)' PROVE copies2(n) = 0
      <3>1. n > cursor /\ InRange(n)
        BY <2>1, <2>3 DEF InRange
      <3>2. QED BY <1>8, <1>10, <2>1, <2>2, <3>1 DEF RowsFresh
    <2>4. RowsFresh'
      BY <1>8, <1>10, <2>1, <2>3 DEF RowsFresh
    <2>5. QED BY <1>8, <1>10, <2>4 DEF RerunsAddNoCopies
  <1>11. QED BY <1>3, <1>4, <1>5, <1>6, <1>7, <1>9, <1>10, StepKinds
-----------------------------------------------------------------------------
(***************************************************************************)
(* Losses.                                                                 *)
(***************************************************************************)
\* What is settled stays so.
LEMMA SettledStays ==
  ASSUME TypeOK, [Next]_vars, NEW n \in DOMAIN Topic, Settled(n)
  PROVE  Settled(n)'
  <1>1. <<"topic", n>> \in Event
    BY InputType
  <1>2. \A e \in Event : Saved(e) => Saved(e)'
    BY TableGrows
  <1>3. dropped \subseteq dropped'
    BY TableGrows
  <1>4. Overtaken(n) => Overtaken(n)'
    BY <1>2 DEF Overtaken
  <1>5. QED BY <1>1, <1>2, <1>3, <1>4 DEF Settled

\* An event that the process skips, because its block is not above the snapshot,
\* is settled: the snapshot is a saved block, and if it was saved from this offset
\* or a later one, the event is settled already.
LEMMA SkippedSettled ==
  ASSUME TypeOK, SnapshotSaved, PassedSettled, NEW n \in DOMAIN Topic,
         Topic[n] <= startSnapshot
  PROVE  Settled(n)
  <1>1. n \in Nat /\ Topic[n] \in Nat /\ First \in Nat
    BY InputType, SwapAssumption
  <1>2. CASE startSnapshot = First
    BY <1>2 DEF Settled, Overtaken
  <1>3. CASE \E e \in Event : Saved(e) /\ Block(e) = startSnapshot
    <2>1. PICK e \in Event : Saved(e) /\ Block(e) = startSnapshot
      BY <1>3
    <2>2. Block(e) >= Topic[n]
      BY <1>1, <2>1, EventType
    <2>3. CASE \E m \in DOMAIN File : e = <<"file", m>>
      <3>1. e[1] # "topic"
        BY <2>3
      <3>2. QED BY <2>1, <2>2, <3>1 DEF Settled, Overtaken
    <2>4. CASE \E m \in DOMAIN Topic : e = <<"topic", m>>
      <3>1. PICK m \in DOMAIN Topic : e = <<"topic", m>>
        BY <2>4
      <3>2. m \in Nat /\ e[2] = m
        BY <3>1, InputType
      <3>3. CASE m < n
        BY <2>1, <2>2, <3>2, <3>3 DEF Settled, Overtaken
      <3>4. CASE m = n
        BY <2>1, <3>1, <3>4 DEF Settled
      <3>5. CASE n < m
        BY <2>1, <3>1, <3>5 DEF PassedSettled
      <3>6. QED BY <1>1, <3>2, <3>3, <3>4, <3>5
    <2>5. QED BY <2>3, <2>4, EventType
  <1>4. QED BY <1>2, <1>3 DEF SnapshotSaved

\* The snapshot of the latest indexed trade stays one of a saved trade.
LEMMA SnapshotSavedStep ==
  ASSUME TypeOK, SnapshotSaved, [Next]_vars
  PROVE  SnapshotSaved'
  <1>1. ASSUME startSnapshot' = startSnapshot PROVE SnapshotSaved'
    <2>1. \A e \in Event : Saved(e) => Saved(e)'
      BY TableGrows
    <2>2. QED BY <1>1, <2>1 DEF SnapshotSaved
  <1>2. ASSUME StartLive PROVE SnapshotSaved'
    <2>1. startSnapshot' = GetLatestIndexed /\ trades' = trades
      BY <1>2 DEF StartLive, table
    <2>2. QED BY <2>1, LatestIndexed DEF SnapshotSaved, Saved
  <1>3. StartLive \/ startSnapshot' = startSnapshot
    BY StepKinds, Apart DEF Fetch, Commit, Rejoin, StopLive, EachBatch, EachBatchThrows,
                            vars, live
  <1>4. QED BY <1>1, <1>2, <1>3

\* What the consumer has passed was saved, dropped or skipped.
LEMMA PassedSettledStep ==
  ASSUME TypeOK, TypeOK', RowsRead, SnapshotSaved, PassedSettled, [Next]_vars
  PROVE  PassedSettled'
  <1> DEFINE Passed  == \A n \in DOMAIN Topic : n <= position' => Settled(n)'
             Earlier == \A m, n \in DOMAIN Topic :
                           n < m /\ Saved(<<"topic", m>>)' => Settled(n)'
  <1>1. /\ committed \in Nat /\ position \in Nat /\ fetched \in Nat /\ position' \in Nat
        /\ committed <= position /\ position <= fetched
    BY InputType DEF TypeOK
  <1>2. ASSUME NEW n \in DOMAIN Topic
        PROVE  n \in Nat /\ n >= 1 /\ Topic[n] \in Nat /\ <<"topic", n>> \in Event
    BY InputType
  <1>3. ASSUME NEW n \in DOMAIN Topic, n <= position PROVE Settled(n)
    <2>1. n \in 1 .. position
      <3>1. n \in Nat /\ n >= 1
        BY <1>2
      <3>2. QED BY <1>1, <1>3, <3>1
    <2>2. QED BY <2>1 DEF PassedSettled
  <1>4. \A n \in DOMAIN Topic : Settled(n) => Settled(n)'
    BY SettledStays
  <1>5. ASSUME Passed, Earlier PROVE PassedSettled'
    <2>1. \A n \in 1 .. position' : n \in DOMAIN Topic /\ n <= position'
      BY InputType DEF TypeOK
    <2>2. QED BY <1>5, <2>1 DEF PassedSettled
  \* Steps that save no event of the topic and do not move ahead.
  <1>6. ASSUME \A n \in DOMAIN Topic : Saved(<<"topic", n>>)' => Saved(<<"topic", n>>),
               position' <= position
        PROVE  Passed /\ Earlier
    <2>1. ASSUME NEW n \in DOMAIN Topic, n <= position' PROVE n <= position
      <3>1. n \in Nat
        BY <1>2
      <3>2. QED BY <1>1, <1>6, <2>1, <3>1
    <2>2. Passed
      BY <1>3, <1>4, <2>1
    <2>3. Earlier
      BY <1>4, <1>6 DEF PassedSettled
    <2>4. QED BY <2>2, <2>3
  <1>7. ASSUME \/ StartLive \/ Fetch \/ Commit \/ Rejoin \/ StopLive \/ UNCHANGED vars
               \/ StartBackfill \/ ReadRow \/ EndOfFile \/ StopBackfill
        PROVE  Passed /\ Earlier
    <2>1. trades' = trades
      BY <1>7, Quiet
    <2>2. position' \in {position, committed}
      BY <1>7, Apart DEF StartLive, Fetch, Commit, Rejoin, StopLive, vars, live
    <2>3. position' <= position
      BY <1>1, <2>2
    <2>4. QED BY <1>6, <2>1, <2>3 DEF Saved
  <1>8. ASSUME ProcessData \/ ProcessDataThrows PROVE Passed /\ Earlier
    <2>1. position' = position
      BY <1>8, Apart
    <2>2. PICK saved : Called(rows, saved)
      BY <1>8, BackfillCalls
    <2>3. rows \in SUBSET Event /\ saved \subseteq rows /\ \A n : <<"topic", n>> \notin rows
      BY <2>2, RowsType DEF Called, RowsRead
    <2>4. \A n \in DOMAIN Topic : trades'[<<"topic", n>>] = trades[<<"topic", n>>]
      BY <1>2, <2>2, <2>3, CalledTrades
    <2>5. position' <= position
      BY <1>1, <2>1
    <2>6. QED BY <1>6, <2>4, <2>5 DEF Saved
  \* What a batch saves, and what it skips.
  <1>9. ASSUME NEW saved, Called(Batch, saved)
        PROVE  \A n \in DOMAIN Topic :
                  /\ <<"topic", n>> \in saved => Saved(<<"topic", n>>)'
                  /\ Saved(<<"topic", n>>)' => Saved(<<"topic", n>>) \/ <<"topic", n>> \in Batch
    <2>1. Batch \in SUBSET Event /\ saved \subseteq Batch
      BY <1>9, BatchType DEF Called
    <2>2. TAKE n \in DOMAIN Topic
    <2>3. /\ <<"topic", n>> \in Event /\ trades[<<"topic", n>>] \in Nat
      BY <1>2 DEF TypeOK
    <2>4. /\ <<"topic", n>> \in saved => trades'[<<"topic", n>>] = trades[<<"topic", n>>] + 1
          /\ <<"topic", n>> \notin saved => trades'[<<"topic", n>>] = trades[<<"topic", n>>]
      BY <1>9, <2>1, <2>3, CalledTrades
    <2>5. QED BY <2>1, <2>3, <2>4 DEF Saved
  <1>10. ASSUME NEW n \in DOMAIN Topic, n <= fetched, <<"topic", n>> \notin Batch
         PROVE  Settled(n)'
    <2>1. n <= position \/ Topic[n] <= startSnapshot
      <3>1. ~(position < n /\ Topic[n] > startSnapshot)
        BY <1>10, BatchType
      <3>2. n \in Nat /\ Topic[n] \in Nat /\ startSnapshot \in Nat
        BY <1>2 DEF TypeOK
      <3>3. QED BY <1>1, <3>1, <3>2
    <2>2. QED BY <1>3, <1>4, <2>1, SkippedSettled
  <1>11. ASSUME EachBatch PROVE Passed /\ Earlier
    <2>1. position' = fetched /\ Handler(Batch)
      BY <1>11 DEF EachBatch
    <2>2. PICK saved : Called(Batch, saved) /\ Batch \ saved \subseteq dropped'
      BY <2>1, HandlerCalls
    <2>3. \A n \in DOMAIN Topic : <<"topic", n>> \in Batch => Settled(n)'
      BY <1>9, <2>2 DEF Settled
    <2>4. Passed
      BY <1>10, <2>1, <2>3
    <2>5. ASSUME NEW m \in DOMAIN Topic, NEW n \in DOMAIN Topic, n < m, Saved(<<"topic", m>>)'
          PROVE  Settled(n)'
      <3>1. CASE Saved(<<"topic", m>>)
        BY <1>4, <2>5, <3>1 DEF PassedSettled
      <3>2. CASE <<"topic", m>> \in Batch
        <4>1. m <= fetched
          BY <3>2, BatchType
        <4>2. n <= position'
          <5>1. n \in Nat /\ m \in Nat
            BY <1>2
          <5>2. QED BY <1>1, <2>1, <2>5, <4>1, <5>1
        <4>3. QED BY <2>4, <4>2
      <3>3. QED BY <1>9, <2>2, <2>5, <3>1, <3>2
    <2>6. QED BY <2>4, <2>5
  <1>12. ASSUME EachBatchThrows PROVE Passed /\ Earlier
    <2>1. position' \in {position, committed} /\ HandlerThrows(Batch)
      BY <1>12 DEF EachBatchThrows
    <2>2. PICK saved \in {Batch, {}} : Called(Batch, saved)
      BY <2>1, HandlerThrowsCalls
    <2>3. Passed
      <3>1. position' <= position
        BY <1>1, <2>1
      <3>2. ASSUME NEW n \in DOMAIN Topic, n <= position' PROVE n <= position
        <4>1. n \in Nat
          BY <1>2
        <4>2. QED BY <1>1, <3>1, <3>2, <4>1
      <3>3. QED BY <1>3, <1>4, <3>2
    <2>4. CASE saved = {}
      <3>1. Batch \in SUBSET Event
        BY BatchType
      <3>2. \A e \in Event : trades'[e] = trades[e]
        BY <2>2, <2>4, <3>1, CalledTrades
      <3>3. \A n \in DOMAIN Topic : Saved(<<"topic", n>>)' => Saved(<<"topic", n>>)
        BY <1>2, <3>2 DEF Saved
      <3>4. position' <= position
        BY <1>1, <2>1
      <3>5. QED BY <1>6, <3>3, <3>4
    <2>5. CASE saved = Batch
      <3>1. \A n \in DOMAIN Topic : <<"topic", n>> \in Batch => Settled(n)'
        BY <1>9, <2>2, <2>5 DEF Settled
      <3>2. ASSUME NEW m \in DOMAIN Topic, NEW n \in DOMAIN Topic, n < m, Saved(<<"topic", m>>)'
            PROVE  Settled(n)'
        <4>1. CASE Saved(<<"topic", m>>)
          BY <1>4, <3>2, <4>1 DEF PassedSettled
        <4>2. CASE <<"topic", m>> \in Batch
          <5>1. m <= fetched
            BY <4>2, BatchType
          <5>2. n <= fetched
            <6>1. n \in Nat /\ m \in Nat
              BY <1>2
            <6>2. QED BY <1>1, <3>2, <5>1, <6>1
          <5>3. QED BY <1>10, <3>1, <5>2
        <4>3. QED BY <1>9, <2>2, <3>2, <4>1, <4>2
      <3>3. QED BY <2>3, <3>2
    <2>6. QED BY <2>4, <2>5
  <1> HIDE DEF Passed, Earlier
  <1>13. QED BY <1>5, <1>7, <1>8, <1>11, <1>12, StepKinds

\* The rows of the range that a run has neither saved nor dropped.
LeftOut == {n \in DOMAIN File : /\ InRange(n)
                                /\ ~Saved(<<"file", n>>)
                                /\ <<"file", n>> \notin dropped}

\* A file has finitely many rows.
LEMMA LeftOutFinite == IsFiniteSet(LeftOut)
  <1>1. IsFiniteSet(DOMAIN File)
    BY InputType, FS_Interval
  <1>2. QED BY <1>1, FS_Subset DEF LeftOut

\* What the backfill has read was saved, dropped or skipped, or is in its hands.
LEMMA ReadSettledStep ==
  ASSUME TypeOK, TypeOK', RowsRead, ReadSettled, [Next]_vars
  PROVE  ReadSettled'
  <1>1. ASSUME NEW n \in DOMAIN File
        PROVE  n \in Nat /\ n >= 1 /\ <<"file", n>> \in Event
    BY InputType
  <1>2. \A e \in Event : Saved(e) => Saved(e)'
    BY TableGrows
  <1>3. dropped \subseteq dropped'
    BY TableGrows
  <1>4. ASSUME UNCHANGED <<backfill, from, cursor, rows>> PROVE ReadSettled'
    BY <1>1, <1>2, <1>3, <1>4 DEF ReadSettled, InRange
  <1>5. ASSUME StartBackfill PROVE ReadSettled'
    <2>1. cursor' = 0
      BY <1>5 DEF StartBackfill
    <2>2. ASSUME NEW n \in DOMAIN File PROVE ~(n <= cursor')
      <3>1. n \in Nat /\ n >= 1
        BY <1>1
      <3>2. QED BY <2>1, <3>1
    <2>3. QED BY <2>2 DEF ReadSettled
  <1>6. ASSUME ReadRow PROVE ReadSettled'
    <2>1. /\ from' = from /\ cursor' = cursor + 1 /\ cursor \in Nat /\ rows \subseteq rows'
          /\ InRange(cursor + 1) => <<"file", cursor + 1>> \in rows'
          /\ backfill = "reading"
      BY <1>6, InputType DEF ReadRow, InRange, TypeOK
    <2>2. ASSUME NEW n \in DOMAIN File, n <= cursor', InRange(n)'
          PROVE  n = cursor + 1 \/ (n <= cursor /\ InRange(n))
      <3>1. n \in Nat /\ (InRange(n)' => InRange(n))
        BY <1>1, <2>1 DEF InRange
      <3>2. QED BY <2>1, <2>2, <3>1
    <2>3. ASSUME NEW n \in DOMAIN File, n <= cursor', InRange(n)'
          PROVE  \/ Saved(<<"file", n>>)' \/ <<"file", n>> \in dropped'
                 \/ <<"file", n>> \in rows'
      <3>1. CASE n = cursor + 1
        <4>1. InRange(n)
          BY <2>1, <2>3 DEF InRange
        <4>2. QED BY <2>1, <3>1, <4>1
      <3>2. CASE n <= cursor /\ InRange(n)
        BY <1>1, <1>2, <1>3, <2>1, <3>2 DEF ReadSettled
      <3>3. QED BY <2>2, <2>3, <3>1, <3>2
    <2>4. QED BY <2>3 DEF ReadSettled
  <1>7. ASSUME ProcessData PROVE ReadSettled'
    <2>1. /\ from' = from /\ cursor' = cursor /\ backfill \in {"first", "second"}
      BY <1>7 DEF ProcessData
    <2>2. PICK saved : Called(rows, saved) /\ rows \ saved \subseteq dropped'
      BY <1>7, HandlerCalls DEF ProcessData
    <2>3. rows \in SUBSET Event /\ saved \subseteq rows
      BY <2>2, RowsType DEF Called
    <2>4. ASSUME NEW e \in saved PROVE Saved(e)'
      <3>1. e \in Event /\ trades[e] \in Nat
        BY <2>3 DEF TypeOK
      <3>2. trades'[e] = trades[e] + 1
        BY <2>2, <2>3, <3>1, CalledTrades
      <3>3. QED BY <3>1, <3>2 DEF Saved
    <2>5. QED BY <1>1, <1>2, <1>3, <2>1, <2>2, <2>4 DEF ReadSettled, InRange
  <1>8. ASSUME EndOfFile \/ StopBackfill \/ ProcessDataThrows PROVE ReadSettled'
    BY <1>8 DEF EndOfFile, StopBackfill, ProcessDataThrows, ReadSettled
  <1>9. UNCHANGED vars => UNCHANGED <<backfill, from, cursor, rows>>
    BY DEF vars, reader
  <1>10. QED BY <1>4, <1>5, <1>6, <1>7, <1>8, <1>9, StepKinds, Apart

\* At the end of the file the rows left out are in the buffer, which is not full;
\* afterwards there can only be fewer.
LEMMA TailBoundedStep ==
  ASSUME TypeOK, RowsRead, ReadSettled, TailBounded, [Next]_vars
  PROVE  TailBounded'
  <1>1. IsFiniteSet(LeftOut) /\ (TailBounded <=> (backfill = "finished" => Cardinality(LeftOut) < BackfillBatch))
    BY LeftOutFinite DEF TailBounded, LeftOut
  <1>2. TailBounded' <=> (backfill' = "finished" => Cardinality(LeftOut') < BackfillBatch)
    BY DEF TailBounded, LeftOut
  <1>3. IsFiniteSet(LeftOut) /\ Cardinality(LeftOut) \in Nat /\ BackfillBatch \in Nat
    BY <1>1, FS_CardinalityType, SwapAssumption
  <1>4. \A e \in Event : Saved(e) => Saved(e)'
    BY TableGrows
  <1>5. dropped \subseteq dropped'
    BY TableGrows
  <1>6. ASSUME from' = from PROVE LeftOut' \subseteq LeftOut
    BY <1>4, <1>5, <1>6, InputType DEF LeftOut, InRange
  <1>7. ASSUME LeftOut' \subseteq LeftOut
        PROVE  Cardinality(LeftOut') <= Cardinality(LeftOut) /\ Cardinality(LeftOut') \in Nat
    BY <1>3, <1>7, FS_Subset, FS_CardinalityType
  <1>8. ASSUME from' = from, backfill = "finished" PROVE TailBounded'
    <2>1. Cardinality(LeftOut) < BackfillBatch
      BY <1>1, <1>8
    <2>2. Cardinality(LeftOut') <= Cardinality(LeftOut) /\ Cardinality(LeftOut') \in Nat
      BY <1>6, <1>7, <1>8
    <2>3. QED BY <1>2, <1>3, <2>1, <2>2
  <1>9. ASSUME EndOfFile PROVE TailBounded'
    <2>1. from' = from /\ cursor = Len(File) /\ backfill = "reading"
      BY <1>9 DEF EndOfFile
    <2>2. ASSUME NEW n \in LeftOut PROVE <<"file", n>> \in rows
      <3>1. n \in DOMAIN File /\ n <= cursor
        BY <2>1, InputType DEF LeftOut
      <3>2. QED BY <2>1, <3>1 DEF ReadSettled, LeftOut
    <2>3. [n \in LeftOut |-> <<"file", n>>] \in Injection(LeftOut, rows)
      <3> DEFINE f == [n \in LeftOut |-> <<"file", n>>]
      <3>1. f \in [LeftOut -> rows]
        BY <2>2
      <3>2. \A a, b \in LeftOut : f[a] = f[b] => a = b
        OBVIOUS
      <3>3. QED BY <3>1, <3>2 DEF Injection, IsInjective
    <2>4. IsFiniteSet(rows) /\ Cardinality(LeftOut) <= Cardinality(rows)
      BY <2>3, RowsType, FS_Injection
    <2>5. Cardinality(rows) \in Nat /\ Cardinality(rows) < BackfillBatch
      BY <2>1, <2>4, FS_CardinalityType DEF RowsRead
    <2>6. Cardinality(LeftOut') <= Cardinality(LeftOut) /\ Cardinality(LeftOut') \in Nat
      BY <1>6, <1>7, <2>1
    <2>7. QED BY <1>2, <1>3, <2>4, <2>5, <2>6
  <1>10. ASSUME StartBackfill \/ ReadRow \/ StopBackfill \/ ProcessData \/ ProcessDataThrows
         PROVE  backfill' # "finished"
    BY <1>10 DEF StartBackfill, ReadRow, StopBackfill, ProcessData, ProcessDataThrows
  <1>11. ASSUME backfill' # "finished" PROVE TailBounded'
    BY <1>11 DEF TailBounded
  <1>12. UNCHANGED vars => UNCHANGED <<backfill, from, cursor, rows>>
    BY DEF vars, reader
  <1>13. ASSUME UNCHANGED <<backfill, from, cursor, rows>> PROVE TailBounded'
    BY <1>8, <1>11, <1>13
  <1>14. QED BY <1>9, <1>10, <1>11, <1>12, <1>13, StepKinds, Apart

-----------------------------------------------------------------------------
(***************************************************************************)
(* The theorems.                                                           *)
(***************************************************************************)
LEMMA InitInv == Init => Inv
  <1> SUFFICES ASSUME Init PROVE Inv
    OBVIOUS
  <1>1. Cardinality({}) = 0 /\ BackfillBatch \in Nat \ {0} /\ First \in Nat /\ MaxFault \in Nat
    BY FS_EmptySet, SwapAssumption
  <1>2. TypeOK
    BY <1>1, InputType DEF Init, TypeOK
  <1>3. RowsRead /\ AheadFresh /\ RowsFresh /\ SnapshotSaved /\ ReadSettled /\ TailBounded
    BY <1>1 DEF Init, RowsRead, AheadFresh, RowsFresh, SnapshotSaved, ReadSettled, TailBounded
  <1>4. \A e \in Event : trades[e] = 0
    BY DEF Init
  <1>5. RestartsAddNoCopies /\ RerunsAddNoCopies
    <2>1. thrown = 0
      BY DEF Init
    <2>2. QED BY <1>4, <2>1, InputType DEF RestartsAddNoCopies, RerunsAddNoCopies
  <1>6. PassedSettled
    <2>1. position = 0 /\ \A n \in DOMAIN Topic : ~Saved(<<"topic", n>>)
      BY <1>4, InputType DEF Init, Saved
    <2>2. QED BY <2>1 DEF PassedSettled
  <1>7. QED BY <1>2, <1>3, <1>5, <1>6 DEF Inv

\* Every step keeps the inductive invariant.
LEMMA InvStep == Inv /\ [Next]_vars => Inv'
  <1> SUFFICES ASSUME Inv, [Next]_vars PROVE Inv'
    OBVIOUS
  <1> USE DEF Inv
  <1>1. TypeOK' /\ RowsRead'
    BY TypeStep, RowsReadStep
  <1>2. AheadFresh' /\ RestartsAddNoCopies'
    BY <1>1, LiveCopiesStep
  <1>3. RowsFresh' /\ RerunsAddNoCopies'
    BY <1>1, FileCopiesStep
  <1>4. SnapshotSaved' /\ PassedSettled'
    BY <1>1, SnapshotSavedStep, PassedSettledStep
  <1>5. ReadSettled' /\ TailBounded'
    BY <1>1, ReadSettledStep, TailBoundedStep
  <1>6. QED BY <1>1, <1>2, <1>3, <1>4, <1>5

\* The invariant holds of every behaviour of both processes.
LEMMA Invariant == Spec => []Inv
  BY InitInv, InvStep, PTL DEF Spec

\* The types of both processes and of the table, and the bound of the buffer: it
\* is processed as soon as it is full (backfillData of swap/src/index.ts).
THEOREM TypeCorrect == Spec => []TypeOK
  <1>1. Inv => TypeOK
    BY DEF Inv
  <1>2. QED BY <1>1, Invariant, PTL

\* Trades have fresh ids, and yet only failed calls and expired sessions save an
\* event of the topic again, and a row of the export is saved at most twice
\* however often the backfill is run: each process asks the table how far it has
\* got when it starts.
THEOREM CopiesAreExplained == Spec => []CopiesExplained
  <1>1. Inv => CopiesExplained
    BY DEF Inv, CopiesExplained
  <1>2. QED BY <1>1, Invariant, PTL

\* What asking the table costs: an event that the group has passed without a
\* trade was dropped with its protocol's error or overtaken by a trade of its
\* block or a higher one, and a run of the backfill leaves out less than a buffer.
THEOREM LossesAreExplained == Spec => []LossesExplained
  <1>1. Inv => LossesExplained
    <2>1. ASSUME Inv, NEW n \in 1 .. committed
          PROVE  Saved(<<"topic", n>>) \/ <<"topic", n>> \in dropped \/ Overtaken(n)
      <3>1. n \in 1 .. position
        <4>1. committed \in Nat /\ position \in Nat /\ committed <= position
          BY <2>1, InputType DEF Inv, TypeOK
        <4>2. QED BY <2>1, <4>1
      <3>2. QED BY <2>1, <3>1 DEF Inv, PassedSettled, Settled
    <2>2. QED BY <2>1 DEF Inv, LossesExplained, PassedOrOvertaken
  <1>2. QED BY <1>1, Invariant, PTL

-----------------------------------------------------------------------------
(***************************************************************************)
(* The live process is the consumer of TopicConsumer.                      *)
(***************************************************************************)
\* The offsets are those of the topic, and say how often each event was saved.
LEMMA ConsumerOffsets ==
  /\ Consumer!Offset = DOMAIN Topic
  /\ \A n \in DOMAIN Topic : TopicCopies[n] = trades[<<"topic", n>>]
  /\ Excused \subseteq DOMAIN Topic
  BY DEF Consumer!Offset, TopicCopies, Excused

\* What was dropped or overtaken stays so.
LEMMA ConsumerExcuses == ASSUME TypeOK, [Next]_vars PROVE Consumer!Excuse
  <1>1. \A e \in Event : Saved(e) => Saved(e)'
    BY TableGrows
  <1>2. dropped \subseteq dropped'
    BY TableGrows
  <1>3. ASSUME NEW n \in DOMAIN Topic, Overtaken(n) PROVE Overtaken(n)'
    BY <1>1, <1>3 DEF Overtaken
  <1>4. Excused \subseteq Excused' /\ Excused' \subseteq DOMAIN Topic
    BY <1>2, <1>3 DEF Excused
  <1>5. QED BY <1>4, ConsumerOffsets DEF Consumer!Excuse

\* A call with a batch saves events that the process has not resolved, and that
\* only calls that failed have saved before.
LEMMA ConsumerSaves ==
  ASSUME Inv, consumer # "down", NEW saved, Called(Batch, saved), committed' \in Nat,
         committed' <= position
  PROVE  \E done \in SUBSET DOMAIN Topic : Consumer!Save(done)
  <1> USE DEF Inv
  <1> DEFINE done == {n \in DOMAIN Topic : <<"topic", n>> \in saved}
  <1>1. position \in Nat /\ DOMAIN Topic \subseteq Nat
    BY InputType DEF TypeOK
  <1>2. ASSUME NEW n \in done
        PROVE  n > committed' /\ TopicCopies[n] <= thrown
    <2>1. n \in DOMAIN Topic /\ <<"topic", n>> \in Batch
      BY <1>2 DEF Called
    <2>2. position < n /\ Topic[n] > startSnapshot
      BY <2>1, BatchType
    <2>3. trades[<<"topic", n>>] <= thrown
      BY <1>1, <2>1, <2>2 DEF AheadFresh
    <2>4. QED BY <1>1, <2>1, <2>2, <2>3, ConsumerOffsets
  <1>3. ASSUME NEW n \in DOMAIN Topic
        PROVE  trades'[<<"topic", n>>] = IF n \in done THEN TopicCopies[n] + 1 ELSE TopicCopies[n]
    <2>1. <<"topic", n>> \in Event
      BY InputType
    <2>2. /\ <<"topic", n>> \in saved => trades'[<<"topic", n>>] = trades[<<"topic", n>>] + 1
          /\ <<"topic", n>> \notin saved => trades'[<<"topic", n>>] = trades[<<"topic", n>>]
      BY <2>1, BatchType, CalledTrades
    <2>3. QED BY <2>2, ConsumerOffsets
  <1>4. TopicCopies' = [n \in DOMAIN Topic |-> IF n \in done THEN TopicCopies[n] + 1
                                               ELSE TopicCopies[n]]
    BY <1>3 DEF TopicCopies
  <1>5. Consumer!Save(done)
    BY <1>2, <1>4, ConsumerOffsets DEF Consumer!Save
  <1>6. QED BY <1>5

\* A step that adds no trade to an event of the topic saves none.
LEMMA ConsumerSavesNone ==
  ASSUME \A n \in DOMAIN Topic : trades'[<<"topic", n>>] = trades[<<"topic", n>>]
  PROVE  Consumer!Save({}) /\ TopicCopies' = TopicCopies
  <1>1. TopicCopies' = TopicCopies
    BY DEF TopicCopies
  <1>2. TopicCopies = [n \in DOMAIN Topic |-> TopicCopies[n]]
    BY DEF TopicCopies
  <1>3. QED BY <1>1, <1>2, ConsumerOffsets DEF Consumer!Save

\* What is resolved may be committed: it is settled.
LEMMA ConsumerReaches ==
  ASSUME Inv, committed' \in {committed, position}
  PROVE  Consumer!Reach(committed')
  <1> USE DEF Inv
  <1>1. committed \in Nat /\ position \in Nat /\ committed <= position /\ DOMAIN Topic \subseteq Nat
    BY InputType DEF TypeOK
  <1>2. committed <= committed' /\ committed' <= position
    BY <1>1
  <1>3. ASSUME NEW n \in DOMAIN Topic, committed < n, n <= committed'
        PROVE  TopicCopies[n] > 0 \/ n \in Excused
    <2>1. n \in 1 .. position
      BY <1>1, <1>2, <1>3
    <2>2. Settled(n)
      BY <2>1 DEF PassedSettled
    <2>3. QED BY <2>2, ConsumerOffsets DEF Settled, Saved, Excused
  <1>4. QED BY <1>2, <1>3, ConsumerOffsets DEF Consumer!Reach

\* Each step of both processes is one of the consumer, or of no concern to it.
LEMMA ConsumerStep == Inv /\ [Next]_vars => [Consumer!Next]_(Consumer!vars)
  <1> SUFFICES ASSUME Inv, [Next]_vars PROVE [Consumer!Next]_(Consumer!vars)
    OBVIOUS
  <1>1. TypeOK /\ Consumer!Excuse
    BY ConsumerExcuses DEF Inv
  <1>2. committed \in Nat /\ position \in Nat /\ committed <= position /\ DOMAIN Topic \subseteq Nat
        /\ position <= Len(Topic)
    BY <1>1, InputType DEF TypeOK
  <1>3. CASE UNCHANGED <<trades, dropped, committed, thrown>>
    <2>1. TopicCopies' = TopicCopies /\ Excused' = Excused
      BY <1>3 DEF TopicCopies, Excused, Overtaken, Saved
    <2>2. QED BY <1>3, <2>1 DEF Consumer!vars
  <1>4. CASE EachBatch
    <2>1. consumer # "down" /\ committed' = committed /\ thrown' = thrown
      BY <1>4 DEF EachBatch
    <2>2. PICK saved : Called(Batch, saved)
      BY <1>1, <1>4, LiveCalls
    <2>3. PICK done \in SUBSET DOMAIN Topic : Consumer!Save(done)
      BY <1>2, <2>1, <2>2, ConsumerSaves
    <2>4. Consumer!Deliver(done)
      BY <1>1, <2>1, <2>3 DEF Consumer!Deliver
    <2>5. QED BY <2>4, ConsumerOffsets DEF Consumer!Next
  <1>5. CASE EachBatchThrows
    <2>1. /\ consumer # "down" /\ committed' \in {committed, position}
          /\ thrown' = thrown + 1
      BY <1>5 DEF EachBatchThrows
    <2>2. PICK saved : Called(Batch, saved)
      BY <1>1, <1>5, LiveCalls
    <2>3. PICK done \in SUBSET DOMAIN Topic : Consumer!Save(done)
      BY <1>2, <2>1, <2>2, ConsumerSaves
    <2>4. Consumer!Return(done, committed')
      BY <1>1, <2>1, <2>3, ConsumerReaches DEF Consumer!Return
    <2>5. committed' \in DOMAIN Topic \cup {committed}
      BY <1>2, <2>1, InputType
    <2>6. QED BY <2>4, <2>5, ConsumerOffsets DEF Consumer!Next
  <1>6. CASE Commit
    <2>1. committed < position /\ committed' = position /\ thrown' = thrown
          /\ trades' = trades /\ dropped' = dropped
      BY <1>6 DEF Commit, table
    <2>2. TopicCopies' = TopicCopies /\ Excused' = Excused
      BY <2>1 DEF TopicCopies, Excused, Overtaken, Saved
    <2>3. Consumer!Pass(committed')
      BY <2>1, <2>2, ConsumerReaches DEF Consumer!Pass
    <2>4. committed' \in DOMAIN Topic
      BY <1>2, <2>1, InputType
    <2>5. QED BY <2>3, <2>4, ConsumerOffsets DEF Consumer!Next
  <1>7. CASE Rejoin
    <2>1. committed' = committed /\ thrown' = thrown + 1 /\ trades' = trades
      BY <1>7 DEF Rejoin, table
    <2>2. Consumer!Return({}, committed)
      BY <1>1, <2>1, ConsumerReaches, ConsumerSavesNone DEF Consumer!Return
    <2>3. QED BY <2>2 DEF Consumer!Next
  <1>8. CASE ProcessData \/ ProcessDataThrows
    <2>1. PICK saved : Called(rows, saved)
      BY <1>1, <1>8, BackfillCalls
    <2>2. committed' = committed /\ thrown' = thrown
      BY <1>8, Apart
    <2>3. ASSUME NEW n \in DOMAIN Topic
          PROVE  trades'[<<"topic", n>>] = trades[<<"topic", n>>]
      <3>1. <<"topic", n>> \notin rows
        BY DEF Inv, RowsRead
      <3>2. <<"topic", n>> \notin saved /\ <<"topic", n>> \in Event
        BY <2>1, <3>1, InputType DEF Called
      <3>3. QED BY <1>1, <2>1, <3>2, RowsType, CalledTrades
    <2>4. Consumer!Deliver({})
      BY <1>1, <2>2, <2>3, ConsumerSavesNone DEF Consumer!Deliver
    <2>5. QED BY <2>4 DEF Consumer!Next
  <1>9. ASSUME \/ UNCHANGED vars \/ StartLive \/ Fetch \/ StopLive
               \/ StartBackfill \/ ReadRow \/ EndOfFile \/ StopBackfill
        PROVE  UNCHANGED <<trades, dropped, committed, thrown>>
    <2>1. trades' = trades /\ dropped' = dropped
      BY <1>9, Quiet
    <2>2. committed' = committed /\ thrown' = thrown
      BY <1>9, Apart DEF vars, live, StartLive, Fetch, StopLive
    <2>3. QED BY <2>1, <2>2
  <1>10. QED BY <1>1, <1>3, <1>4, <1>5, <1>6, <1>7, <1>8, <1>9, StepKinds

\* The live process of swap, beside the backfill that writes to the same table,
\* keeps the promise of TopicConsumer: the group goes past an event only when it
\* was saved, dropped or overtaken, an event that it is past is never saved
\* again, and a copy after the first is paid for by a call that failed or a
\* session that expired.
THEOREM ConsumerImplemented == Spec => ImplementsConsumer
  <1>1. Init => Consumer!Init
    <2> SUFFICES ASSUME Init PROVE Consumer!Init
      OBVIOUS
    <2>1. \A n \in DOMAIN Topic : trades[<<"topic", n>>] = 0
      BY InputType DEF Init
    <2>2. TopicCopies = [n \in DOMAIN Topic |-> 0]
      BY <2>1 DEF TopicCopies
    <2>3. committed = 0 /\ thrown = 0
      BY DEF Init
    <2>4. QED BY <2>2, <2>3, ConsumerOffsets, InputType DEF Consumer!Init
  <1>2. QED BY <1>1, ConsumerStep, Invariant, PTL
        DEF Spec, ImplementsConsumer, Consumer!Spec

=============================================================================

----------------------- MODULE BackfillIndexerProofs -----------------------
(***************************************************************************)
(* Theorems about BackfillIndexer for any rows, threads, page limit, chunk *)
(* counts, channel capacity, pool size and fault budget.                   *)
(***************************************************************************)
EXTENDS BackfillIndexer, FiniteSetTheorems, TLAPS

-----------------------------------------------------------------------------
(***************************************************************************)
(* The inductive invariant.                                                *)
(***************************************************************************)

\* A thread in one of these phases has committed the claim of its batch.
Committed == {"Fetching", "Panicked", "Waiting"}

\* Committed claims carry numbers that no later claim takes again, so two
\* threads never have the same attempt.
BatchesApart ==
  \A t \in Thread : pc[t] \in Committed =>
     /\ \A a \in batch[t] : a[2] <= tries[a[1]]
     /\ \A u \in Thread \ {t} : pc[u] \in Committed => batch[t] \cap batch[u] = {}

\* A running goroutine belongs to the batch of a thread, or was left by one that
\* panicked, and it runs for a claim that was committed.
TasksOwned ==
  \A a \in Attempt : Live(a) =>
     /\ a[2] <= tries[a[1]]
     /\ \/ task[a].orphan
        \/ \E t \in Thread : pc[t] \in Committed /\ a \in batch[t]

\* Of the batch of a thread that panicked nothing runs but what it left behind
\* and what it still has to reject.
PanicLeavesOrphans ==
  \A t \in Thread : pc[t] = "Panicked" =>
     \A a \in batch[t] : Live(a) => task[a].orphan \/ task[a].stage = "invalid"

\* The channels are closed after the last thread.
ClosedAfterThreads == closed => \A t \in Thread : pc[t] = "Stopped"

Owned == BatchesApart /\ TasksOwned /\ PanicLeavesOrphans /\ ClosedAfterThreads

\* The chunks a goroutine is done with were sent, and so was the first half of
\* the one it is at.
SentAccounted ==
  \A a \in Attempt :
     /\ \A c \in 1 .. task[a].chunk - 1, topic \in Topic : Accounted(<<topic, a, c>>)
     /\ task[a].stage = "checkpoints" => Accounted(<<"txs", a, task[a].chunk>>)

\* What is sent, on its way or stored is a chunk of its checkpoint.
Sized(i) == i[3] <= ChunksOf[i[2][1]]

ItemsSized ==
  /\ \A a \in Attempt : task[a].stage \in Topic => task[a].chunk <= ChunksOf[a[1]]
  /\ \A i \in Item : InMemory(i) => Sized(i)
  /\ \A topic \in Topic, r \in Row : bucket[<<topic, r>>] <= ChunksOf[r]

\* An acknowledged upload left an object.
StoredHaveObjects == \A i \in stored : bucket[Object(i)] # 0

Kept == SentAccounted /\ DoneAccounted /\ ItemsSized /\ StoredHaveObjects

Inv == TypeOK /\ IsFiniteSet(pool \cup stuck) /\ Owned /\ Kept

-----------------------------------------------------------------------------
(***************************************************************************)
(* Types.                                                                  *)
(***************************************************************************)

\* The constants.
LEMMA Bounds ==
  /\ Workers \in Nat /\ Capacity \in Nat /\ MaxTry \in Nat /\ MaxFault \in Nat
  /\ Row \subseteq Nat /\ ChunksOf \in [Row -> Nat]
  BY BackfillAssumption

\* The record of a goroutine that was just started, or ended.
LEMMA IdleType == \A stage \in Stage : Idle(stage) \in Task /\ Idle(stage).stage = stage
  BY DEF Idle, Task

\* SetStatus returns a table of the same rows.
LEMMA SetStatusType ==
  ASSUME NEW old \in [Row -> Status], NEW rows, NEW s \in Status
  PROVE  /\ SetStatus(old, rows, s) \in [Row -> Status]
         /\ \A r \in Row : SetStatus(old, rows, s)[r] = IF r \in rows THEN s ELSE old[r]
  BY DEF SetStatus

\* A status update.
LEMMA UpdateType ==
  ASSUME TypeOK, NEW rows, NEW s \in Status, UpdateCheckpointStatus(rows, s)
  PROVE  /\ status' \in [Row -> Status]
         /\ \A r \in Row : status'[r] = status[r] \/ (r \in rows /\ status'[r] = s)
         /\ faults' \in 0 .. MaxFault
  <1>1. faults' \in 0 .. MaxFault
    BY Bounds DEF UpdateCheckpointStatus, Failing, Spend, TypeOK
  <1>2. CASE status' = status
    BY <1>1, <1>2 DEF TypeOK
  <1>3. CASE status' = SetStatus(status, rows, s)
    <2>1. status \in [Row -> Status]
      BY DEF TypeOK
    <2>2. QED BY <1>1, <1>3, <2>1, SetStatusType
  <1>4. QED BY <1>2, <1>3 DEF UpdateCheckpointStatus

\* A page names rows that can be claimed once more.
LEMMA PageType ==
  ASSUME TypeOK, NEW rows \in NextPage
  PROVE  /\ rows \subseteq Row /\ rows # {}
         /\ {<<r, tries[r] + 1>> : r \in rows} \subseteq Attempt
         /\ {<<r, tries[r] + 1>> : r \in rows} # {}
         /\ \A r \in rows : tries[r] + 1 \in 0 .. MaxTry
  <1>1. rows \subseteq Row /\ rows # {} /\ \A r \in rows : tries[r] < MaxTry
    BY DEF NextPage, Pages, Claimable, TypeOK
  <1>2. \A r \in rows : tries[r] + 1 \in 1 .. MaxTry
    BY <1>1, Bounds DEF TypeOK
  <1>3. \A r \in rows : <<r, tries[r] + 1>> \in Attempt
    BY <1>1, <1>2 DEF Attempt
  <1>4. \A r \in rows : tries[r] + 1 \in 0 .. MaxTry
    BY <1>2, Bounds
  <1>5. {<<r, tries[r] + 1>> : r \in rows} # {}
    BY <1>1
  <1>6. QED BY <1>1, <1>3, <1>4, <1>5

\* The steps of a thread keep the types.
LEMMA ThreadStepType ==
  ASSUME TypeOK, NEW t \in Thread, ThreadStep(t)
  PROVE  TypeOK'
  <1>s. FAIL \in Status /\ PROCESSING \in Status
    BY DEF Status
  <1>1. CASE Claim(t)
    <2>1. PICK rows \in NextPage :
            LET claimed == {<<r, tries[r] + 1>> : r \in rows}
            IN /\ status' = SetStatus(status, rows, PROCESSING)
               /\ tries' = [r \in Row |-> IF r \in rows THEN tries[r] + 1 ELSE tries[r]]
               /\ task' = [a \in Attempt |-> IF a \in claimed THEN Idle("fetching")
                                             ELSE task[a]]
               /\ batch' = [batch EXCEPT ![t] = claimed]
      BY <1>1 DEF Claim
    <2>2. /\ pc[t] = "Idle" /\ pc' = [pc EXCEPT ![t] = "Fetching"]
          /\ UNCHANGED <<flow, s3, life, faults>>
      BY <1>1 DEF Claim, Goto
    <2>3. status' \in [Row -> Status]
      BY <1>s, <2>1, SetStatusType DEF TypeOK
    <2>4. tries' \in [Row -> 0 .. MaxTry]
      BY <2>1, PageType DEF TypeOK
    <2>5. Idle("fetching") \in Task
      BY IdleType DEF Stage
    <2>6. task' \in [Attempt -> Task]
      BY <2>1, <2>5 DEF TypeOK
    <2>7. /\ batch' \in [Thread -> SUBSET Attempt]
          /\ \A u \in Thread : pc'[u] \in {"Idle", "Stopped"} <=> batch'[u] = {}
      BY <2>1, <2>2, PageType DEF TypeOK
    <2>8. QED BY <2>2, <2>3, <2>4, <2>6, <2>7 DEF TypeOK, flow, s3, life
  <1>2. CASE AbortClaim(t)
    <2>1. PICK rows \in NextPage :
            /\ batch' = [batch EXCEPT ![t] = {<<r, tries[r] + 1>> : r \in rows}]
            /\ \E s \in {status, SetStatus(status, rows, PROCESSING)} : status' = s
      BY <1>2 DEF AbortClaim
    <2>2. /\ pc[t] = "Idle" /\ pc' = [pc EXCEPT ![t] = "Aborted"]
          /\ UNCHANGED <<tries, task, flow, s3, life>> /\ faults' \in 0 .. MaxFault
      BY <1>2, Bounds DEF AbortClaim, Goto, Spend, TypeOK
    <2>3. status' \in [Row -> Status]
      <3>1. status \in [Row -> Status]
        BY DEF TypeOK
      <3>2. status' = status \/ status' = SetStatus(status, rows, PROCESSING)
        BY <2>1
      <3>3. SetStatus(status, rows, PROCESSING) \in [Row -> Status]
        BY <1>s, <3>1, SetStatusType
      <3>4. QED BY <3>1, <3>2, <3>3
    <2>4. /\ batch' \in [Thread -> SUBSET Attempt]
          /\ \A u \in Thread : pc'[u] \in {"Idle", "Stopped"} <=> batch'[u] = {}
      BY <2>1, <2>2, PageType DEF TypeOK
    <2>5. QED BY <2>2, <2>3, <2>4 DEF TypeOK, flow, s3, life
  <1>3. CASE FailAborted(t) \/ FailBatch(t) \/ RecoverPanic(t)
    <2>1. status' \in [Row -> Status] /\ faults' \in 0 .. MaxFault
      BY <1>3, <1>s, UpdateType DEF FailAborted, FailBatch, RecoverPanic
    <2>2. /\ pc' = [pc EXCEPT ![t] = "Idle"] /\ batch' = [batch EXCEPT ![t] = {}]
          /\ UNCHANGED <<tries, task, flow, s3, life>>
      BY <1>3 DEF FailAborted, FailBatch, RecoverPanic, Return
    <2>3. QED BY <2>1, <2>2 DEF TypeOK, flow, s3, life
  <1>4. CASE FindNothing(t)
    BY <1>4 DEF FindNothing, vars, table, flow, s3, life, thread, TypeOK
  <1>5. CASE StartCheckpoints(t)
    <2>1. PICK started \in SUBSET Fetched(t), rejected \in SUBSET Fetched(t), panics \in BOOLEAN :
            /\ started \cap rejected = {}
            /\ panics => Cardinality(Fetched(t)) > 1
            /\ IF started = Fetched(t) /\ ~panics THEN faults' = faults ELSE Spend
            /\ task' = [a \in Attempt |->
                          IF a \in started
                          THEN [Idle("running") EXCEPT !.orphan = panics]
                          ELSE IF a \in rejected THEN Idle("invalid")
                          ELSE IF a \in Fetched(t) THEN Idle("ended")
                          ELSE task[a]]
            /\ Goto(t, IF panics THEN "Panicked" ELSE "Waiting")
      BY <1>5 DEF StartCheckpoints
    <2>2. pc[t] = "Fetching" /\ UNCHANGED <<table, flow, s3, life, batch>>
      BY <1>5 DEF StartCheckpoints, AllFetched
    <2>3. faults' \in 0 .. MaxFault
      BY <2>1, Bounds DEF Spend, TypeOK
    <2>4. /\ [Idle("running") EXCEPT !.orphan = panics] \in Task
          /\ Idle("invalid") \in Task /\ Idle("ended") \in Task
      BY DEF Idle, Task, Stage
    <2>5. task' \in [Attempt -> Task]
      BY <2>1, <2>4 DEF TypeOK
    <2>6. pc' \in {[pc EXCEPT ![t] = "Panicked"], [pc EXCEPT ![t] = "Waiting"]}
      BY <2>1 DEF Goto
    <2>7. QED BY <2>2, <2>3, <2>5, <2>6 DEF TypeOK, table, flow, s3, life
  <1>6. CASE FinishBatch(t)
    BY <1>6 DEF FinishBatch, Return, TypeOK, table, flow, s3, life
  <1>7. CASE StopThread(t)
    BY <1>7 DEF StopThread, Goto, TypeOK, table, flow, s3, life
  <1>8. QED BY <1>1, <1>2, <1>3, <1>4, <1>5, <1>6, <1>7 DEF ThreadStep

\* So do those of the goroutine of a checkpoint.
LEMMA TaskStepType ==
  ASSUME TypeOK, NEW a \in Attempt, TaskStep(a)
  PROVE  TypeOK'
  <1>s. FAIL \in Status /\ DONE \in Status /\ Idle("ended") \in Task
    BY IdleType DEF Status, Stage
  <1>t. task[a] \in Task /\ \A stage \in Stage : [task[a] EXCEPT !.stage = stage] \in Task
    BY DEF TypeOK, Task
  <1>1. CASE FetchCheckpoint(a) \/ FetchTxs(a)
    <2>1. \E stage \in {"fetched", "failing", "txs"} : task' = [task EXCEPT ![a].stage = stage]
      BY <1>1 DEF FetchCheckpoint, FetchTxs, To
    <2>2. task' \in [Attempt -> Task]
      BY <1>t, <2>1 DEF TypeOK, Stage
    <2>3. faults' \in 0 .. MaxFault
      BY <1>1, Bounds DEF FetchCheckpoint, FetchTxs, Failing, Spend, TypeOK
    <2>4. UNCHANGED <<table, flow, s3, life, pc, batch>>
      BY <1>1 DEF FetchCheckpoint, FetchTxs
    <2>5. QED BY <2>2, <2>3, <2>4 DEF TypeOK, table, flow, s3, life
  <1>2. CASE Fail(a) \/ MarkDone(a)
    <2>1. status' \in [Row -> Status] /\ faults' \in 0 .. MaxFault
      BY <1>2, <1>s, UpdateType DEF Fail, MarkDone
    <2>2. /\ task' = [task EXCEPT ![a] = Idle("ended")]
          /\ UNCHANGED <<tries, flow, s3, life, pc, batch>>
      BY <1>2 DEF Fail, MarkDone
    <2>3. QED BY <1>s, <2>1, <2>2 DEF TypeOK, flow, s3, life
  <1>3. ASSUME NEW topic \in Topic, Send(a, topic)
        PROVE  /\ channel' \in [Topic -> Seq(Item)]
               /\ \A other \in Topic : Len(channel'[other]) <= Capacity
    <2>1. <<topic, a, task[a].chunk>> \in Item
      BY <1>t DEF Item, Task
    <2>2. channel[topic] \in Seq(Item)
      BY DEF TypeOK
    <2>3. /\ Append(channel[topic], <<topic, a, task[a].chunk>>) \in Seq(Item)
          /\ Len(Append(channel[topic], <<topic, a, task[a].chunk>>)) = Len(channel[topic]) + 1
      BY <2>1, <2>2
    <2>4. /\ channel' = [channel EXCEPT ![topic] = Append(channel[topic], <<topic, a, task[a].chunk>>)]
          /\ Len(channel[topic]) < Capacity
      BY <1>3 DEF Send
    <2>5. Len(channel[topic]) + 1 <= Capacity
      BY <2>2, <2>4, Bounds
    <2>6. QED BY <2>3, <2>4, <2>5 DEF TypeOK
  <1>4. CASE SendTxs(a)
    <2>1. Send(a, "txs") /\ task' = [task EXCEPT ![a].stage = "checkpoints"]
      BY <1>4 DEF SendTxs, To
    <2>2. task' \in [Attempt -> Task]
      BY <1>t, <2>1 DEF TypeOK, Stage
    <2>3. UNCHANGED <<table, store, inHand, pool, stuck, s3, life, pc, batch, faults>>
      BY <1>4 DEF SendTxs
    <2>4. QED BY <1>3, <2>1, <2>2, <2>3 DEF TypeOK, Topic, table, s3, life
  <1>5. CASE SendCheckpoint(a)
    <2>1. /\ Send(a, "checkpoints")
          /\ task' = [task EXCEPT ![a].stage = "running", ![a].chunk = @ + 1]
      BY <1>5 DEF SendCheckpoint
    <2>2. task' \in [Attempt -> Task]
      <3>1. /\ task[a].chunk + 1 \in Nat \ {0}
            /\ "running" \in Stage
        BY <1>t DEF Task, Stage
      <3>2. [task[a] EXCEPT !.stage = "running", !.chunk = @ + 1] \in Task
        BY <1>t, <3>1 DEF Task
      <3>3. QED BY <2>1, <3>2 DEF TypeOK
    <2>3. UNCHANGED <<table, store, inHand, pool, stuck, s3, life, pc, batch, faults>>
      BY <1>5 DEF SendCheckpoint
    <2>4. QED BY <1>3, <2>1, <2>2, <2>3 DEF TypeOK, Topic, table, s3, life
  <1>6. QED BY <1>1, <1>2, <1>4, <1>5 DEF TaskStep

\* The set of items in the pool or stuck stays finite and small.
LEMMA PoolShrinks ==
  ASSUME TypeOK, IsFiniteSet(pool \cup stuck), pool' \cup stuck' \subseteq pool \cup stuck
  PROVE  IsFiniteSet(pool' \cup stuck') /\ Cardinality(pool' \cup stuck') <= Workers
  <1>1. /\ IsFiniteSet(pool' \cup stuck')
        /\ Cardinality(pool' \cup stuck') <= Cardinality(pool \cup stuck)
    BY FS_Subset
  <1>2. Cardinality(pool' \cup stuck') \in Nat /\ Cardinality(pool \cup stuck) \in Nat
    BY <1>1, FS_CardinalityType
  <1>3. QED BY <1>1, <1>2, Bounds DEF TypeOK

\* The head and the tail of a channel that is not empty.
LEMMA HeadType ==
  ASSUME TypeOK, NEW topic \in Topic, channel[topic] # <<>>
  PROVE  /\ Head(channel[topic]) \in Item
         /\ Tail(channel[topic]) \in Seq(Item)
         /\ Len(Tail(channel[topic])) = Len(channel[topic]) - 1
         /\ Len(channel[topic]) \in Nat
         /\ \A n \in DOMAIN Tail(channel[topic]) :
              n + 1 \in DOMAIN channel[topic] /\ Tail(channel[topic])[n] = channel[topic][n + 1]
  <1>1. channel[topic] \in Seq(Item)
    BY DEF TypeOK
  <1>2. QED BY <1>1

\* So do the steps of the storing goroutine and of the pool.
LEMMA StoreStepType ==
  ASSUME TypeOK, IsFiniteSet(pool \cup stuck), StoreStep \/ PoolStep
  PROVE  TypeOK' /\ IsFiniteSet(pool \cup stuck)'
  <1>1. ASSUME NEW topic \in Topic, Receive(topic) PROVE TypeOK' /\ IsFiniteSet(pool \cup stuck)'
    <2>1. /\ store = "select" /\ channel[topic] # <<>> /\ store' = "submit"
          /\ inHand' = Head(channel[topic])
          /\ channel' = [channel EXCEPT ![topic] = Tail(channel[topic])]
          /\ UNCHANGED <<table, pool, stuck, s3, life, thread, faults>>
      BY <1>1 DEF Receive
    <2>2. inHand' \in Item /\ inHand' # NoItem
      <3>1. Head(channel[topic]) \in Item
        BY <2>1, HeadType
      <3>2. \A i \in Item : i # NoItem
        BY DEF Item, NoItem
      <3>3. QED BY <2>1, <3>1, <3>2
    <2>3. /\ channel' \in [Topic -> Seq(Item)]
          /\ \A other \in Topic : Len(channel'[other]) <= Capacity
      <3>1. Len(Tail(channel[topic])) <= Capacity /\ Tail(channel[topic]) \in Seq(Item)
        <4>1. Len(channel[topic]) <= Capacity
          BY DEF TypeOK
        <4>2. QED BY <2>1, <4>1, HeadType, Bounds
      <3>2. QED BY <2>1, <3>1 DEF TypeOK
    <2>4. QED BY <2>1, <2>2, <2>3 DEF TypeOK, table, s3, life, thread
  <1>2. CASE Submit
    <2>1. /\ store = "submit" /\ Cardinality(pool \cup stuck) < Workers
          /\ pool' = pool \cup {inHand} /\ inHand' = NoItem /\ store' = "select"
          /\ UNCHANGED <<table, channel, stuck, s3, life, thread, faults>>
      BY <1>2 DEF Submit
    <2>2. inHand \in Item
      BY <2>1 DEF TypeOK
    <2>3. pool' \cup stuck' = (pool \cup stuck) \cup {inHand}
      BY <2>1
    <2>4. /\ IsFiniteSet(pool' \cup stuck')
          /\ Cardinality(pool' \cup stuck') \in {Cardinality(pool \cup stuck), Cardinality(pool \cup stuck) + 1}
      BY <2>3, FS_AddElement
    <2>5. Cardinality(pool \cup stuck) \in Nat
      BY FS_CardinalityType
    <2>6. Cardinality(pool' \cup stuck') <= Workers
      BY <2>1, <2>4, <2>5, Bounds
    <2>7. QED BY <2>1, <2>2, <2>4, <2>6 DEF TypeOK, table, s3, life, thread
  <1>3. CASE LeaveSelect
    BY <1>3 DEF LeaveSelect, TypeOK, table, s3, life, thread
  <1>4. CASE StopAndWait
    BY <1>4 DEF StopAndWait, TypeOK, table, s3, life, thread
  <1>5. ASSUME NEW i \in pool, Upload(i) \/ FailUpload(i) PROVE TypeOK' /\ IsFiniteSet(pool \cup stuck)'
    <2>1. i \in Item /\ i[3] \in Nat /\ Object(i) \in Topic \X Row
      BY DEF TypeOK, Item, Object, Attempt
    <2>2. bucket' = bucket \/ bucket' = [bucket EXCEPT ![Object(i)] = i[3]]
      BY <1>5 DEF Upload, FailUpload, Put
    <2>3. bucket' \in [Topic \X Row -> Nat]
      BY <2>1, <2>2 DEF TypeOK
    <2>4. /\ pool' = pool \ {i} /\ stuck' \subseteq stuck \cup {i}
          /\ stored' \subseteq stored \cup {i} /\ lost' \subseteq lost \cup {i}
          /\ UNCHANGED <<table, channel, store, inHand, life, thread>>
      BY <1>5 DEF Upload, FailUpload
    <2>5. faults' \in 0 .. MaxFault
      BY <1>5, Bounds DEF Upload, FailUpload, Failing, Spend, TypeOK
    <2>6. IsFiniteSet(pool' \cup stuck') /\ Cardinality(pool' \cup stuck') <= Workers
      BY <2>4, PoolShrinks
    <2>7. QED BY <2>1, <2>3, <2>4, <2>5, <2>6 DEF TypeOK, table, life, thread
  <1>6. QED BY <1>1, <1>2, <1>3, <1>4, <1>5 DEF StoreStep, PoolStep

\* What a restart leaves.
LEMMA RestartType ==
  ASSUME TypeOK, Restart, faults' \in 0 .. MaxFault
  PROVE  TypeOK' /\ IsFiniteSet(pool \cup stuck)'
  <1>1. lost' \subseteq Item
    <2> DEFINE Queued == UNION {{channel[topic][n] : n \in DOMAIN channel[topic]} : topic \in Topic}
    <2>1. ASSUME NEW topic \in Topic, NEW n \in DOMAIN channel[topic]
          PROVE  channel[topic][n] \in Item
      <3>1. channel[topic] \in Seq(Item)
        BY DEF TypeOK
      <3>2. QED BY <3>1
    <2>2. Queued \subseteq Item
      BY <2>1
    <2>3. lost' = lost \cup pool \cup ({inHand} \ {NoItem}) \cup Queued
      BY DEF Restart
    <2> HIDE DEF Queued
    <2>4. {inHand} \ {NoItem} \subseteq Item /\ pool \subseteq Item /\ lost \subseteq Item
      BY DEF TypeOK
    <2>5. QED BY <2>2, <2>3, <2>4
  <1>2. task' \in [Attempt -> Task]
    <2>1. Idle("ended") \in Task
      BY IdleType DEF Stage
    <2>2. QED BY <2>1 DEF Restart, TypeOK
  <1>3. /\ channel' \in [Topic -> Seq(Item)]
        /\ \A topic \in Topic : Len(channel'[topic]) <= Capacity
    <2>1. <<>> \in Seq(Item) /\ Len(<<>>) <= Capacity
      BY Bounds
    <2>2. QED BY <2>1 DEF Restart
  <1>4. IsFiniteSet({}) /\ Cardinality({}) = 0
    BY FS_EmptySet
  <1>5. pool' \cup stuck' = {}
    BY DEF Restart
  <1>6. IsFiniteSet(pool' \cup stuck') /\ Cardinality(pool' \cup stuck') <= Workers
    BY <1>4, <1>5, Bounds
  <1>7. /\ UNCHANGED <<table, bucket, stored>> /\ cancelled' = FALSE /\ closed' = FALSE
        /\ pc' = [t \in Thread |-> "Idle"] /\ batch' = [t \in Thread |-> {}]
        /\ store' = "select" /\ inHand' = NoItem /\ pool' = {} /\ stuck' = {}
    BY DEF Restart
  <1>8. QED BY <1>1, <1>2, <1>3, <1>6, <1>7 DEF TypeOK, table

\* The other steps.
Other ==
  \/ Cancel \/ CloseChannels \/ Exit \/ Kill
  \/ \E r \in Row : UpdateFailedStatus(r)
  \/ UNCHANGED vars

\* They keep the types too.
LEMMA OtherStepType ==
  ASSUME TypeOK, IsFiniteSet(pool \cup stuck), Other
  PROVE  TypeOK' /\ IsFiniteSet(pool \cup stuck)'
  <1>1. CASE Cancel
    <2>1. faults' \in 0 .. MaxFault
      BY <1>1, Bounds DEF Cancel, Spend, TypeOK
    <2>2. QED BY <1>1, <2>1 DEF Cancel, TypeOK, table, flow, s3, thread
  <1>2. CASE CloseChannels
    BY <1>2 DEF CloseChannels, TypeOK, table, flow, s3, thread
  <1>3. CASE Exit \/ Kill
    <2>1. faults' \in 0 .. MaxFault
      BY <1>3, Bounds DEF Exit, Kill, Failing, Spend, TypeOK
    <2>2. QED BY <1>3, <2>1, RestartType DEF Exit, Kill
  <1>4. ASSUME NEW r \in Row, UpdateFailedStatus(r) PROVE TypeOK' /\ IsFiniteSet(pool \cup stuck)'
    <2>1. status' \in [Row -> Status]
      <3>1. FAIL \in Status /\ status \in [Row -> Status]
        BY DEF Status, TypeOK
      <3>2. QED BY <1>4, <3>1, SetStatusType DEF UpdateFailedStatus
    <2>2. faults' \in 0 .. MaxFault
      BY <1>4, Bounds DEF UpdateFailedStatus, Spend, TypeOK
    <2>3. UNCHANGED <<tries, flow, s3, life, thread>>
      BY <1>4 DEF UpdateFailedStatus
    <2>4. QED BY <2>1, <2>2, <2>3 DEF TypeOK, flow, s3, life, thread
  <1>5. CASE UNCHANGED vars
    BY <1>5 DEF vars, TypeOK, table, flow, s3, life, thread
  <1>6. QED BY <1>1, <1>2, <1>3, <1>4, <1>5 DEF Other

\* Types hold at first.
LEMMA TypeInit == Init => TypeOK /\ IsFiniteSet(pool \cup stuck)
  <1> SUFFICES ASSUME Init PROVE TypeOK /\ IsFiniteSet(pool \cup stuck)
    OBVIOUS
  <1>1. pool \cup stuck = {} /\ IsFiniteSet({}) /\ Cardinality({}) = 0
    BY FS_EmptySet DEF Init
  <1>2. IsFiniteSet(pool \cup stuck) /\ Cardinality(pool \cup stuck) <= Workers
    BY <1>1, Bounds
  <1>3. task \in [Attempt -> Task]
    BY IdleType DEF Init, Stage
  <1>4. /\ channel \in [Topic -> Seq(Item)]
        /\ \A topic \in Topic : Len(channel[topic]) <= Capacity
    <2>1. <<>> \in Seq(Item) /\ Len(<<>>) <= Capacity
      BY Bounds
    <2>2. QED BY <2>1 DEF Init
  <1>5. NOT_READY \in Status /\ 0 \in 0 .. MaxTry /\ 0 \in 0 .. MaxFault
    BY Bounds DEF Status
  <1>6. QED BY <1>2, <1>3, <1>4, <1>5 DEF Init, TypeOK

\* Every step keeps the types.
LEMMA TypeStep ==
  ASSUME TypeOK, IsFiniteSet(pool \cup stuck), [Next]_vars
  PROVE  TypeOK' /\ IsFiniteSet(pool \cup stuck)'
  <1>1. ASSUME NEW t \in Thread, ThreadStep(t) PROVE TypeOK' /\ IsFiniteSet(pool \cup stuck)'
    <2>1. UNCHANGED flow
      BY <1>1 DEF ThreadStep, Claim, AbortClaim, FailAborted, FindNothing, FailBatch,
                  StartCheckpoints, RecoverPanic, FinishBatch, StopThread, vars
    <2>2. QED BY <1>1, <2>1, ThreadStepType DEF flow
  <1>2. ASSUME NEW a \in Attempt, TaskStep(a) PROVE TypeOK' /\ IsFiniteSet(pool \cup stuck)'
    <2>1. UNCHANGED <<pool, stuck>>
      BY <1>2 DEF TaskStep, FetchCheckpoint, Fail, FetchTxs, SendTxs, SendCheckpoint, MarkDone, flow
    <2>2. QED BY <1>2, <2>1, TaskStepType
  <1>3. QED BY <1>1, <1>2, StoreStepType, OtherStepType DEF Next, Other

\* The types are right, and the pool never has more uploads than workers.
THEOREM TypeCorrect == Spec => []TypeOK
  <1>1. (TypeOK /\ IsFiniteSet(pool \cup stuck)) /\ [Next]_vars
          => (TypeOK /\ IsFiniteSet(pool \cup stuck))'
    BY TypeStep
  <1>2. QED BY <1>1, TypeInit, PTL DEF Spec

-----------------------------------------------------------------------------
(***************************************************************************)
(* Threads and the goroutines they answer for.                             *)
(***************************************************************************)

\* A step that starts no goroutine, and ends the batch of a thread only when all
\* that still runs of it is orphaned.
LEMMA OwnedKept ==
  ASSUME Owned, tries' = tries,
         \A t \in Thread : pc'[t] \in Committed => pc'[t] = pc[t] /\ batch'[t] = batch[t],
         \A a \in Attempt : Live(a)' =>
            /\ Live(a) /\ task'[a].orphan = task[a].orphan
            /\ task[a].stage = "invalid" => task'[a].stage = "invalid",
         \A t \in Thread : \A a \in batch[t] :
            pc[t] \in Committed /\ Live(a)' /\ ~task[a].orphan => pc'[t] \in Committed,
         batch \in [Thread -> SUBSET Attempt],
         ClosedAfterThreads'
  PROVE  Owned'
  <1> USE DEF Owned
  <1>1. BatchesApart'
    BY DEF BatchesApart
  <1>2. ASSUME NEW a \in Attempt, Live(a)'
        PROVE  /\ a[2] <= tries'[a[1]]
               /\ task'[a].orphan \/ \E t \in Thread : pc'[t] \in Committed /\ a \in batch'[t]
    <2>1. Live(a) /\ task'[a].orphan = task[a].orphan
      BY <1>2
    <2>2. CASE task[a].orphan
      BY <2>1, <2>2 DEF TasksOwned
    <2>3. CASE ~task[a].orphan
      <3>1. PICK t \in Thread : pc[t] \in Committed /\ a \in batch[t]
        BY <2>1, <2>3 DEF TasksOwned
      <3>2. pc'[t] \in Committed /\ batch'[t] = batch[t]
        BY <1>2, <2>3, <3>1
      <3>3. QED BY <2>1, <3>1, <3>2 DEF TasksOwned
    <2>4. QED BY <2>2, <2>3
  <1>3. TasksOwned'
    BY <1>2 DEF TasksOwned
  <1>4. ASSUME NEW t \in Thread, pc'[t] = "Panicked", NEW a \in batch'[t], Live(a)'
        PROVE  task'[a].orphan \/ task'[a].stage = "invalid"
    <2>1. pc[t] = "Panicked" /\ batch'[t] = batch[t]
      BY <1>4 DEF Committed
    <2>2. a \in Attempt
      BY <1>4, <2>1
    <2>3. /\ Live(a) /\ task'[a].orphan = task[a].orphan
          /\ task[a].stage = "invalid" => task'[a].stage = "invalid"
      BY <1>4, <2>2
    <2>4. QED BY <1>4, <2>1, <2>3 DEF PanicLeavesOrphans
  <1>5. PanicLeavesOrphans'
    BY <1>4 DEF PanicLeavesOrphans
  <1>6. QED BY <1>1, <1>3, <1>5

\* A claim.
LEMMA OwnedClaim ==
  ASSUME TypeOK, Owned, NEW t \in Thread, Claim(t)
  PROVE  Owned'
  <1> USE DEF Owned
  <1>1. PICK rows \in NextPage :
          LET claimed == {<<r, tries[r] + 1>> : r \in rows}
          IN /\ status' = SetStatus(status, rows, PROCESSING)
             /\ tries' = [r \in Row |-> IF r \in rows THEN tries[r] + 1 ELSE tries[r]]
             /\ task' = [a \in Attempt |-> IF a \in claimed THEN Idle("fetching")
                                           ELSE task[a]]
             /\ batch' = [batch EXCEPT ![t] = claimed]
    BY DEF Claim
  <1> DEFINE claimed == {<<r, tries[r] + 1>> : r \in rows}
  <1>2. /\ tries' = [r \in Row |-> IF r \in rows THEN tries[r] + 1 ELSE tries[r]]
        /\ task' = [a \in Attempt |-> IF a \in claimed THEN Idle("fetching") ELSE task[a]]
        /\ batch' = [batch EXCEPT ![t] = claimed]
        /\ pc[t] = "Idle" /\ pc' = [pc EXCEPT ![t] = "Fetching"] /\ closed' = closed
    BY <1>1 DEF Claim, Goto, life
  <1>3. rows \subseteq Row /\ claimed \subseteq Attempt
    BY PageType
  <1>4. /\ pc'[t] = "Fetching" /\ batch'[t] = claimed
        /\ \A u \in Thread \ {t} : pc'[u] = pc[u] /\ batch'[u] = batch[u]
    BY <1>2 DEF TypeOK
  <1>5. \A r \in Row : tries[r] \in Nat /\ tries'[r] \in Nat /\ tries[r] <= tries'[r]
    BY <1>2, Bounds DEF TypeOK
  <1>6. \A a \in claimed : a[1] \in Row /\ a[2] = tries[a[1]] + 1 /\ tries'[a[1]] = tries[a[1]] + 1
    BY <1>2, <1>3
  <1> HIDE DEF claimed
  <1>7. \A a \in claimed : a[2] <= tries'[a[1]] /\ ~(a[2] <= tries[a[1]])
    BY <1>5, <1>6
  <1>8. ASSUME NEW a \in Attempt, a[2] <= tries[a[1]]
        PROVE  task'[a] = task[a] /\ a \notin claimed /\ a[2] <= tries'[a[1]]
    <2>1. a[1] \in Row /\ a[2] \in Nat
      BY DEF Attempt
    <2>2. QED BY <1>2, <1>5, <1>7, <1>8, <2>1
  <1>9. \A u \in Thread : batch[u] \subseteq Attempt
    BY DEF TypeOK
  <1>10. ASSUME NEW u \in Thread \ {t}, pc'[u] \in Committed
         PROVE  /\ \A a \in batch'[u] : a[2] <= tries'[a[1]] /\ task'[a] = task[a]
                /\ claimed \cap batch'[u] = {}
    BY <1>4, <1>8, <1>9, <1>10 DEF BatchesApart
  <1>11. BatchesApart'
    <2>1. ASSUME NEW u \in Thread, pc'[u] \in Committed, NEW a \in batch'[u]
          PROVE  a[2] <= tries'[a[1]]
      BY <1>4, <1>7, <1>10, <2>1
    <2>2. ASSUME NEW u \in Thread, NEW v \in Thread \ {u}, pc'[u] \in Committed, pc'[v] \in Committed
          PROVE  batch'[u] \cap batch'[v] = {}
      BY <1>4, <1>10, <2>2 DEF BatchesApart
    <2>3. QED BY <2>1, <2>2 DEF BatchesApart
  <1>12. ASSUME NEW a \in Attempt, Live(a)'
         PROVE  /\ a[2] <= tries'[a[1]]
                /\ task'[a].orphan \/ \E u \in Thread : pc'[u] \in Committed /\ a \in batch'[u]
    <2>1. CASE a \in claimed
      BY <1>4, <1>7, <2>1 DEF Committed
    <2>2. CASE a \notin claimed
      <3>1. task'[a] = task[a]
        BY <1>2, <2>2
      <3>2. Live(a)
        BY <1>12, <3>1 DEF Live
      <3>3. a[2] <= tries'[a[1]]
        BY <1>8, <3>2 DEF TasksOwned
      <3>4. pc[t] \notin Committed
        BY <1>2 DEF Committed
      <3>5. QED BY <1>4, <3>1, <3>2, <3>3, <3>4 DEF TasksOwned
    <2>3. QED BY <2>1, <2>2
  <1>13. TasksOwned'
    BY <1>12 DEF TasksOwned
  <1>14. PanicLeavesOrphans'
    <2>1. ASSUME NEW u \in Thread, pc'[u] = "Panicked", NEW a \in batch'[u], Live(a)'
          PROVE  task'[a].orphan \/ task'[a].stage = "invalid"
      <3>1. u # t /\ pc'[u] \in Committed
        BY <1>4, <2>1 DEF Committed
      <3>2. task'[a] = task[a] /\ pc[u] = "Panicked" /\ a \in batch[u]
        BY <1>4, <1>10, <2>1, <3>1
      <3>3. QED BY <2>1, <3>2 DEF PanicLeavesOrphans, Live
    <2>2. QED BY <2>1 DEF PanicLeavesOrphans
  <1>15. ClosedAfterThreads'
    BY <1>2 DEF ClosedAfterThreads
  <1>16. QED BY <1>11, <1>13, <1>14, <1>15

\* The start of the goroutines of a batch.
LEMMA OwnedStart ==
  ASSUME TypeOK, Owned, NEW t \in Thread, StartCheckpoints(t)
  PROVE  Owned'
  <1> USE DEF Owned
  <1>1. PICK started \in SUBSET Fetched(t), rejected \in SUBSET Fetched(t), panics \in BOOLEAN :
          /\ started \cap rejected = {}
          /\ panics => Cardinality(Fetched(t)) > 1
          /\ IF started = Fetched(t) /\ ~panics THEN faults' = faults ELSE Spend
          /\ task' = [a \in Attempt |->
                        IF a \in started
                        THEN [Idle("running") EXCEPT !.orphan = panics]
                        ELSE IF a \in rejected THEN Idle("invalid")
                        ELSE IF a \in Fetched(t) THEN Idle("ended")
                        ELSE task[a]]
          /\ Goto(t, IF panics THEN "Panicked" ELSE "Waiting")
    BY DEF StartCheckpoints
  <1>2. /\ pc[t] = "Fetching" /\ \A a \in batch[t] : task[a].stage \in {"fetched", "ended"}
        /\ batch' = batch /\ tries' = tries /\ closed' = closed
    BY DEF StartCheckpoints, AllFetched, table, life
  <1>3. /\ pc'[t] = IF panics THEN "Panicked" ELSE "Waiting"
        /\ \A u \in Thread \ {t} : pc'[u] = pc[u]
    BY <1>1 DEF Goto, TypeOK
  <1>4. Fetched(t) \subseteq batch[t] /\ \A u \in Thread : batch[u] \subseteq Attempt
    BY DEF Fetched, TypeOK
  <1>5. \A a \in Attempt : a \notin Fetched(t) => task'[a] = task[a]
    BY <1>1
  <1>6. \A a \in Fetched(t) : \/ task'[a].stage = "running" /\ task'[a].orphan = panics
                             \/ task'[a].stage = "invalid"
                             \/ task'[a].stage = "ended"
    BY <1>1, <1>4 DEF Idle
  <1>7. \A u \in Thread : pc'[u] \in Committed <=> pc[u] \in Committed
    BY <1>2, <1>3 DEF Committed
  <1>8. BatchesApart'
    BY <1>2, <1>7 DEF BatchesApart
  <1>9. ASSUME NEW a \in Attempt, Live(a)'
        PROVE  /\ a[2] <= tries'[a[1]]
               /\ task'[a].orphan \/ \E u \in Thread : pc'[u] \in Committed /\ a \in batch'[u]
    <2>1. CASE a \in Fetched(t)
      BY <1>2, <1>4, <1>7, <2>1 DEF BatchesApart, Committed
    <2>2. CASE a \notin Fetched(t)
      <3>1. task'[a] = task[a] /\ Live(a)
        BY <1>5, <1>9, <2>2 DEF Live
      <3>2. QED BY <1>2, <1>7, <3>1 DEF TasksOwned
    <2>3. QED BY <2>1, <2>2
  <1>10. TasksOwned'
    BY <1>9 DEF TasksOwned
  <1>11. ASSUME NEW u \in Thread, pc'[u] = "Panicked", NEW a \in batch'[u], Live(a)'
         PROVE  task'[a].orphan \/ task'[a].stage = "invalid"
    <2>1. a \in batch[u] /\ a \in Attempt
      BY <1>2, <1>4, <1>11
    <2>2. CASE u = t
      <3>1. panics = TRUE
        BY <1>3, <1>11, <2>2
      <3>2. CASE a \in Fetched(t)
        BY <1>6, <1>11, <3>1, <3>2 DEF Live
      <3>3. CASE a \notin Fetched(t)
        <4>1. task'[a] = task[a] /\ task[a].stage = "ended"
          BY <1>2, <1>5, <2>1, <2>2, <3>3 DEF Fetched
        <4>2. QED BY <1>11, <4>1 DEF Live
      <3>4. QED BY <3>2, <3>3
    <2>3. CASE u # t
      <3>1. pc[u] = "Panicked"
        BY <1>3, <1>11, <2>3
      <3>2. a \notin batch[t]
        BY <1>2, <2>1, <2>3, <3>1 DEF BatchesApart, Committed
      <3>3. task'[a] = task[a]
        BY <1>4, <1>5, <2>1, <3>2
      <3>4. QED BY <1>11, <2>1, <3>1, <3>3 DEF PanicLeavesOrphans, Live
    <2>4. QED BY <2>2, <2>3
  <1>12. PanicLeavesOrphans'
    BY <1>11 DEF PanicLeavesOrphans
  <1>13. ClosedAfterThreads'
    BY <1>2 DEF ClosedAfterThreads
  <1>14. QED BY <1>8, <1>10, <1>12, <1>13

\* Every step keeps the ownership.
LEMMA OwnedStep ==
  ASSUME TypeOK, Owned, [Next]_vars
  PROVE  Owned'
  <1>b. batch \in [Thread -> SUBSET Attempt]
    BY DEF TypeOK
  <1>c. ClosedAfterThreads
    BY DEF Owned
  <1>1. ASSUME NEW t \in Thread, ThreadStep(t) PROVE Owned'
    <2>1. CASE Claim(t)
      BY <2>1, OwnedClaim
    <2>2. CASE StartCheckpoints(t)
      BY <2>2, OwnedStart
    <2>3. CASE AbortClaim(t)
      <3>1. /\ pc[t] = "Idle" /\ pc' = [pc EXCEPT ![t] = "Aborted"]
            /\ \E b : batch' = [batch EXCEPT ![t] = b]
            /\ tries' = tries /\ task' = task /\ closed' = closed
        BY <2>3 DEF AbortClaim, Goto, life
      <3>2. /\ pc'[t] = "Aborted"
            /\ \A u \in Thread \ {t} : pc'[u] = pc[u] /\ batch'[u] = batch[u]
        BY <3>1 DEF TypeOK
      <3>3. ClosedAfterThreads'
        BY <1>c, <3>1 DEF ClosedAfterThreads
      <3>4. QED BY <1>b, <3>1, <3>2, <3>3, OwnedKept DEF Committed, Live
    <2>4. CASE FailAborted(t) \/ FailBatch(t) \/ RecoverPanic(t) \/ FinishBatch(t)
      <3>1. /\ pc' = [pc EXCEPT ![t] = "Idle"] /\ batch' = [batch EXCEPT ![t] = {}]
            /\ tries' = tries /\ task' = task /\ closed' = closed /\ pc[t] # "Stopped"
        BY <2>4 DEF FailAborted, FailBatch, RecoverPanic, FinishBatch, AllFetched, Return, life, table
      <3>2. /\ pc'[t] = "Idle"
            /\ \A u \in Thread \ {t} : pc'[u] = pc[u] /\ batch'[u] = batch[u]
        BY <3>1 DEF TypeOK
      <3>3. ClosedAfterThreads'
        BY <1>c, <3>1 DEF ClosedAfterThreads
      <3>4. \A a \in batch[t] : pc[t] \in Committed /\ Live(a) => task[a].orphan
        <4>1. CASE FailAborted(t)
          BY <4>1 DEF FailAborted, Committed
        <4>2. CASE FailBatch(t)
          BY <4>2 DEF FailBatch, AllFetched, Fetched, Live
        <4>3. CASE RecoverPanic(t)
          BY <4>3 DEF RecoverPanic, Owned, PanicLeavesOrphans
        <4>4. CASE FinishBatch(t)
          BY <4>4 DEF FinishBatch
        <4>5. QED BY <2>4, <4>1, <4>2, <4>3, <4>4
      <3>5. ASSUME NEW u \in Thread, NEW a \in batch[u],
                   pc[u] \in Committed, Live(a)', ~task[a].orphan
            PROVE  pc'[u] \in Committed
        <4>1. Live(a)
          BY <3>1, <3>5 DEF Live
        <4>2. u # t
          BY <3>4, <3>5, <4>1
        <4>3. QED BY <3>2, <3>5, <4>2
      <3>6. \A u \in Thread : pc'[u] \in Committed => pc'[u] = pc[u] /\ batch'[u] = batch[u]
        BY <3>2 DEF Committed
      <3>7. QED BY <1>b, <3>1, <3>3, <3>5, <3>6, OwnedKept DEF Live
    <2>5. CASE StopThread(t)
      <3>1. /\ pc[t] = "Idle" /\ pc' = [pc EXCEPT ![t] = "Stopped"]
            /\ batch' = batch /\ tries' = tries /\ task' = task /\ closed' = closed
        BY <2>5 DEF StopThread, Goto, life, table
      <3>2. pc'[t] = "Stopped" /\ \A u \in Thread \ {t} : pc'[u] = pc[u]
        BY <3>1 DEF TypeOK
      <3>3. ClosedAfterThreads'
        BY <1>c, <3>1 DEF ClosedAfterThreads
      <3>4. QED BY <1>b, <3>1, <3>2, <3>3, OwnedKept DEF Committed, Live
    <2>6. CASE FindNothing(t)
      BY <1>b, <1>c, <2>6, OwnedKept DEF FindNothing, vars, table, life, thread, Live, ClosedAfterThreads
    <2>7. QED BY <1>1, <2>1, <2>2, <2>3, <2>4, <2>5, <2>6 DEF ThreadStep
  <1>2. ASSUME NEW a \in Attempt, TaskStep(a) PROVE Owned'
    <2>1. UNCHANGED <<tries, pc, batch, closed>>
      BY <1>2 DEF TaskStep, FetchCheckpoint, Fail, FetchTxs, SendTxs, SendCheckpoint, MarkDone,
                  table, life
    <2>2. \A b \in Attempt : b # a => task'[b] = task[b]
      BY <1>2 DEF TaskStep, FetchCheckpoint, Fail, FetchTxs, SendTxs, SendCheckpoint, MarkDone,
                  To, TypeOK
    <2>3. Live(a)' => /\ Live(a) /\ task'[a].orphan = task[a].orphan
                      /\ task[a].stage # "invalid"
      <3>1. task[a] \in Task /\ task'[a] = IF Fail(a) \/ MarkDone(a) THEN Idle("ended") ELSE task'[a]
        BY DEF TypeOK, Fail, MarkDone
      <3>2. CASE Fail(a) \/ MarkDone(a)
        BY <3>1, <3>2 DEF Live, Idle
      <3>3. CASE FetchCheckpoint(a) \/ FetchTxs(a) \/ SendTxs(a) \/ SendCheckpoint(a)
        BY <3>1, <3>3 DEF FetchCheckpoint, FetchTxs, SendTxs, SendCheckpoint, Send, To, Live, TypeOK, Task
      <3>4. QED BY <1>2, <3>2, <3>3 DEF TaskStep
    <2>4. ClosedAfterThreads'
      BY <1>c, <2>1 DEF ClosedAfterThreads
    <2>5. \A b \in Attempt : Live(b)' =>
            /\ Live(b) /\ task'[b].orphan = task[b].orphan
            /\ task[b].stage = "invalid" => task'[b].stage = "invalid"
      BY <2>2, <2>3 DEF Live
    <2>6. QED BY <1>b, <2>1, <2>4, <2>5, OwnedKept
  <1>3. CASE StoreStep \/ PoolStep \/ Cancel \/ (\E r \in Row : UpdateFailedStatus(r)) \/ UNCHANGED vars
    <2>1. UNCHANGED <<tries, pc, batch, task, closed>>
      BY <1>3 DEF StoreStep, PoolStep, Receive, Submit, LeaveSelect, StopAndWait, Upload, FailUpload,
                  Cancel, UpdateFailedStatus, vars, table, life, thread
    <2>2. ClosedAfterThreads'
      BY <1>c, <2>1 DEF ClosedAfterThreads
    <2>3. QED BY <1>b, <2>1, <2>2, OwnedKept DEF Live
  <1>4. CASE CloseChannels
    <2>1. UNCHANGED <<tries, pc, batch, task>> /\ \A t \in Thread : pc[t] = "Stopped"
      BY <1>4 DEF CloseChannels, table, thread
    <2>2. ClosedAfterThreads'
      BY <2>1 DEF ClosedAfterThreads
    <2>3. QED BY <1>b, <2>1, <2>2, OwnedKept DEF Live
  <1>5. CASE Exit \/ Kill
    <2>1. /\ tries' = tries /\ closed' = FALSE
          /\ pc' = [t \in Thread |-> "Idle"] /\ batch' = [t \in Thread |-> {}]
          /\ task' = [a \in Attempt |-> IF Live(a) THEN Idle("ended") ELSE task[a]]
      BY <1>5 DEF Exit, Kill, Restart, table
    <2>2. \A a \in Attempt : ~Live(a)'
      BY <2>1 DEF Live, Idle
    <2>3. \A t \in Thread : pc'[t] = "Idle"
      BY <2>1
    <2>4. ClosedAfterThreads'
      BY <2>1 DEF ClosedAfterThreads
    <2>5. QED BY <1>b, <2>1, <2>2, <2>3, <2>4, OwnedKept DEF Committed
  <1>6. QED BY <1>1, <1>2, <1>3, <1>4, <1>5 DEF Next

-----------------------------------------------------------------------------
(***************************************************************************)
(* Items on their way to the bucket.                                       *)
(***************************************************************************)

\* The item a goroutine sends next.
NextItem(a) == <<task[a].stage, a, task[a].chunk>>

\* A step takes no item out of sight, and puts none in memory but one that is
\* sent.
ItemsKept ==
  /\ \A i \in Item : Accounted(i) => Accounted(i)'
  /\ \A i \in Item : InMemory(i)' =>
        \/ InMemory(i)
        \/ \E a \in Attempt : task[a].stage \in Topic /\ i = NextItem(a)

\* Steps that leave the items where they are.
LEMMA StillKept ==
  ASSUME UNCHANGED flow, UNCHANGED s3
  PROVE  ItemsKept
  BY DEF flow, s3, ItemsKept, Accounted, InMemory

\* A send.
LEMMA SendKept ==
  ASSUME TypeOK, NEW a \in Attempt, NEW topic \in Topic, Send(a, topic),
         UNCHANGED <<inHand, pool, stored, lost>>, NEW c, c = task[a].chunk
  PROVE  ItemsKept /\ Accounted(<<topic, a, c>>)'
  <1> DEFINE new == <<topic, a, c>>
  <1>1. /\ task[a].stage = topic
        /\ channel' = [channel EXCEPT ![topic] = Append(channel[topic], new)]
        /\ channel[topic] \in Seq(Item)
    BY DEF Send, TypeOK
  <1>2. new \in Item
    BY DEF TypeOK, Task, Item
  <1> HIDE DEF new
  <1>3. /\ channel'[topic] = Append(channel[topic], new)
        /\ \A other \in Topic : other # topic => channel'[other] = channel[other]
    BY <1>1 DEF TypeOK
  <1>4. /\ DOMAIN channel'[topic] = 1 .. Len(channel[topic]) + 1
        /\ DOMAIN channel[topic] = 1 .. Len(channel[topic]) /\ Len(channel[topic]) \in Nat
        /\ \A n \in DOMAIN channel[topic] : channel'[topic][n] = channel[topic][n]
        /\ channel'[topic][Len(channel[topic]) + 1] = new
    BY <1>1, <1>2, <1>3
  <1>5. ASSUME NEW i, InMemory(i) PROVE InMemory(i)'
    <2>1. CASE \E other \in Topic : \E n \in DOMAIN channel[other] : channel[other][n] = i
      <3>1. PICK other \in Topic : \E n \in DOMAIN channel[other] : channel[other][n] = i
        BY <2>1
      <3>2. PICK n \in DOMAIN channel[other] : channel[other][n] = i
        BY <3>1
      <3>3. n \in DOMAIN channel'[other] /\ channel'[other][n] = i
        BY <1>3, <1>4, <3>2
      <3>4. QED BY <3>3 DEF InMemory
    <2>2. CASE inHand = i \/ i \in pool
      BY <2>2 DEF InMemory
    <2>3. QED BY <1>5, <2>1, <2>2 DEF InMemory
  <1>6. ASSUME NEW i, InMemory(i)', i # new PROVE InMemory(i)
    <2>1. CASE \E other \in Topic : \E n \in DOMAIN channel'[other] : channel'[other][n] = i
      <3>1. PICK other \in Topic : \E n \in DOMAIN channel'[other] : channel'[other][n] = i
        BY <2>1
      <3>2. PICK n \in DOMAIN channel'[other] : channel'[other][n] = i
        BY <3>1
      <3>3. n \in DOMAIN channel[other] /\ channel[other][n] = i
        BY <1>3, <1>4, <1>6, <3>2
      <3>4. QED BY <3>3 DEF InMemory
    <2>2. CASE inHand' = i \/ i \in pool'
      BY <2>2 DEF InMemory
    <2>3. QED BY <1>6, <2>1, <2>2 DEF InMemory
  <1>7. InMemory(new)'
    <2>1. Len(channel[topic]) + 1 \in DOMAIN channel'[topic]
      BY <1>4
    <2>2. QED BY <1>4, <2>1 DEF InMemory
  <1>8. new = NextItem(a)
    BY <1>1 DEF new, NextItem
  <1>9. ItemsKept
    BY <1>1, <1>5, <1>6, <1>8 DEF ItemsKept, Accounted
  <1>10. QED BY <1>7, <1>9 DEF Accounted, new

\* The storing goroutine takes an item.
LEMMA ReceiveKept ==
  ASSUME TypeOK, NEW topic \in Topic, Receive(topic)
  PROVE  ItemsKept
  <1>1. /\ store = "select" /\ channel[topic] # <<>>
        /\ inHand' = Head(channel[topic])
        /\ channel' = [channel EXCEPT ![topic] = Tail(channel[topic])]
        /\ UNCHANGED <<pool, stored, lost>>
    BY DEF Receive, s3
  <1>2. /\ channel'[topic] = Tail(channel[topic])
        /\ \A other \in Topic : other # topic => channel'[other] = channel[other]
    BY <1>1 DEF TypeOK
  <1>3. channel[topic] \in Seq(Item) /\ inHand = NoItem /\ \A i \in Item : i # NoItem
    <2>1. \A i \in Item : i # NoItem
      BY DEF Item, NoItem
    <2>2. inHand = NoItem
      BY <1>1 DEF TypeOK
    <2>3. channel[topic] \in Seq(Item)
      BY DEF TypeOK
    <2>4. QED BY <2>1, <2>2, <2>3
  <1>4. ASSUME NEW n \in DOMAIN channel[topic]
        PROVE  \/ channel[topic][n] = inHand'
               \/ \E m \in DOMAIN channel'[topic] : channel'[topic][m] = channel[topic][n]
    <2>1. CASE n = 1
      BY <1>1, <1>3, <2>1
    <2>2. CASE n # 1
      <3>1. n - 1 \in DOMAIN Tail(channel[topic]) /\ Tail(channel[topic])[n - 1] = channel[topic][n]
        BY <1>1, <1>3, <2>2
      <3>2. QED BY <1>2, <3>1
    <2>3. QED BY <2>1, <2>2
  <1>5. /\ 1 \in DOMAIN channel[topic] /\ channel[topic][1] = inHand'
        /\ \A m \in DOMAIN channel'[topic] :
              m + 1 \in DOMAIN channel[topic] /\ channel'[topic][m] = channel[topic][m + 1]
    <2>1. 1 \in DOMAIN channel[topic] /\ channel[topic][1] = Head(channel[topic])
      BY <1>1, <1>3
    <2>2. QED BY <1>1, <1>2, <2>1, HeadType
  <1>6. ASSUME NEW i \in Item, InMemory(i) PROVE InMemory(i)'
    <2>1. CASE \E n \in DOMAIN channel[topic] : channel[topic][n] = i
      BY <1>4, <2>1 DEF InMemory
    <2>2. CASE \E other \in Topic : other # topic /\ \E n \in DOMAIN channel[other] : channel[other][n] = i
      BY <1>2, <2>2 DEF InMemory
    <2>3. CASE i \in pool
      BY <1>1, <2>3 DEF InMemory
    <2>4. QED BY <1>3, <1>6, <2>1, <2>2, <2>3 DEF InMemory
  <1>7. ASSUME NEW i \in Item, InMemory(i)' PROVE InMemory(i)
    <2>1. CASE inHand' = i
      BY <1>5, <2>1 DEF InMemory
    <2>2. CASE \E n \in DOMAIN channel'[topic] : channel'[topic][n] = i
      BY <1>5, <2>2 DEF InMemory
    <2>3. CASE \E other \in Topic : other # topic /\ \E n \in DOMAIN channel'[other] : channel'[other][n] = i
      BY <1>2, <2>3 DEF InMemory
    <2>4. CASE i \in pool'
      BY <1>1, <2>4 DEF InMemory
    <2>5. QED BY <1>7, <2>1, <2>2, <2>3, <2>4 DEF InMemory
  <1>8. QED BY <1>1, <1>6, <1>7 DEF ItemsKept, Accounted

\* The end of the process.
LEMMA RestartKept ==
  ASSUME TypeOK, Restart
  PROVE  ItemsKept
  <1> DEFINE Queued == UNION {{channel[topic][n] : n \in DOMAIN channel[topic]} : topic \in Topic}
  <1>1. /\ lost' = lost \cup pool \cup ({inHand} \ {NoItem}) \cup Queued
        /\ channel' = [topic \in Topic |-> <<>>] /\ inHand' = NoItem /\ pool' = {}
        /\ stored' = stored
    BY DEF Restart
  <1>2. \A topic \in Topic : \A n \in DOMAIN channel[topic] : channel[topic][n] \in Queued
    OBVIOUS
  <1> HIDE DEF Queued
  <1>3. \A i \in Item : i # NoItem
    BY DEF Item, NoItem
  <1>4. ASSUME NEW i \in Item, Accounted(i) PROVE i \in stored' \/ i \in lost'
    BY <1>1, <1>2, <1>3, <1>4 DEF Accounted, InMemory
  <1>5. ASSUME NEW i \in Item PROVE ~InMemory(i)'
    <2>1. \A topic \in Topic : channel'[topic] = <<>>
      BY <1>1
    <2>2. DOMAIN <<>> = {}
      OBVIOUS
    <2>3. QED BY <1>1, <1>3, <2>1, <2>2 DEF InMemory
  <1>6. QED BY <1>4, <1>5 DEF ItemsKept, Accounted

\* Every step.
LEMMA ItemsStep ==
  ASSUME TypeOK, [Next]_vars
  PROVE  ItemsKept
  <1>1. ASSUME NEW t \in Thread, ThreadStep(t) PROVE ItemsKept
    <2>1. UNCHANGED <<flow, s3>>
      BY <1>1 DEF ThreadStep, Claim, AbortClaim, FailAborted, FindNothing, FailBatch,
                  StartCheckpoints, RecoverPanic, FinishBatch, StopThread, vars
    <2>2. QED BY <2>1, StillKept
  <1>2. ASSUME NEW a \in Attempt, TaskStep(a) PROVE ItemsKept
    <2>1. CASE SendTxs(a) \/ SendCheckpoint(a)
      <3>1. (\E topic \in Topic : Send(a, topic)) /\ UNCHANGED <<inHand, pool, stored, lost>>
        BY <2>1 DEF SendTxs, SendCheckpoint, Topic, s3
      <3>2. QED BY <3>1, SendKept
    <2>2. CASE FetchCheckpoint(a) \/ Fail(a) \/ FetchTxs(a) \/ MarkDone(a)
      BY <2>2, StillKept DEF FetchCheckpoint, Fail, FetchTxs, MarkDone
    <2>3. QED BY <1>2, <2>1, <2>2 DEF TaskStep
  <1>3. CASE StoreStep
    <2>1. CASE Submit
      <3>1. /\ pool' = pool \cup {inHand} /\ inHand' = NoItem
            /\ UNCHANGED <<channel, stored, lost>>
        BY <2>1 DEF Submit, s3
      <3>2. \A i \in Item : i # NoItem
        BY DEF Item, NoItem
      <3>3. \A i \in Item : InMemory(i) <=> InMemory(i)'
        BY <3>1, <3>2 DEF InMemory
      <3>4. QED BY <3>1, <3>3 DEF ItemsKept, Accounted
    <2>2. CASE LeaveSelect \/ StopAndWait
      BY <2>2 DEF LeaveSelect, StopAndWait, s3, ItemsKept, Accounted, InMemory
    <2>3. QED BY <1>3, <2>1, <2>2, ReceiveKept DEF StoreStep
  <1>4. ASSUME NEW i \in pool, Upload(i) \/ FailUpload(i) PROVE ItemsKept
    <2>1. /\ pool' = pool \ {i} /\ UNCHANGED <<channel, inHand>>
          /\ stored \subseteq stored' /\ lost \subseteq lost' /\ i \in stored' \cup lost'
      BY <1>4 DEF Upload, FailUpload
    <2>2. \A j \in Item : InMemory(j)' => InMemory(j)
      BY <2>1 DEF InMemory
    <2>3. \A j \in Item : InMemory(j) /\ j # i => InMemory(j)'
      BY <2>1 DEF InMemory
    <2>4. QED BY <2>1, <2>2, <2>3 DEF ItemsKept, Accounted
  <1>5. CASE Cancel \/ CloseChannels \/ (\E r \in Row : UpdateFailedStatus(r)) \/ UNCHANGED vars
    BY <1>5, StillKept DEF Cancel, CloseChannels, UpdateFailedStatus, vars
  <1>6. CASE Exit \/ Kill
    BY <1>6, RestartKept DEF Exit, Kill
  <1>7. QED BY <1>1, <1>2, <1>3, <1>4, <1>5, <1>6 DEF Next, PoolStep

-----------------------------------------------------------------------------
(***************************************************************************)
(* What DONE stands for.                                                   *)
(***************************************************************************)

\* An attempt's items are items.
LEMMA ItemType ==
  ASSUME NEW topic \in Topic, NEW a \in Attempt, NEW c \in Nat \ {0}
  PROVE  <<topic, a, c>> \in Item
  BY DEF Item

\* The goroutines of a step that sends nothing are where they were, or at the
\* beginning.
Restarted(a) == task'[a].chunk = 1 /\ task'[a].stage \notin Topic

Stays(a) ==
  /\ task'[a].chunk = task[a].chunk
  /\ task'[a].stage \in Topic =>
       \/ task'[a].stage = task[a].stage
       \/ task'[a].stage = "txs" /\ task[a].chunk <= ChunksOf[a[1]]

\* What such a goroutine has sent is what it had sent.
LEMMA SentKept ==
  ASSUME TypeOK, TypeOK', SentAccounted, ItemsKept, NEW a \in Attempt,
         Restarted(a) \/ Stays(a)
  PROVE  /\ \A c \in 1 .. task'[a].chunk - 1, topic \in Topic : Accounted(<<topic, a, c>>)'
         /\ \A c : task'[a].stage = "checkpoints" /\ c = task'[a].chunk => Accounted(<<"txs", a, c>>)'
  <1>1. task[a].chunk \in Nat \ {0} /\ "txs" \in Topic /\ "checkpoints" \in Topic
    BY DEF TypeOK, Task, Topic
  <1>2. CASE Restarted(a)
    BY <1>1, <1>2 DEF Restarted
  <1>3. CASE Stays(a)
    <2>1. ASSUME NEW c \in 1 .. task'[a].chunk - 1, NEW topic \in Topic
          PROVE  Accounted(<<topic, a, c>>)'
      <3>1. c \in 1 .. task[a].chunk - 1 /\ c \in Nat \ {0}
        BY <1>1, <1>3 DEF Stays
      <3>2. Accounted(<<topic, a, c>>)
        BY <3>1 DEF SentAccounted
      <3>3. <<topic, a, c>> \in Item
        BY <3>1, ItemType
      <3>4. QED BY <3>2, <3>3 DEF ItemsKept
    <2>2. ASSUME NEW c, task'[a].stage = "checkpoints", c = task'[a].chunk
          PROVE  Accounted(<<"txs", a, c>>)'
      <3>1. task[a].stage = "checkpoints" /\ c = task[a].chunk
        BY <1>1, <1>3, <2>2 DEF Stays
      <3>2. Accounted(<<"txs", a, c>>)
        BY <3>1 DEF SentAccounted
      <3>3. <<"txs", a, c>> \in Item
        BY <1>1, <3>1, ItemType
      <3>4. QED BY <3>2, <3>3 DEF ItemsKept
    <2>3. QED BY <2>1, <2>2
  <1>4. QED BY <1>2, <1>3

\* What the goroutines do that do not send.
LEMMA TasksStay ==
  ASSUME TypeOK, [Next]_vars, NEW b \in Attempt,
         \A a \in Attempt : ~SendTxs(a) /\ ~SendCheckpoint(a)
  PROVE  Restarted(b) \/ Stays(b)
  <1>i. \A stage \in Stage : stage \notin Topic => Idle(stage).chunk = 1 /\ Idle(stage).stage \notin Topic
    BY DEF Idle
  <1>s. /\ {"fetching", "running", "invalid", "ended"} \subseteq Stage
        /\ {"fetching", "running", "invalid", "ended"} \cap Topic = {}
    BY DEF Stage, Topic
  <1>u. task' = task => Stays(b)
    BY DEF Stays
  <1>1. ASSUME NEW t \in Thread, ThreadStep(t) PROVE Restarted(b) \/ Stays(b)
    <2>1. CASE Claim(t)
      <3>1. task'[b] = task[b] \/ task'[b] = Idle("fetching")
        BY <2>1 DEF Claim
      <3>2. QED BY <1>i, <1>s, <3>1 DEF Restarted, Stays
    <2>2. CASE StartCheckpoints(t)
      <3>1. PICK panics \in BOOLEAN :
              task'[b] \in {task[b], [Idle("running") EXCEPT !.orphan = panics],
                            Idle("invalid"), Idle("ended")}
        <4>1. PICK started \in SUBSET Fetched(t), rejected \in SUBSET Fetched(t), panics \in BOOLEAN :
                /\ started \cap rejected = {}
                /\ panics => Cardinality(Fetched(t)) > 1
                /\ IF started = Fetched(t) /\ ~panics THEN faults' = faults ELSE Spend
                /\ task' = [a \in Attempt |->
                              IF a \in started
                              THEN [Idle("running") EXCEPT !.orphan = panics]
                              ELSE IF a \in rejected THEN Idle("invalid")
                              ELSE IF a \in Fetched(t) THEN Idle("ended")
                              ELSE task[a]]
                /\ Goto(t, IF panics THEN "Panicked" ELSE "Waiting")
          BY <2>2 DEF StartCheckpoints
        <4>2. QED BY <4>1
      <3>2. /\ [Idle("running") EXCEPT !.orphan = panics].chunk = 1
            /\ [Idle("running") EXCEPT !.orphan = panics].stage = "running"
        BY DEF Idle
      <3>3. QED BY <1>i, <1>s, <3>1, <3>2 DEF Restarted, Stays
    <2>3. CASE ~Claim(t) /\ ~StartCheckpoints(t)
      <3>1. task' = task
        BY <1>1, <2>3 DEF ThreadStep, AbortClaim, FailAborted, FindNothing, FailBatch, RecoverPanic,
                          FinishBatch, StopThread, vars, thread
      <3>2. QED BY <1>u, <3>1
    <2>4. QED BY <2>1, <2>2, <2>3
  <1>2. ASSUME NEW a \in Attempt, TaskStep(a) PROVE Restarted(b) \/ Stays(b)
    <2>1. \A x \in Attempt : x # a => task'[x] = task[x]
      BY <1>2 DEF TaskStep, FetchCheckpoint, Fail, FetchTxs, SendTxs, SendCheckpoint, MarkDone,
                  To, TypeOK
    <2>2. CASE b # a
      BY <2>1, <2>2 DEF Stays
    <2>3. CASE b = a
      <3>1. CASE Fail(a) \/ MarkDone(a)
        <4>1. task'[a] = Idle("ended")
          BY <3>1 DEF Fail, MarkDone, TypeOK
        <4>2. QED BY <1>i, <1>s, <2>3, <4>1 DEF Restarted
      <3>2. CASE FetchCheckpoint(a) \/ FetchTxs(a)
        <4>1. \E stage \in {"fetched", "failing", "txs"} :
                 /\ task' = [task EXCEPT ![a].stage = stage]
                 /\ stage = "txs" => task[a].chunk <= ChunksOf[a[1]]
          BY <3>2 DEF FetchCheckpoint, FetchTxs, To
        <4>2. PICK stage \in {"fetched", "failing", "txs"} :
                 /\ task' = [task EXCEPT ![a].stage = stage]
                 /\ stage = "txs" => task[a].chunk <= ChunksOf[a[1]]
          BY <4>1
        <4>3. task'[a].stage = stage /\ task'[a].chunk = task[a].chunk
          BY <4>2 DEF TypeOK, Task
        <4>4. QED BY <2>3, <4>2, <4>3 DEF Stays, Topic
      <3>3. QED BY <1>2, <3>1, <3>2 DEF TaskStep
    <2>4. QED BY <2>2, <2>3
  <1>3. CASE Exit \/ Kill
    <2>1. task'[b] = task[b] \/ task'[b] = Idle("ended")
      BY <1>3 DEF Exit, Kill, Restart
    <2>2. QED BY <1>i, <1>s, <2>1 DEF Restarted, Stays
  <1>4. CASE StoreStep \/ PoolStep \/ Cancel \/ CloseChannels \/ (\E r \in Row : UpdateFailedStatus(r))
             \/ UNCHANGED vars
    <2>1. task' = task
      BY <1>4 DEF StoreStep, PoolStep, Receive, Submit, LeaveSelect, StopAndWait, Upload, FailUpload,
                  Cancel, CloseChannels, UpdateFailedStatus, vars, thread
    <2>2. QED BY <1>u, <2>1
  <1>5. QED BY <1>1, <1>2, <1>3, <1>4 DEF Next

\* What a goroutine that sends has sent.
LEMMA SendAccounted ==
  ASSUME TypeOK, TypeOK', SentAccounted, ItemsKept, NEW a \in Attempt,
         SendTxs(a) \/ SendCheckpoint(a)
  PROVE  SentAccounted'
  <1>t. task[a] \in Task /\ task[a].chunk \in Nat \ {0} /\ "txs" \in Topic /\ "checkpoints" \in Topic
    BY DEF TypeOK, Task, Topic
  <1>1. \A b \in Attempt : b # a => task'[b] = task[b]
    BY DEF SendTxs, SendCheckpoint, To, TypeOK
  <1>2. ASSUME NEW b \in Attempt, b # a
        PROVE  /\ \A c \in 1 .. task'[b].chunk - 1, topic \in Topic : Accounted(<<topic, b, c>>)'
               /\ \A c : task'[b].stage = "checkpoints" /\ c = task'[b].chunk => Accounted(<<"txs", b, c>>)'
    <2>1. Stays(b)
      BY <1>1, <1>2 DEF Stays
    <2>2. QED BY <2>1, SentKept
  <1>3. ASSUME NEW c \in 1 .. task[a].chunk - 1, NEW topic \in Topic
        PROVE  Accounted(<<topic, a, c>>)'
    <2>1. Accounted(<<topic, a, c>>) /\ c \in Nat \ {0}
      <3>1. Accounted(<<topic, a, c>>)
        BY <1>3 DEF SentAccounted
      <3>2. c \in Nat \ {0}
        BY <1>t, <1>3
      <3>3. QED BY <3>1, <3>2
    <2>2. <<topic, a, c>> \in Item
      BY <2>1, ItemType
    <2>3. QED BY <2>1, <2>2 DEF ItemsKept
  <1>4. /\ \A c \in 1 .. task'[a].chunk - 1, topic \in Topic : Accounted(<<topic, a, c>>)'
        /\ \A c : task'[a].stage = "checkpoints" /\ c = task'[a].chunk => Accounted(<<"txs", a, c>>)'
    <2>1. CASE SendTxs(a)
      <3>1. /\ Send(a, "txs") /\ task' = [task EXCEPT ![a].stage = "checkpoints"]
            /\ UNCHANGED <<inHand, pool, stored, lost>>
        BY <2>1 DEF SendTxs, To, s3
      <3>2. task'[a].chunk = task[a].chunk
        BY <1>t, <3>1 DEF TypeOK, Task
      <3>3. ASSUME NEW c, c = task'[a].chunk PROVE Accounted(<<"txs", a, c>>)'
        <4>1. c = task[a].chunk
          BY <3>2, <3>3
        <4>2. QED BY <1>t, <3>1, <4>1, SendKept
      <3>4. QED BY <1>3, <3>2, <3>3
    <2>2. CASE SendCheckpoint(a)
      <3>1. /\ Send(a, "checkpoints") /\ UNCHANGED <<inHand, pool, stored, lost>>
            /\ task' = [task EXCEPT ![a].stage = "running", ![a].chunk = @ + 1]
        BY <2>2 DEF SendCheckpoint, s3
      <3>2. task'[a].chunk = task[a].chunk + 1 /\ task'[a].stage = "running"
        BY <1>t, <3>1 DEF TypeOK, Task
      <3>3. ASSUME NEW c, c = task[a].chunk, NEW topic \in Topic PROVE Accounted(<<topic, a, c>>)'
        <4>1. CASE topic = "checkpoints"
          BY <1>t, <3>1, <3>3, <4>1, SendKept
        <4>2. CASE topic = "txs"
          <5>1. task[a].stage = "checkpoints"
            BY <3>1 DEF Send
          <5>2. Accounted(<<"txs", a, c>>) /\ <<"txs", a, c>> \in Item
            BY <1>t, <3>3, <5>1, ItemType DEF SentAccounted
          <5>3. QED BY <4>2, <5>2 DEF ItemsKept
        <4>3. QED BY <4>1, <4>2 DEF Topic
      <3>4. ASSUME NEW c \in 1 .. task'[a].chunk - 1, NEW topic \in Topic
            PROVE  Accounted(<<topic, a, c>>)'
        <4>1. c = task[a].chunk \/ c \in 1 .. task[a].chunk - 1
          BY <1>t, <3>2
        <4>2. QED BY <1>3, <3>3, <4>1
      <3>5. QED BY <3>2, <3>4
    <2>3. QED BY <2>1, <2>2
  <1>5. QED BY <1>2, <1>4 DEF SentAccounted

\* Every step keeps what was sent accounted for.
LEMMA SentStep ==
  ASSUME TypeOK, TypeOK', SentAccounted, [Next]_vars
  PROVE  SentAccounted'
  <1>1. ItemsKept
    BY ItemsStep
  <1>2. CASE \E a \in Attempt : SendTxs(a) \/ SendCheckpoint(a)
    BY <1>1, <1>2, SendAccounted
  <1>3. CASE \A a \in Attempt : ~SendTxs(a) /\ ~SendCheckpoint(a)
    BY <1>1, <1>3, TasksStay, SentKept DEF SentAccounted
  <1>4. QED BY <1>2, <1>3

\* No row becomes DONE in a step other than MarkDone, and tries never shrink.
LEMMA StatusStep ==
  ASSUME TypeOK, [Next]_vars, NEW r \in Row
  PROVE  /\ tries[r] <= tries'[r]
         /\ status'[r] = DONE =>
               status[r] = DONE \/ \E a \in Attempt : a[1] = r /\ MarkDone(a)
  <1>n. \A q \in Row : tries[q] \in Nat
    BY Bounds DEF TypeOK
  <1>s. /\ {FAIL, PROCESSING, DONE} \subseteq Status /\ FAIL # DONE /\ PROCESSING # DONE
        /\ status \in [Row -> Status]
    BY DEF Status, FAIL, PROCESSING, DONE, TypeOK
  <1>1. ASSUME NEW t \in Thread, ThreadStep(t)
        PROVE  tries[r] <= tries'[r] /\ (status'[r] = DONE => status[r] = DONE)
    <2>1. CASE Claim(t)
      <3>1. PICK rows : /\ status' = SetStatus(status, rows, PROCESSING)
                        /\ tries' = [q \in Row |-> IF q \in rows THEN tries[q] + 1 ELSE tries[q]]
        BY <2>1 DEF Claim
      <3>2. status'[r] = DONE => status[r] = DONE
        BY <1>s, <3>1, SetStatusType
      <3>3. QED BY <1>n, <3>1, <3>2
    <2>2. CASE AbortClaim(t)
      <3>1. PICK rows : \E s \in {status, SetStatus(status, rows, PROCESSING)} : status' = s
        BY <2>2 DEF AbortClaim
      <3>2. status'[r] = DONE => status[r] = DONE
        <4>1. status' = status \/ status' = SetStatus(status, rows, PROCESSING)
          BY <3>1
        <4>2. QED BY <1>s, <4>1, SetStatusType
      <3>3. tries' = tries
        BY <2>2 DEF AbortClaim
      <3>4. QED BY <1>n, <3>2, <3>3
    <2>3. CASE FailAborted(t) \/ FailBatch(t) \/ RecoverPanic(t)
      <3>1. UpdateCheckpointStatus(Rows(batch[t]), FAIL) /\ tries' = tries
        BY <2>3 DEF FailAborted, FailBatch, RecoverPanic
      <3>2. status'[r] = DONE => status[r] = DONE
        BY <1>s, <3>1, UpdateType
      <3>3. QED BY <1>n, <3>1, <3>2
    <2>4. CASE StartCheckpoints(t) \/ FinishBatch(t) \/ StopThread(t) \/ FindNothing(t)
      <3>1. UNCHANGED table
        BY <2>4 DEF StartCheckpoints, FinishBatch, StopThread, FindNothing, vars
      <3>2. QED BY <1>n, <3>1 DEF table
    <2>5. QED BY <1>1, <2>1, <2>2, <2>3, <2>4 DEF ThreadStep
  <1>2. ASSUME NEW a \in Attempt, TaskStep(a)
        PROVE  /\ tries[r] <= tries'[r]
               /\ status'[r] = DONE => status[r] = DONE \/ (a[1] = r /\ MarkDone(a))
    <2>1. tries' = tries
      BY <1>2 DEF TaskStep, FetchCheckpoint, Fail, FetchTxs, SendTxs, SendCheckpoint, MarkDone, table
    <2>2. CASE Fail(a)
      <3>1. status'[r] = DONE => status[r] = DONE
        BY <1>s, <2>2, UpdateType DEF Fail
      <3>2. QED BY <1>n, <2>1, <3>1
    <2>3. CASE MarkDone(a)
      <3>1. status'[r] = status[r] \/ r \in {a[1]}
        BY <1>s, <2>3, UpdateType DEF MarkDone
      <3>2. QED BY <1>n, <2>1, <2>3, <3>1
    <2>4. CASE ~Fail(a) /\ ~MarkDone(a)
      <3>1. status' = status
        BY <1>2, <2>4 DEF TaskStep, FetchCheckpoint, FetchTxs, SendTxs, SendCheckpoint, table
      <3>2. QED BY <1>n, <2>1, <3>1
    <2>5. QED BY <2>2, <2>3, <2>4
  <1>3. CASE StoreStep \/ PoolStep \/ Cancel \/ CloseChannels \/ Exit \/ Kill \/ UNCHANGED vars
    <2>1. UNCHANGED table
      BY <1>3 DEF StoreStep, PoolStep, Receive, Submit, LeaveSelect, StopAndWait, Upload, FailUpload,
                  Cancel, CloseChannels, Exit, Kill, Restart, vars
    <2>2. QED BY <1>n, <2>1 DEF table
  <1>4. ASSUME NEW q \in Row, UpdateFailedStatus(q)
        PROVE  tries[r] <= tries'[r] /\ (status'[r] = DONE => status[r] = DONE)
    <2>1. status' = SetStatus(status, {q}, FAIL) /\ tries' = tries
      BY <1>4 DEF UpdateFailedStatus
    <2>2. QED BY <1>n, <1>s, <2>1, SetStatusType
  <1>5. QED BY <1>1, <1>2, <1>3, <1>4 DEF Next

\* Every step keeps DONE rows accounted for.
LEMMA DoneStep ==
  ASSUME TypeOK, TypeOK', Owned, SentAccounted, DoneAccounted, [Next]_vars
  PROVE  DoneAccounted'
  <1>k. ItemsKept
    BY ItemsStep
  <1>1. ASSUME NEW r \in Row, status'[r] = DONE
        PROVE  \E n \in 1 .. tries'[r] : \A c \in 1 .. ChunksOf[r], topic \in Topic :
                  Accounted(<<topic, <<r, n>>, c>>)'
    <2>n. tries[r] \in 0 .. MaxTry /\ tries'[r] \in 0 .. MaxTry /\ MaxTry \in Nat /\ ChunksOf[r] \in Nat
      BY Bounds DEF TypeOK
    <2>t. tries[r] <= tries'[r]
      BY StatusStep
    <2>1. ASSUME NEW n \in 1 .. tries[r],
                 \A c \in 1 .. ChunksOf[r], topic \in Topic : Accounted(<<topic, <<r, n>>, c>>)
          PROVE  /\ n \in 1 .. tries'[r]
                 /\ \A c \in 1 .. ChunksOf[r], topic \in Topic : Accounted(<<topic, <<r, n>>, c>>)'
      <3>1. n \in 1 .. tries'[r] /\ n \in 1 .. MaxTry
        BY <2>n, <2>t
      <3>2. <<r, n>> \in Attempt
        BY <3>1 DEF Attempt
      <3>3. ASSUME NEW c \in 1 .. ChunksOf[r], NEW topic \in Topic
            PROVE  Accounted(<<topic, <<r, n>>, c>>)'
        <4>1. <<topic, <<r, n>>, c>> \in Item
          BY <2>n, <3>2, <3>3, ItemType
        <4>2. QED BY <1>k, <2>1, <3>3, <4>1 DEF ItemsKept
      <3>4. QED BY <3>1, <3>3
    <2>2. CASE status[r] = DONE
      <3>1. PICK n \in 1 .. tries[r] :
              \A c \in 1 .. ChunksOf[r], topic \in Topic : Accounted(<<topic, <<r, n>>, c>>)
        BY <2>2 DEF DoneAccounted
      <3>2. QED BY <2>1, <3>1
    <2>3. CASE \E a \in Attempt : a[1] = r /\ MarkDone(a)
      <3>1. PICK a \in Attempt : a[1] = r /\ MarkDone(a)
        BY <2>3
      <3>2. a = <<r, a[2]>> /\ a[2] \in 1 .. MaxTry
        BY <3>1 DEF Attempt
      <3>3. Live(a) /\ task[a].chunk > ChunksOf[r]
        BY <3>1 DEF MarkDone, Live
      <3>4. a[2] <= tries[r]
        BY <3>1, <3>3 DEF Owned, TasksOwned
      <3>5. a[2] \in 1 .. tries[r]
        BY <2>n, <3>2, <3>4
      <3>6. task[a].chunk \in Nat
        BY DEF TypeOK, Task
      <3>7. \A c \in 1 .. ChunksOf[r] : c \in 1 .. task[a].chunk - 1
        BY <2>n, <3>3, <3>6
      <3>8. \A c \in 1 .. ChunksOf[r], topic \in Topic : Accounted(<<topic, a, c>>)
        BY <3>7 DEF SentAccounted
      <3>9. QED BY <2>1, <3>2, <3>5, <3>8
    <2>4. QED BY <1>1, <2>2, <2>3, StatusStep
  <1>2. QED BY <1>1 DEF DoneAccounted

\* Every step keeps the sizes of what is sent, and the objects.
LEMMA ObjectsStep ==
  ASSUME TypeOK, TypeOK', ItemsSized, StoredHaveObjects, [Next]_vars
  PROVE  ItemsSized' /\ StoredHaveObjects'
  <1>k. ItemsKept
    BY ItemsStep
  <1>1. \A a \in Attempt : task'[a].stage \in Topic => task'[a].chunk <= ChunksOf[a[1]]
    <2>1. ASSUME NEW b \in Attempt, Restarted(b) \/ Stays(b), task'[b].stage \in Topic
          PROVE  task'[b].chunk <= ChunksOf[b[1]]
      BY <2>1 DEF Restarted, Stays, ItemsSized
    <2>2. CASE \A a \in Attempt : ~SendTxs(a) /\ ~SendCheckpoint(a)
      BY <2>1, <2>2, TasksStay
    <2>3. ASSUME NEW a \in Attempt, SendTxs(a) \/ SendCheckpoint(a),
                 NEW b \in Attempt, task'[b].stage \in Topic
          PROVE  task'[b].chunk <= ChunksOf[b[1]]
      <3>1. CASE b # a
        <4>1. task'[b] = task[b]
          BY <2>3, <3>1 DEF SendTxs, SendCheckpoint, To, TypeOK
        <4>2. QED BY <2>3, <4>1 DEF ItemsSized
      <3>2. CASE b = a
        <4>1. task[a] \in Task
          BY DEF TypeOK
        <4>2. CASE SendTxs(a)
          <5>1. task[a].stage \in Topic /\ task'[a].chunk = task[a].chunk
            BY <4>1, <4>2 DEF SendTxs, Send, To, TypeOK, Task, Topic
          <5>2. QED BY <3>2, <5>1 DEF ItemsSized
        <4>3. CASE SendCheckpoint(a)
          <5>1. task'[a].stage = "running"
            BY <4>1, <4>3 DEF SendCheckpoint, TypeOK, Task
          <5>2. QED BY <2>3, <3>2, <5>1 DEF Topic
        <4>4. QED BY <2>3, <4>2, <4>3
      <3>3. QED BY <3>1, <3>2
    <2>4. QED BY <2>2, <2>3
  <1>2. ASSUME NEW i \in Item, InMemory(i)' PROVE Sized(i)
    <2>1. CASE InMemory(i)
      BY <2>1 DEF ItemsSized
    <2>2. CASE \E a \in Attempt : task[a].stage \in Topic /\ i = NextItem(a)
      BY <2>2 DEF ItemsSized, NextItem, Sized
    <2>3. QED BY <1>k, <1>2, <2>1, <2>2 DEF ItemsKept
  <1>3. \/ bucket' = bucket /\ stored' = stored
        \/ \E i \in pool : /\ stored' \subseteq stored \cup {i}
                           /\ \/ bucket' = [bucket EXCEPT ![Object(i)] = i[3]]
                              \/ bucket' = bucket /\ stored' = stored
    <2>1. ASSUME NEW t \in Thread, ThreadStep(t) PROVE bucket' = bucket /\ stored' = stored
      BY <2>1 DEF ThreadStep, Claim, AbortClaim, FailAborted, FindNothing, FailBatch,
                  StartCheckpoints, RecoverPanic, FinishBatch, StopThread, vars, s3
    <2>2. ASSUME NEW a \in Attempt, TaskStep(a) PROVE bucket' = bucket /\ stored' = stored
      BY <2>2 DEF TaskStep, FetchCheckpoint, Fail, FetchTxs, SendTxs, SendCheckpoint, MarkDone, s3
    <2>3. CASE StoreStep \/ Cancel \/ CloseChannels \/ Exit \/ Kill
                 \/ (\E r \in Row : UpdateFailedStatus(r)) \/ UNCHANGED vars
      BY <2>3 DEF StoreStep, Receive, Submit, LeaveSelect, StopAndWait, Cancel, CloseChannels,
                  Exit, Kill, Restart, UpdateFailedStatus, vars, s3
    <2>4. ASSUME NEW i \in pool, Upload(i) \/ FailUpload(i)
          PROVE  /\ stored' \subseteq stored \cup {i}
                 /\ \/ bucket' = [bucket EXCEPT ![Object(i)] = i[3]]
                    \/ bucket' = bucket /\ stored' = stored
      BY <2>4 DEF Upload, FailUpload, Put
    <2>5. QED BY <2>1, <2>2, <2>3, <2>4 DEF Next, PoolStep
  <1>4. ASSUME NEW i \in pool, stored' \subseteq stored \cup {i},
               bucket' = [bucket EXCEPT ![Object(i)] = i[3]]
        PROVE  /\ \A topic \in Topic, r \in Row : bucket'[<<topic, r>>] <= ChunksOf[r]
               /\ StoredHaveObjects'
    <2>1. i \in Item /\ Sized(i)
      BY DEF TypeOK, ItemsSized, InMemory
    <2>2. i[3] # 0 /\ Object(i) = <<i[1], i[2][1]>> /\ Object(i) \in Topic \X Row
      BY <2>1 DEF Item, Object, Attempt
    <2>3. /\ bucket'[Object(i)] = i[3]
          /\ \A o \in Topic \X Row : o # Object(i) => bucket'[o] = bucket[o]
      BY <1>4, <2>2 DEF TypeOK
    <2>4. ASSUME NEW topic \in Topic, NEW r \in Row PROVE bucket'[<<topic, r>>] <= ChunksOf[r]
      <3>1. CASE <<topic, r>> = Object(i)
        BY <2>1, <2>2, <2>3, <3>1 DEF Sized
      <3>2. CASE <<topic, r>> # Object(i)
        BY <2>3, <3>2 DEF ItemsSized
      <3>3. QED BY <3>1, <3>2
    <2>5. ASSUME NEW j \in stored' PROVE bucket'[Object(j)] # 0
      <3>1. j \in Item /\ Object(j) \in Topic \X Row
        BY <2>5 DEF TypeOK, Item, Object, Attempt
      <3>2. CASE Object(j) = Object(i)
        BY <2>2, <2>3, <3>2
      <3>3. CASE Object(j) # Object(i)
        BY <1>4, <2>3, <2>5, <3>1, <3>3 DEF StoredHaveObjects
      <3>4. QED BY <3>2, <3>3
    <2>6. StoredHaveObjects'
      <3>1. \A j \in stored' : bucket'[Object(j)] # 0
        BY <2>5
      <3>2. QED BY <3>1 DEF StoredHaveObjects, Object
    <2>7. QED BY <2>4, <2>6
  <1>5. /\ \A topic \in Topic, r \in Row : bucket'[<<topic, r>>] <= ChunksOf[r]
        /\ StoredHaveObjects'
    <2>1. CASE bucket' = bucket /\ stored' = stored
      BY <2>1 DEF ItemsSized, StoredHaveObjects, Object
    <2>2. QED BY <1>3, <1>4, <2>1
  <1>6. ItemsSized'
    BY <1>1, <1>2, <1>5 DEF ItemsSized, Sized
  <1>7. QED BY <1>5, <1>6

-----------------------------------------------------------------------------
(***************************************************************************)
(* The theorems.                                                           *)
(***************************************************************************)

\* Nothing runs, was sent or is stored at first.
LEMMA InvInit == Init => Inv
  <1> SUFFICES ASSUME Init PROVE Inv
    OBVIOUS
  <1>1. TypeOK /\ IsFiniteSet(pool \cup stuck)
    BY TypeInit
  <1>2. \A a \in Attempt : task[a].stage = "none" /\ task[a].chunk = 1
    BY DEF Init, Idle
  <1>3. Owned
    BY <1>2 DEF Owned, BatchesApart, TasksOwned, PanicLeavesOrphans, ClosedAfterThreads, Init, Live,
                Committed
  <1>4. SentAccounted
    BY <1>2 DEF SentAccounted
  <1>5. DoneAccounted
    BY DEF Init, DoneAccounted, NOT_READY, DONE
  <1>6. ItemsSized
    <2>1. ASSUME NEW i \in Item PROVE ~InMemory(i)
      <3>1. i # NoItem
        BY DEF Item, NoItem
      <3>2. DOMAIN <<>> = {}
        OBVIOUS
      <3>3. QED BY <3>1, <3>2 DEF Init, InMemory
    <2>2. \A topic \in Topic, r \in Row : bucket[<<topic, r>>] <= ChunksOf[r]
      BY Bounds DEF Init
    <2>3. QED BY <1>2, <2>1, <2>2 DEF ItemsSized, Topic
  <1>7. StoredHaveObjects
    BY DEF Init, StoredHaveObjects
  <1>8. QED BY <1>1, <1>3, <1>4, <1>5, <1>6, <1>7 DEF Inv, Kept

\* Every step keeps the inductive invariant.
LEMMA InvStep == Inv /\ [Next]_vars => Inv'
  <1> SUFFICES ASSUME Inv, [Next]_vars PROVE Inv'
    OBVIOUS
  <1>1. TypeOK' /\ IsFiniteSet(pool \cup stuck)'
    BY TypeStep DEF Inv
  <1>2. Owned'
    BY OwnedStep DEF Inv
  <1>3. SentAccounted' /\ DoneAccounted' /\ ItemsSized' /\ StoredHaveObjects'
    BY <1>1, SentStep, DoneStep, ObjectsStep DEF Inv, Kept
  <1>4. QED BY <1>1, <1>2, <1>3 DEF Inv, Kept

\* What the channels promise: the chunks of a DONE row are on their way, stored or
\* known to be lost, and the channels are closed after all who may send.
THEOREM ChannelsSafe == Spec => []ChannelsKept
  <1>1. Inv => ChannelsKept
    <2> SUFFICES ASSUME Inv PROVE ChannelsKept
      OBVIOUS
    <2>1. DoneAccounted
      BY DEF Inv, Kept
    <2>2. ASSUME closed, NEW a \in Attempt, Live(a) PROVE task[a].orphan
      <3>1. \A t \in Thread : pc[t] \notin Committed
        BY <2>2 DEF Inv, Owned, ClosedAfterThreads, Committed
      <3>2. QED BY <2>2, <3>1 DEF Inv, Owned, TasksOwned
    <2>3. QED BY <2>1, <2>2 DEF ChannelsKept, ClosedAfterSenders
  <1>2. QED BY <1>1, InvInit, InvStep, PTL DEF Spec

\* The objects of a DONE row exist once nothing failed and nothing is on its way.
THEOREM ObjectsExist == Spec => []DoneMeansObjects
  <1>1. Inv => DoneMeansObjects
    <2> SUFFICES ASSUME Inv, NEW r \in Row, status[r] = DONE, lost = {}, ~OnItsWay(r),
                        ChunksOf[r] > 0, NEW topic \in Topic
                 PROVE  bucket[<<topic, r>>] \in 1 .. ChunksOf[r]
      BY DEF DoneMeansObjects
    <2>1. PICK n \in 1 .. tries[r] :
            \A c \in 1 .. ChunksOf[r], t \in Topic : Accounted(<<t, <<r, n>>, c>>)
      BY DEF Inv, Kept, DoneAccounted
    <2>2. ChunksOf[r] \in Nat /\ 1 \in 1 .. ChunksOf[r]
      BY Bounds
    <2>3. n \in 1 .. MaxTry
      <3>1. tries[r] \in 0 .. MaxTry /\ MaxTry \in Nat
        BY Bounds DEF Inv, TypeOK
      <3>2. QED BY <3>1
    <2>4. ~InMemory(<<topic, <<r, n>>, 1>>)
      BY <2>2, <2>3 DEF OnItsWay
    <2>5. <<topic, <<r, n>>, 1>> \in stored
      BY <2>1, <2>2, <2>4 DEF Accounted
    <2>6. Object(<<topic, <<r, n>>, 1>>) = <<topic, r>>
      BY DEF Object
    <2>7. bucket[<<topic, r>>] # 0
      BY <2>5, <2>6 DEF Inv, Kept, StoredHaveObjects
    <2>8. bucket[<<topic, r>>] \in Nat /\ bucket[<<topic, r>>] <= ChunksOf[r]
      BY DEF Inv, Kept, ItemsSized, TypeOK
    <2>9. QED BY <2>2, <2>7, <2>8
  <1>2. QED BY <1>1, InvInit, InvStep, PTL DEF Spec
=============================================================================

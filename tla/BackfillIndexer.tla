-------------------------- MODULE BackfillIndexer --------------------------
(***************************************************************************)
(* backfill-indexer                                                        *)
(* (sui-indexer/internal/app/backfill-indexer/worker.go), one process.     *)
(*                                                                         *)
(* Threads claim pages of BACKFILL rows and fetch their checkpoints as     *)
(* sui-worker does (see SuiWorker, also for attempts).  The goroutine of a *)
(* checkpoint then puts its transactions, chunk by chunk, on one bounded   *)
(* channel and the checkpoint on another.  A storing goroutine takes items *)
(* from both and hands them to a pool of uploaders, each of which writes   *)
(* one object to S3.                                                       *)
(*                                                                         *)
(* The claim is one step here: SuiWorker shows what its transaction and    *)
(* its locks are for.  A signal cancels the context of all goroutines;     *)
(* after that every RPC, statement and upload fails at once.               *)
(***************************************************************************)
EXTENDS BlockStatus, Sequences

CONSTANTS
  Row,       \* BACKFILL rows of chain SUI, named by block number
  Thread,    \* worker.numWorkers goroutines
  Limit,     \* worker.limitCheckpoints
  ChunksOf,  \* the number of 20-transaction chunks of each checkpoint
  Large,     \* rows whose compressed chunks exceed the part size of S3
  Capacity,  \* of each channel
  Workers,   \* of the pool
  MaxTry,    \* bound: claims of one row
  MaxFault   \* bound: faults of the environment in one behaviour

ASSUME BackfillAssumption ==
  /\ Row \subseteq Nat
  /\ ChunksOf \in [Row -> Nat]
  /\ Large \subseteq Row
  /\ {Limit, Capacity, Workers} \subseteq Nat \ {0}
  /\ {MaxTry, MaxFault} \subseteq Nat

Attempt == Row \X (1 .. MaxTry)
Topic   == {"txs", "checkpoints"}

\* What travels through the channels, tagged with where it comes from.
Item   == Topic \X Attempt \X (Nat \ {0})
NoItem == <<>>

VARIABLES
  status,     \* the table
  cancelled,  \* the context is done
  closed,     \* FetchTxs returned and closed the channels
  pc,         \* where each thread is
  batch,      \* the blockStatuses of each thread, as attempts
  tries,      \* how many claims of each row were committed
  task,       \* the goroutine of each attempt
  channel,    \* txsCh and checkpointCh
  store,      \* the storing goroutine: "select", "submit", "wait" or "stopped"
  inHand,     \* the item it is about to submit
  pool,       \* items being uploaded
  stuck,      \* uploaders blocked on a pipe nobody reads
  bucket,     \* the chunk each object holds, 0 for no object
  stored,     \* history: items whose upload was acknowledged
  lost,       \* history: items whose upload failed, or that died in memory
  faults      \* the faults spent

table  == <<status, tries>>
flow   == <<channel, store, inHand, pool, stuck>>
s3     == <<bucket, stored, lost>>
life   == <<cancelled, closed>>
thread == <<pc, batch, task>>
vars   == <<table, flow, s3, life, thread, faults>>

-----------------------------------------------------------------------------
Stage == {"none", "fetching", "fetched", "invalid", "running", "txs",
          "checkpoints", "failing", "ended"}

\* orphan: the thread panicked and no longer waits for this goroutine.
Task == [stage : Stage, chunk : Nat \ {0}, orphan : BOOLEAN]

Idle(stage) == [stage |-> stage, chunk |-> 1, orphan |-> FALSE]

Live(a) == task[a].stage \notin {"none", "ended"}

Rows(attempts) == {a[1] : a \in attempts}

To(a, stage) == task' = [task EXCEPT ![a].stage = stage]

Spend == /\ faults < MaxFault
         /\ faults' = faults + 1

\* An RPC or an upload fails: by itself, or because of the context.
Failing == IF cancelled THEN faults' = faults ELSE Spend

\* updateCheckpointStatus; every caller ignores its error.
UpdateCheckpointStatus(rows, s) ==
  \/ /\ ~cancelled
     /\ status' = SetStatus(status, rows, s)
     /\ faults' = faults
  \/ /\ Failing
     /\ status' = status

\* fetchTxs returns; FetchTxs sleeps and looks at the context.
Return(t) == /\ pc' = [pc EXCEPT ![t] = "Idle"]
             /\ batch' = [batch EXCEPT ![t] = {}]

Goto(t, label) == pc' = [pc EXCEPT ![t] = label]

-----------------------------------------------------------------------------
(***************************************************************************)
(* fetchTxs: the claim and the fetching of the checkpoints.                *)
(***************************************************************************)
NextPage == {rows \in Pages(Claimable(status), Limit) :
               rows # {} /\ \A r \in rows : tries[r] < MaxTry}

Claim(t) ==
  /\ pc[t] = "Idle" /\ ~cancelled
  /\ \E rows \in NextPage :
       LET claimed == {<<r, tries[r] + 1>> : r \in rows}
       IN /\ status' = SetStatus(status, rows, PROCESSING)
          /\ tries' = [r \in Row |-> IF r \in rows THEN tries[r] + 1 ELSE tries[r]]
          /\ task' = [a \in Attempt |-> IF a \in claimed THEN Idle("fetching")
                                        ELSE task[a]]
          /\ batch' = [batch EXCEPT ![t] = claimed]
  /\ Goto(t, "Fetching")
  /\ UNCHANGED <<flow, s3, life, faults>>

\* dbErr: rolled back, or committed with the answer lost; then FAIL.
AbortClaim(t) ==
  /\ pc[t] = "Idle" /\ ~cancelled
  /\ \E rows \in NextPage :
       /\ batch' = [batch EXCEPT ![t] = {<<r, tries[r] + 1>> : r \in rows}]
       /\ \E s \in {status, SetStatus(status, rows, PROCESSING)} : status' = s
  /\ Goto(t, "Aborted")
  /\ Spend
  /\ UNCHANGED <<tries, task, flow, s3, life>>

FailAborted(t) ==
  /\ pc[t] = "Aborted"
  /\ UpdateCheckpointStatus(Rows(batch[t]), FAIL)
  /\ Return(t)
  /\ UNCHANGED <<tries, task, flow, s3, life>>

\* "not found any new blocks in db"
FindNothing(t) ==
  /\ pc[t] = "Idle" /\ ~cancelled
  /\ Claimable(status) = {}
  /\ UNCHANGED vars

FetchCheckpoint(a) ==
  /\ task[a].stage = "fetching"
  /\ \/ ~cancelled /\ To(a, "fetched") /\ faults' = faults
     \/ Failing /\ To(a, "failing")
  /\ UNCHANGED <<table, flow, s3, life, pc, batch>>

\* A goroutine reports FAIL for its row and ends; so does the loop over the
\* checkpoints for one that fails Validate.
Fail(a) ==
  /\ task[a].stage \in {"failing", "invalid"}
  /\ UpdateCheckpointStatus({a[1]}, FAIL)
  /\ task' = [task EXCEPT ![a] = Idle("ended")]
  /\ UNCHANGED <<tries, flow, s3, life, pc, batch>>

Fetched(t) == {a \in batch[t] : task[a].stage = "fetched"}

\* wg1.Wait
AllFetched(t) ==
  /\ pc[t] = "Fetching"
  /\ \A a \in batch[t] : task[a].stage \in {"fetched", "ended"}

FailBatch(t) ==
  /\ AllFetched(t) /\ Fetched(t) = {}
  /\ UpdateCheckpointStatus(Rows(batch[t]), FAIL)
  /\ Return(t)
  /\ UNCHANGED <<tries, task, flow, s3, life>>

(***************************************************************************)
(* The loop over the checkpoints, filled by racing appends: some may be    *)
(* missing, and a nil one panics after others were started.                *)
(***************************************************************************)
StartCheckpoints(t) ==
  /\ AllFetched(t) /\ Fetched(t) # {}
  /\ \E started, rejected \in SUBSET Fetched(t), panics \in BOOLEAN :
       /\ started \cap rejected = {}
       /\ panics => Cardinality(Fetched(t)) > 1
       /\ IF started = Fetched(t) /\ ~panics THEN faults' = faults ELSE Spend
       /\ task' = [a \in Attempt |->
                     IF a \in started
                     THEN [Idle("running") EXCEPT !.orphan = panics]
                     ELSE IF a \in rejected THEN Idle("invalid")
                     ELSE IF a \in Fetched(t) THEN Idle("ended")
                     ELSE task[a]]
       /\ Goto(t, IF panics THEN "Panicked" ELSE "Waiting")
  /\ UNCHANGED <<table, flow, s3, life, batch>>

RecoverPanic(t) ==
  /\ pc[t] = "Panicked"
  /\ \A a \in batch[t] : task[a].stage # "invalid"
  /\ UpdateCheckpointStatus(Rows(batch[t]), FAIL)
  /\ Return(t)
  /\ UNCHANGED <<tries, task, flow, s3, life>>

\* Variant: wg2 counts the checkpoints that were fetched, not the goroutines.
FinishBatchEarly(t) ==
  /\ pc[t] = "Waiting"
  /\ \E a \in batch[t] : ~Live(a)
  /\ Return(t)
  /\ UNCHANGED <<table, task, flow, s3, life, faults>>

\* wg2.Wait
FinishBatch(t) ==
  /\ pc[t] = "Waiting"
  /\ \A a \in batch[t] : ~Live(a)
  /\ Return(t)
  /\ UNCHANGED <<table, task, flow, s3, life, faults>>

-----------------------------------------------------------------------------
(***************************************************************************)
(* The goroutine of a checkpoint: fetch a chunk, send it, send the         *)
(* checkpoint.  A full channel blocks it.                                  *)
(***************************************************************************)
FetchTxs(a) ==
  /\ task[a].stage = "running"
  /\ task[a].chunk <= ChunksOf[a[1]]
  /\ \/ ~cancelled /\ To(a, "txs") /\ faults' = faults
     \/ Failing /\ To(a, "failing")
  /\ UNCHANGED <<table, flow, s3, life, pc, batch>>

Send(a, topic) ==
  /\ ~closed
  /\ task[a].stage = topic
  /\ Len(channel[topic]) < Capacity
  /\ channel' = [channel EXCEPT ![topic] = Append(@, <<topic, a, task[a].chunk>>)]

SendTxs(a) ==
  /\ Send(a, "txs")
  /\ To(a, "checkpoints")
  /\ UNCHANGED <<table, store, inHand, pool, stuck, s3, life, pc, batch, faults>>

SendCheckpoint(a) ==
  /\ Send(a, "checkpoints")
  /\ task' = [task EXCEPT ![a].stage = "running", ![a].chunk = @ + 1]
  /\ UNCHANGED <<table, store, inHand, pool, stuck, s3, life, pc, batch, faults>>

\* "update status DONE": the chunks are in the channels or further on.
MarkDone(a) ==
  /\ task[a].stage = "running"
  /\ task[a].chunk > ChunksOf[a[1]]
  /\ UpdateCheckpointStatus({a[1]}, DONE)
  /\ task' = [task EXCEPT ![a] = Idle("ended")]
  /\ UNCHANGED <<tries, flow, s3, life, pc, batch>>

-----------------------------------------------------------------------------
(***************************************************************************)
(* StoreS3: select one of context and channels, submit, and at the end     *)
(* StopAndWait.  The pool's queue has no room: Submit waits for an         *)
(* uploader.                                                               *)
(***************************************************************************)
Receive(topic) ==
  /\ store = "select"
  /\ channel[topic] # <<>>
  /\ inHand' = Head(channel[topic])
  /\ channel' = [channel EXCEPT ![topic] = Tail(@)]
  /\ store' = "submit"
  /\ UNCHANGED <<table, pool, stuck, s3, life, thread, faults>>

\* Variant: a busy pool rejects the item and nobody asks.
TrySubmit ==
  /\ store = "submit"
  /\ pool' = IF Cardinality(pool \cup stuck) < Workers THEN pool \cup {inHand} ELSE pool
  /\ inHand' = NoItem
  /\ store' = "select"
  /\ UNCHANGED <<table, channel, stuck, s3, life, thread, faults>>

\* Variant: the pool grows with its load.
SubmitUnbounded ==
  /\ store = "submit"
  /\ pool' = pool \cup {inHand}
  /\ inHand' = NoItem
  /\ store' = "select"
  /\ UNCHANGED <<table, channel, stuck, s3, life, thread, faults>>

Submit ==
  /\ store = "submit"
  /\ Cardinality(pool \cup stuck) < Workers
  /\ pool' = pool \cup {inHand}
  /\ inHand' = NoItem
  /\ store' = "select"
  /\ UNCHANGED <<table, channel, stuck, s3, life, thread, faults>>

\* Variant: the storing goroutine waits for its channels to be closed.
LeaveSelectClosed ==
  /\ store = "select" /\ closed
  /\ store' = "wait"
  /\ UNCHANGED <<table, channel, inHand, pool, stuck, s3, life, thread, faults>>

\* <-ctx.Done(); the deferred StopAndWait; the errgroup sees an error.
LeaveSelect ==
  /\ store = "select" /\ cancelled
  /\ store' = "wait"
  /\ UNCHANGED <<table, channel, inHand, pool, stuck, s3, life, thread, faults>>

StopAndWait ==
  /\ store = "wait"
  /\ pool = {} /\ stuck = {}
  /\ store' = "stopped"
  /\ UNCHANGED <<table, channel, inHand, pool, stuck, s3, life, thread, faults>>

(***************************************************************************)
(* One uploader: the object of an item, named by the checkpoint's number.  *)
(***************************************************************************)
\* Variant: checkpoints are written below the prefix of the transactions.
ObjectOfTxs(i) == <<"txs", i[2][1]>>

Object(i) == <<i[1], i[2][1]>>

Put(i) == bucket' = [bucket EXCEPT ![Object(i)] = i[3]]

Upload(i) ==
  /\ ~cancelled
  /\ Put(i)
  /\ pool' = pool \ {i}
  /\ stored' = stored \cup {i}
  /\ UNCHANGED <<table, channel, store, inHand, stuck, lost, life, thread, faults>>

(***************************************************************************)
(* The upload fails, which is logged; the object may have been written     *)
(* all the same.  FileStreamWriter then stops reading the pipe without     *)
(* closing it.  Up to one part it has read everything by then; otherwise   *)
(* the uploader's next write blocks for ever.                              *)
(***************************************************************************)
FailUpload(i) ==
  /\ Failing
  /\ \/ Put(i)
     \/ UNCHANGED bucket
  /\ pool' = pool \ {i}
  /\ stuck' = IF i[1] = "txs" /\ i[2][1] \in Large THEN stuck \cup {i} ELSE stuck
  /\ lost' = lost \cup {i}
  /\ UNCHANGED <<table, channel, store, inHand, stored, life, thread>>

-----------------------------------------------------------------------------
(***************************************************************************)
(* The life of the process.                                                *)
(***************************************************************************)
Cancel ==
  /\ ~cancelled
  /\ cancelled' = TRUE
  /\ Spend
  /\ UNCHANGED <<table, flow, s3, closed, thread>>

\* <-childCtx.Done() at the top of a thread's loop.
StopThread(t) ==
  /\ pc[t] = "Idle" /\ cancelled
  /\ Goto(t, "Stopped")
  /\ UNCHANGED <<table, flow, s3, life, batch, task, faults>>

\* eg.Wait() returned; the deferred close of both channels.
CloseChannels ==
  /\ ~closed
  /\ store = "stopped" /\ \A t \in Thread : pc[t] = "Stopped"
  /\ closed' = TRUE
  /\ UNCHANGED <<table, flow, s3, cancelled, thread, faults>>

InMemory(i) ==
  \/ \E topic \in Topic : \E n \in DOMAIN channel[topic] : channel[topic][n] = i
  \/ inHand = i
  \/ i \in pool

\* The process is gone, with all it had in memory, and starts again.
Restart ==
  /\ lost' = lost \cup pool \cup ({inHand} \ {NoItem})
                  \cup (UNION {{channel[topic][n] : n \in DOMAIN channel[topic]} :
                                topic \in Topic})
  /\ cancelled' = FALSE /\ closed' = FALSE
  /\ pc' = [t \in Thread |-> "Idle"]
  /\ batch' = [t \in Thread |-> {}]
  /\ task' = [a \in Attempt |-> IF Live(a) THEN Idle("ended") ELSE task[a]]
  /\ channel' = [topic \in Topic |-> <<>>]
  /\ store' = "select" /\ inHand' = NoItem
  /\ pool' = {} /\ stuck' = {}
  /\ UNCHANGED <<table, bucket, stored>>

\* The process exits: main returns, or it is killed, which costs nothing when
\* it was asked to stop.  A send on a closed channel ends it as well.
Exit == closed /\ Restart /\ faults' = faults
Kill == ~closed /\ Restart /\ Failing

\* The cron job of sui-master returns a row after an hour.  It is a fault
\* when somebody still works on it.
UpdateFailedStatus(r) ==
  /\ status[r] = PROCESSING
  /\ status' = SetStatus(status, {r}, FAIL)
  /\ IF \E a \in Attempt : a[1] = r /\ Live(a) THEN Spend ELSE faults' = faults
  /\ UNCHANGED <<tries, flow, s3, life, thread>>

-----------------------------------------------------------------------------
Init ==
  /\ status = [r \in Row |-> NOT_READY]
  /\ cancelled = FALSE /\ closed = FALSE
  /\ pc = [t \in Thread |-> "Idle"]
  /\ batch = [t \in Thread |-> {}]
  /\ tries = [r \in Row |-> 0]
  /\ task = [a \in Attempt |-> Idle("none")]
  /\ channel = [topic \in Topic |-> <<>>]
  /\ store = "select" /\ inHand = NoItem
  /\ pool = {} /\ stuck = {}
  /\ bucket = [object \in Topic \X Row |-> 0]
  /\ stored = {} /\ lost = {}
  /\ faults = 0

ThreadStep(t) ==
  \/ Claim(t)
  \/ AbortClaim(t)
  \/ FailAborted(t)
  \/ FindNothing(t)
  \/ FailBatch(t)
  \/ StartCheckpoints(t)
  \/ RecoverPanic(t)
  \/ FinishBatch(t)
  \/ StopThread(t)

TaskStep(a) ==
  \/ FetchCheckpoint(a)
  \/ Fail(a)
  \/ FetchTxs(a)
  \/ SendTxs(a)
  \/ SendCheckpoint(a)
  \/ MarkDone(a)

\* The two cases of select, taken at random when both are ready.
StoreStep ==
  \/ \E topic \in Topic : Receive(topic)
  \/ Submit
  \/ LeaveSelect
  \/ StopAndWait

PoolStep == \E i \in pool : Upload(i) \/ FailUpload(i)

Next ==
  \/ \E t \in Thread : ThreadStep(t)
  \/ \E a \in Attempt : TaskStep(a)
  \/ StoreStep
  \/ PoolStep
  \/ Cancel
  \/ CloseChannels
  \/ Exit
  \/ Kill
  \/ \E r \in Row : UpdateFailedStatus(r)

Spec == Init /\ [][Next]_vars

(***************************************************************************)
(* Fairness: goroutines are scheduled and calls return; a select with      *)
(* several ready cases picks each of them in the end; main returns.        *)
(***************************************************************************)
ProcessFairness ==
  /\ \A t \in Thread : WF_vars(ThreadStep(t))
  /\ \A a \in Attempt : WF_vars(TaskStep(a))
  /\ WF_vars(Submit) /\ WF_vars(StopAndWait) /\ SF_vars(LeaveSelect)
  /\ \A topic \in Topic : SF_vars(Receive(topic))
  /\ WF_vars(PoolStep)
  /\ WF_vars(CloseChannels)

\* A process that ended is started again, and the cron job of sui-master keeps
\* running.  Nobody has to kill a process that does not end.
FairSpec ==
  /\ Spec
  /\ ProcessFairness
  /\ WF_vars(Exit)
  /\ \A r \in Row : WF_vars(UpdateFailedStatus(r))

-----------------------------------------------------------------------------
(***************************************************************************)
(* Properties.                                                             *)
(***************************************************************************)
TypeOK ==
  /\ status \in [Row -> Status]
  /\ {cancelled, closed} \subseteq BOOLEAN
  /\ pc \in [Thread -> {"Idle", "Aborted", "Fetching", "Panicked", "Waiting",
                        "Stopped"}]
  /\ batch \in [Thread -> SUBSET Attempt]
  /\ \A t \in Thread : pc[t] \in {"Idle", "Stopped"} <=> batch[t] = {}
  /\ tries \in [Row -> 0 .. MaxTry]
  /\ task \in [Attempt -> Task]
  /\ channel \in [Topic -> Seq(Item)]
  /\ \A topic \in Topic : Len(channel[topic]) <= Capacity
  /\ store \in {"select", "submit", "wait", "stopped"}
  /\ inHand \in Item \cup {NoItem}
  /\ store = "submit" <=> inHand # NoItem
  /\ pool \subseteq Item /\ stuck \subseteq Item
  /\ Cardinality(pool \cup stuck) <= Workers
  /\ bucket \in [Topic \X Row -> Nat]
  /\ stored \subseteq Item /\ lost \subseteq Item
  /\ faults \in 0 .. MaxFault

(***************************************************************************)
(* DONE only says that the chunks entered the channels (worker.go:295).    *)
(* From there on nothing gets lost quietly: some attempt brought every     *)
(* chunk of the row in, and each of its items is still in memory, was      *)
(* uploaded, or is known to be lost to a failed upload or to the end of    *)
(* the process.                                                            *)
(***************************************************************************)
Accounted(i) == InMemory(i) \/ i \in stored \/ i \in lost

DoneAccounted ==
  \A r \in Row : status[r] = DONE =>
     \E n \in 1 .. tries[r] : \A c \in 1 .. ChunksOf[r], topic \in Topic :
        Accounted(<<topic, <<r, n>>, c>>)

(***************************************************************************)
(* FetchTxs closes the channels only when nobody sends any more, since a   *)
(* send on a closed channel would panic in a goroutine nobody recovers.    *)
(* The exceptions are goroutines whose thread panicked and left them.      *)
(***************************************************************************)
ClosedAfterSenders ==
  closed => \A a \in Attempt : Live(a) => task[a].orphan

\* What the channels promise, until the process is killed.
ChannelsKept == DoneAccounted /\ ClosedAfterSenders

(***************************************************************************)
(* The project indexes all on-chain data into S3 (README.md:5): once a     *)
(* row is DONE, nothing failed and nothing is on its way, its transactions *)
(* are in the bucket.  The code does not keep this: every chunk of a       *)
(* checkpoint is written to the object of the checkpoint (worker.go:386),  *)
(* so the last one to arrive replaces the others.                          *)
(***************************************************************************)
OnItsWay(r) == \/ \E a \in Attempt : a[1] = r /\ Live(a)
               \/ \E topic \in Topic, n \in 1 .. MaxTry, c \in 1 .. ChunksOf[r] :
                    InMemory(<<topic, <<r, n>>, c>>)

DoneMeansStored ==
  \A r \in Row : status[r] = DONE /\ lost = {} /\ ~OnItsWay(r) =>
     \A c \in 1 .. ChunksOf[r] : bucket[<<"txs", r>>] = c

\* What is left of it: the objects of a DONE row exist.
DoneMeansObjects ==
  \A r \in Row : status[r] = DONE /\ lost = {} /\ ~OnItsWay(r) /\ ChunksOf[r] > 0 =>
     \A topic \in Topic : bucket[<<topic, r>>] \in 1 .. ChunksOf[r]

(***************************************************************************)
(* Cancelling the context ends FetchTxs, unless a goroutine waits for room *)
(* in a channel that the storing goroutine no longer empties               *)
(* (worker.go:276), or an uploader hangs on its pipe.                      *)
(***************************************************************************)
HungSend ==
  /\ store \in {"wait", "stopped"}
  /\ \E a \in Attempt : /\ task[a].stage \in Topic
                        /\ Len(channel[task[a].stage]) = Capacity

Hung == cancelled /\ (HungSend \/ stuck # {})

ShutdownEndsOrHangs == cancelled ~> (closed \/ ~cancelled \/ Hung)

(***************************************************************************)
(* Once the environment stops failing every row becomes DONE for good,     *)
(* through channels that fill up, shutdowns, kills and hung uploads, as    *)
(* long as fewer uploads hang than the pool has workers.  Only a shutdown  *)
(* that hangs for ever can prevent it.                                     *)
(***************************************************************************)
EventuallyDone == \A r \in Row : <>[](status[r] = DONE) \/ <>[]Hung

=============================================================================

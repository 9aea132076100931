----------------------------- MODULE SuiWorker -----------------------------
(***************************************************************************)
(* sui-worker (sui-indexer/internal/app/sui-worker/worker.go) with the     *)
(* reaper cron of sui-master that shares its table.                        *)
(*                                                                         *)
(* Threads (the goroutines FetchTxs starts, ten per process) claim pages   *)
(* of block_status rows in a transaction with FOR UPDATE SKIP LOCKED,      *)
(* fetch the claimed checkpoints concurrently, then run one goroutine per  *)
(* checkpoint that fetches its transactions chunk by chunk, sends them to  *)
(* four Kafka topics and sets the row to DONE, or to FAIL.                 *)
(*                                                                         *)
(* A claim of a row is an attempt <<r, n>>: the n-th time row r is         *)
(* claimed.  The number n exists only in the model; it tells apart the     *)
(* goroutines of two claims of one row, which the code tells apart by      *)
(* nothing at all.                                                         *)
(*                                                                         *)
(* Everything the environment does wrong (a failed RPC, send, commit or    *)
(* status update, a data race that loses an append, a batch that outlives  *)
(* the hour, a crash) spends a unit of the budget MaxFault.                *)
(***************************************************************************)
EXTENDS BlockStatus

CONSTANTS
  Row,        \* REALTIME rows of chain SUI, named by block number
  Thread,     \* the goroutines of worker.FetchTxs, of all processes
  Process,    \* sui-worker processes; each has an event cache of its own
  ProcessOf,  \* the process each thread belongs to
  Limit,      \* worker.limitCheckpoints
  ChunksOf,   \* the number of 20-transaction chunks of each checkpoint
  MaxTry,     \* bound: claims of one row
  MaxFault    \* bound: faults of the environment in one behaviour

ASSUME WorkerAssumption ==
  /\ Row \subseteq Nat
  /\ IsFiniteSet(Thread)
  /\ ProcessOf \in [Thread -> Process]
  /\ ChunksOf \in [Row -> Nat]
  /\ Limit \in Nat \ {0}
  /\ MaxTry \in Nat
  /\ MaxFault \in Nat

Attempt == Row \X (1 .. MaxTry)
Topic   == {"txs", "events", "indices", "checkpoints"}

VARIABLES
  status,    \* the table: the status of each row
  stale,     \* rows whose updated_at is more than an hour ago
  pc,        \* where each thread is in fetchTxs
  batch,     \* the blockStatuses of each thread, as attempts
  tries,     \* how many claims of each row were committed
  task,      \* the goroutine of each attempt
  cache,     \* worker.cache of each process: keys of events seen
  produced,  \* <<topic, row, chunk>>: records acknowledged by Kafka
  skipped,   \* <<row, chunk>>: events left out because of a cache hit
  faults     \* the faults spent

vars == <<status, stale, pc, batch, tries, task, cache, produced, skipped, faults>>

-----------------------------------------------------------------------------
(***************************************************************************)
(* The goroutine of an attempt.  chunk is the chunk it works on, fresh     *)
(* says that the events of that chunk missed the cache, proc is the        *)
(* process it runs in.  lost is a history flag: since the claim, somebody  *)
(* released the row (wrote FAIL or DONE), so it is no longer this          *)
(* attempt's row, although the goroutine cannot know.                      *)
(***************************************************************************)
Stage == {"none", "fetching", "fetched", "invalid", "running", "looked",
          "sending", "failing", "ended"}

Task == [stage : Stage, chunk : Nat, fresh : BOOLEAN, lost : BOOLEAN,
         proc : Process \cup {"none"}]

Idle(stage) == [stage |-> stage, chunk |-> 0, fresh |-> FALSE, lost |-> FALSE,
                proc |-> "none"]

Started(p) == [stage |-> "fetching", chunk |-> 1, fresh |-> FALSE,
               lost |-> FALSE, proc |-> p]

Live(a) == task[a].stage \notin {"none", "ended"}

\* The attempt is alive and its claim has not been released under it.
Holds(a) == Live(a) /\ ~task[a].lost

Rows(attempts) == {a[1] : a \in attempts}

\* Variant: the SELECT takes no row locks.
LockedByNobody == {}

\* The rows locked by an open claim transaction.
Locked == UNION {Rows(batch[t]) : t \in {u \in Thread : pc[u] = "Selected"}}

End(attempts) ==
  [a \in Attempt |-> IF a \in attempts THEN Idle("ended") ELSE task[a]]

Release(tasks, rows) ==
  [a \in Attempt |->
     IF a[1] \in rows /\ tasks[a].stage \notin {"none", "ended"}
     THEN [tasks[a] EXCEPT !.lost = TRUE]
     ELSE tasks[a]]

Spend(n) == /\ faults + n <= MaxFault
            /\ faults' = faults + n

(***************************************************************************)
(* updateCheckpointStatus(ctx, s, rows) outside of a transaction, with     *)
(* tasks the goroutines after the call.  It waits for row locks, it is     *)
(* unconditional, and every caller ignores its error.                      *)
(***************************************************************************)
UpdateCheckpointStatus(rows, s, tasks) ==
  \/ /\ rows \cap Locked = {}
     /\ status' = SetStatus(status, rows, s)
     /\ stale' = stale \ rows
     /\ task' = Release(tasks, rows)
     /\ faults' = faults
  \/ /\ task' = tasks
     /\ Spend(1)
     /\ UNCHANGED <<status, stale>>

Goto(t, label) == pc' = [pc EXCEPT ![t] = label]

\* Variant: the blockStatuses of a call leak into the next one.
ReturnKeepingBatch(t) == /\ Goto(t, "Idle")
                         /\ UNCHANGED batch

\* fetchTxs returns; FetchTxs sleeps and calls it again.
Return(t) == /\ Goto(t, "Idle")
             /\ batch' = [batch EXCEPT ![t] = {}]

-----------------------------------------------------------------------------
(***************************************************************************)
(* fetchTxs: the claim transaction.  The SELECT locks the page it returns  *)
(* and skips rows other transactions locked; the lock lasts until commit   *)
(* or rollback.                                                            *)
(***************************************************************************)
SelectForUpdate(t) ==
  /\ pc[t] = "Idle"
  /\ \E rows \in Pages(Claimable(status) \ Locked, Limit) :
       /\ rows # {}
       /\ \A r \in rows : tries[r] < MaxTry
       /\ batch' = [batch EXCEPT ![t] = {<<r, tries[r] + 1>> : r \in rows}]
  /\ Goto(t, "Selected")
  /\ UNCHANGED <<status, stale, tries, task, cache, produced, skipped, faults>>

\* "not found any new blocks in db"
FindNothing(t) ==
  /\ pc[t] = "Idle"
  /\ Claimable(status) \subseteq Locked
  /\ UNCHANGED vars

\* UPDATE ... SET status = PROCESSING inside the transaction, then COMMIT.
ClaimRows(t) ==
  /\ status' = SetStatus(status, Rows(batch[t]), PROCESSING)
  /\ stale' = stale \ Rows(batch[t])

CommitClaim(t) ==
  /\ pc[t] = "Selected"
  /\ ClaimRows(t)
  /\ task' = [a \in Attempt |-> IF a \in batch[t] THEN Started(ProcessOf[t])
                                ELSE task[a]]
  /\ tries' = [r \in Row |-> IF r \in Rows(batch[t]) THEN tries[r] + 1 ELSE tries[r]]
  /\ Goto(t, "Fetching")
  /\ UNCHANGED <<batch, cache, produced, skipped, faults>>

(***************************************************************************)
(* The transaction returns an error after the SELECT: the update or the    *)
(* commit failed and was rolled back, or the commit took effect and only   *)
(* its answer was lost.  Either way the row locks are gone.                *)
(***************************************************************************)
AbortClaim(t) ==
  /\ pc[t] = "Selected"
  /\ \/ UNCHANGED <<status, stale>>
     \/ ClaimRows(t)
  /\ Spend(1)
  /\ Goto(t, "Aborted")
  /\ UNCHANGED <<batch, tries, task, cache, produced, skipped>>

\* "update status FAIL" after dbErr: outside the transaction, without a lock.
FailAborted(t) ==
  /\ pc[t] = "Aborted"
  /\ UpdateCheckpointStatus(Rows(batch[t]), FAIL, task)
  /\ Return(t)
  /\ UNCHANGED <<tries, cache, produced, skipped>>

-----------------------------------------------------------------------------
(***************************************************************************)
(* The fetch phase: one goroutine per claimed row, then wg1.Wait.          *)
(***************************************************************************)
FetchCheckpoint(a) ==
  /\ task[a].stage = "fetching"
  /\ \/ /\ task' = [task EXCEPT ![a].stage = "fetched"]
        /\ faults' = faults
     \/ /\ task' = [task EXCEPT ![a].stage = "failing"]
        /\ Spend(1)
  /\ UNCHANGED <<status, stale, pc, batch, tries, cache, produced, skipped>>

\* A goroutine of either phase reports FAIL for its row and ends.
Fail(a) ==
  /\ task[a].stage = "failing"
  /\ UpdateCheckpointStatus({a[1]}, FAIL, End({a}))
  /\ UNCHANGED <<pc, batch, tries, cache, produced, skipped>>

Fetched(t) == {a \in batch[t] : task[a].stage = "fetched"}

AllFetched(t) ==
  /\ pc[t] = "Fetching"
  /\ \A a \in batch[t] : task[a].stage \in {"fetched", "ended"}

\* "no data checkpoints to process": FAIL for the whole batch, once more.
FailBatch(t) ==
  /\ AllFetched(t)
  /\ Fetched(t) = {}
  /\ UpdateCheckpointStatus(Rows(batch[t]), FAIL, task)
  /\ Return(t)
  /\ UNCHANGED <<tries, cache, produced, skipped>>

(***************************************************************************)
(* The loop over checkpoints.  The slice was filled by unsynchronised      *)
(* appends, so it may miss checkpoints, and a slot may hold nil when one   *)
(* append grew the slice between another's write of the length and of the  *)
(* element; a checkpoint whose sequence number matches no row is passed    *)
(* over as well.  A missed checkpoint leaves its row PROCESSING.  A nil    *)
(* slot panics in WithDateKey after some of the others were started.       *)
(***************************************************************************)
StartCheckpoints(t) ==
  /\ AllFetched(t)
  /\ \E started, rejected \in SUBSET Fetched(t), panics \in BOOLEAN :
       /\ started \cap rejected = {}
       /\ Fetched(t) # {}
       /\ panics => Cardinality(Fetched(t)) > 1
       /\ IF started = Fetched(t) /\ ~panics THEN faults' = faults ELSE Spend(1)
       /\ task' = [a \in Attempt |->
                     IF a \in started THEN [task[a] EXCEPT !.stage = "running"]
                     ELSE IF a \in rejected THEN [task[a] EXCEPT !.stage = "invalid"]
                     ELSE IF a \in Fetched(t) THEN Idle("ended")
                     ELSE task[a]]
       /\ Goto(t, IF panics THEN "Panicked" ELSE "Waiting")
  /\ UNCHANGED <<status, stale, batch, tries, cache, produced, skipped>>

\* checkpoint.Validate() failed: FAIL for this row, before the loop goes on.
RejectCheckpoint(a) ==
  /\ task[a].stage = "invalid"
  /\ UpdateCheckpointStatus({a[1]}, FAIL, End({a}))
  /\ UNCHANGED <<pc, batch, tries, cache, produced, skipped>>

(***************************************************************************)
(* The deferred recover: FAIL for every row of the batch.  The goroutines  *)
(* the loop had started keep running.                                      *)
(***************************************************************************)
RecoverPanic(t) ==
  /\ pc[t] = "Panicked"
  /\ \A a \in batch[t] : task[a].stage # "invalid"
  /\ UpdateCheckpointStatus(Rows(batch[t]), FAIL, task)
  /\ Return(t)
  /\ UNCHANGED <<tries, cache, produced, skipped>>

\* wg2.Wait
FinishBatch(t) ==
  /\ pc[t] = "Waiting"
  /\ \A a \in batch[t] : ~Live(a)
  /\ Return(t)
  /\ UNCHANGED <<status, stale, tries, task, cache, produced, skipped, faults>>

-----------------------------------------------------------------------------
(***************************************************************************)
(* The goroutine of one checkpoint, one chunk after the other.             *)
(***************************************************************************)
Key(a) == <<a[1], task[a].chunk>>

\* FetchTxs, SetBloomFilter, tx.Validate, then cache.Get of the event keys.
FetchTxs(a) ==
  /\ task[a].stage = "running"
  /\ task[a].chunk <= ChunksOf[a[1]]
  /\ \/ /\ task' = [task EXCEPT ![a].stage = "looked",
                              ![a].fresh = Key(a) \notin cache[task[a].proc]]
        /\ faults' = faults
     \/ /\ task' = [task EXCEPT ![a].stage = "failing"]
        /\ Spend(1)
  /\ UNCHANGED <<status, stale, pc, batch, tries, cache, produced, skipped>>

\* cache.Add, ahead of the sends; events that hit the cache are left out.  (A
\* timestamp or transaction found invalid after some cache.Add is the case of
\* SendChunk in which nothing of the payload got out.)
BuildPayload(a) ==
  /\ task[a].stage = "looked"
  /\ IF task[a].fresh
     THEN /\ cache' = [cache EXCEPT ![task[a].proc] = @ \cup {Key(a)}]
          /\ UNCHANGED skipped
     ELSE /\ skipped' = skipped \cup {Key(a)}
          /\ UNCHANGED cache
  /\ task' = [task EXCEPT ![a].stage = "sending"]
  /\ UNCHANGED <<status, stale, pc, batch, tries, produced, faults>>

Payload(a) ==
  {<<topic, a[1], task[a].chunk>> :
     topic \in IF task[a].fresh THEN Topic ELSE Topic \ {"events", "indices"}}

\* Variant: nobody looks at the error of eg.Wait.
SendChunkUnchecked(a) ==
  /\ task[a].stage = "sending"
  /\ \E sent \in SUBSET Payload(a) : produced' = produced \cup sent
  /\ task' = [task EXCEPT ![a].stage = "running", ![a].fresh = FALSE,
                          ![a].chunk = @ + 1]
  /\ UNCHANGED <<status, stale, pc, batch, tries, cache, skipped, faults>>

\* Variant: an error of the index sender is logged and not returned.
SendChunkIndexUnchecked(a) ==
  /\ task[a].stage = "sending"
  /\ \E index \in SUBSET {<<"indices", a[1], task[a].chunk>>} :
       produced' = produced \cup (Payload(a) \ index)
  /\ task' = [task EXCEPT ![a].stage = "running", ![a].fresh = FALSE,
                          ![a].chunk = @ + 1]
  /\ UNCHANGED <<status, stale, pc, batch, tries, cache, skipped, faults>>

(***************************************************************************)
(* The four senders of the errgroup.  When one reports an error, any part  *)
(* of the payload may have reached its topic, an unacknowledged record     *)
(* included.                                                               *)
(***************************************************************************)
SendChunk(a) ==
  /\ task[a].stage = "sending"
  /\ \/ /\ produced' = produced \cup Payload(a)
        /\ task' = [task EXCEPT ![a].stage = "running", ![a].fresh = FALSE,
                                ![a].chunk = @ + 1]
        /\ faults' = faults
     \/ /\ \E sent \in SUBSET Payload(a) : produced' = produced \cup sent
        /\ task' = [task EXCEPT ![a].stage = "failing"]
        /\ Spend(1)
  /\ UNCHANGED <<status, stale, pc, batch, tries, cache, skipped>>

\* Variant: DONE with the last chunk still to be sent.
MarkDoneEarly(a) ==
  /\ task[a].stage = "running"
  /\ task[a].chunk >= ChunksOf[a[1]]
  /\ UpdateCheckpointStatus({a[1]}, DONE, End({a}))
  /\ UNCHANGED <<pc, batch, tries, cache, produced, skipped>>

\* Variant: a finished goroutine runs into the error path.
MarkDoneFailing(a) ==
  /\ task[a].stage = "running"
  /\ task[a].chunk > ChunksOf[a[1]]
  /\ UpdateCheckpointStatus({a[1]}, FAIL, End({a}))
  /\ UNCHANGED <<pc, batch, tries, cache, produced, skipped>>

\* "update status DONE"
MarkDone(a) ==
  /\ task[a].stage = "running"
  /\ task[a].chunk > ChunksOf[a[1]]
  /\ UpdateCheckpointStatus({a[1]}, DONE, End({a}))
  /\ UNCHANGED <<pc, batch, tries, cache, produced, skipped>>

-----------------------------------------------------------------------------
(***************************************************************************)
(* The environment: eviction, time, the reaper and crashes.                *)
(***************************************************************************)

\* expirable.NewLRU: 500 entries, 50 seconds.
Evict(p) ==
  /\ \E key \in cache[p] : cache' = [cache EXCEPT ![p] = @ \ {key}]
  /\ UNCHANGED <<status, stale, pc, batch, tries, task, produced, skipped, faults>>

(***************************************************************************)
(* An hour passes since the row's last update.  Nothing bounds the time a  *)
(* batch may take, but it is a fault when an attempt still holds the row.  *)
(***************************************************************************)
HourPasses(r) ==
  /\ status[r] = PROCESSING
  /\ r \notin stale
  /\ stale' = stale \cup {r}
  /\ IF \E a \in Attempt : a[1] = r /\ Holds(a) THEN Spend(1) ELSE faults' = faults
  /\ UNCHANGED <<status, pc, batch, tries, task, cache, produced, skipped>>

\* The cron job of sui-master: PROCESSING rows older than an hour become FAIL.
UpdateFailedStatus ==
  /\ Abandoned(status, stale) # {}
  /\ status' = SetStatus(status, Abandoned(status, stale), FAIL)
  /\ task' = Release(task, Abandoned(status, stale))
  /\ stale' = stale \ Abandoned(status, stale)
  /\ UNCHANGED <<pc, batch, tries, cache, produced, skipped, faults>>

(***************************************************************************)
(* A process dies: its goroutines and its cache are gone, an open claim    *)
(* transaction is rolled back, and its rows stay as they are.  It starts   *)
(* again with idle threads.                                                *)
(***************************************************************************)
Crash(p) ==
  /\ \/ \E t \in Thread : ProcessOf[t] = p /\ pc[t] # "Idle"
     \/ \E a \in Attempt : Live(a) /\ task[a].proc = p
  /\ pc' = [t \in Thread |-> IF ProcessOf[t] = p THEN "Idle" ELSE pc[t]]
  /\ batch' = [t \in Thread |-> IF ProcessOf[t] = p THEN {} ELSE batch[t]]
  /\ task' = [a \in Attempt |-> IF Live(a) /\ task[a].proc = p THEN Idle("ended")
                                ELSE task[a]]
  /\ cache' = [cache EXCEPT ![p] = {}]
  /\ Spend(1)
  /\ UNCHANGED <<status, stale, tries, produced, skipped>>

-----------------------------------------------------------------------------
Init ==
  /\ status = [r \in Row |-> NOT_READY]
  /\ stale = {}
  /\ pc = [t \in Thread |-> "Idle"]
  /\ batch = [t \in Thread |-> {}]
  /\ tries = [r \in Row |-> 0]
  /\ task = [a \in Attempt |-> Idle("none")]
  /\ cache = [p \in Process |-> {}]
  /\ produced = {}
  /\ skipped = {}
  /\ faults = 0

ThreadStep(t) ==
  \/ SelectForUpdate(t)
  \/ FindNothing(t)
  \/ CommitClaim(t)
  \/ AbortClaim(t)
  \/ FailAborted(t)
  \/ FailBatch(t)
  \/ StartCheckpoints(t)
  \/ RecoverPanic(t)
  \/ FinishBatch(t)

TaskStep(a) ==
  \/ FetchCheckpoint(a)
  \/ Fail(a)
  \/ RejectCheckpoint(a)
  \/ FetchTxs(a)
  \/ BuildPayload(a)
  \/ SendChunk(a)
  \/ MarkDone(a)

Next ==
  \/ \E t \in Thread : ThreadStep(t)
  \/ \E a \in Attempt : TaskStep(a)
  \/ \E p \in Process : Evict(p) \/ Crash(p)
  \/ \E r \in Row : HourPasses(r)
  \/ UpdateFailedStatus

Spec == Init /\ [][Next]_vars

(***************************************************************************)
(* Fairness: goroutines are scheduled, a statement or a call returns, time *)
(* passes and the cron job of sui-master keeps running.  Nothing is said   *)
(* of faults, of eviction or of crashes.                                   *)
(***************************************************************************)
Fairness ==
  /\ \A t \in Thread : WF_vars(ThreadStep(t))
  /\ \A a \in Attempt : WF_vars(TaskStep(a))
  /\ \A r \in Row : WF_vars(HourPasses(r))
  /\ WF_vars(UpdateFailedStatus)

FairSpec == Spec /\ Fairness

-----------------------------------------------------------------------------
(***************************************************************************)
(* Properties.                                                             *)
(***************************************************************************)
TypeOK ==
  /\ status \in [Row -> Status]
  /\ stale \subseteq Row
  /\ pc \in [Thread -> {"Idle", "Selected", "Aborted", "Fetching", "Panicked",
                        "Waiting"}]
  /\ batch \in [Thread -> SUBSET Attempt]
  /\ \A t \in Thread : pc[t] = "Idle" <=> batch[t] = {}
  /\ tries \in [Row -> 0 .. MaxTry]
  /\ task \in [Attempt -> Task]
  /\ cache \in [Process -> SUBSET (Row \X Nat)]
  /\ produced \subseteq Topic \X Row \X Nat
  /\ skipped \subseteq Row \X Nat
  /\ faults \in 0 .. MaxFault

(***************************************************************************)
(* A row has one owner.  Two attempts at the same row may well run at the  *)
(* same time, but then all of them except one had the row released under   *)
(* them (by the reaper, by a failed claim, by the recover of a panic); and *)
(* while an attempt holds its row, the row is PROCESSING, so no claim can  *)
(* select it.  This is what FOR UPDATE SKIP LOCKED and the status filter   *)
(* of fetchTxs are for.                                                    *)
(***************************************************************************)
ClaimExclusive ==
  \A a \in Attempt :
     Holds(a) => /\ status[a[1]] = PROCESSING
                 /\ \A b \in Attempt : (Holds(b) /\ b[1] = a[1]) => b = a

(***************************************************************************)
(* Between the SELECT and the commit of a claim nobody else selects its    *)
(* rows and nobody changes their status, not even a stale attempt that     *)
(* finishes just then: the row locks of the transaction keep them out.     *)
(***************************************************************************)
LockProtectsClaim ==
  \A t \in Thread : pc[t] = "Selected" =>
     /\ \A a \in batch[t] : /\ status[a[1]] \in {NOT_READY, FAIL}
                            /\ a[2] = tries[a[1]] + 1
     /\ \A u \in Thread \ {t} :
          pc[u] = "Selected" => Rows(batch[t]) \cap Rows(batch[u]) = {}

(***************************************************************************)
(* No transaction is lost: a row is DONE only if every chunk of its        *)
(* checkpoint was acknowledged on the transactions topic and on the        *)
(* checkpoints topic, by whichever attempt, in whatever order attempts     *)
(* overwrote each other's status.                                          *)
(***************************************************************************)
Chunks(r) == 1 .. ChunksOf[r]

DoneMeansProduced ==
  \A r \in Row : status[r] = DONE =>
     \A c \in Chunks(r) : /\ <<"txs", r, c>> \in produced
                          /\ <<"checkpoints", r, c>> \in produced

\* What an attempt has already sent; strengthens DoneMeansProduced.
ChunksBehindProduced ==
  \A a \in Attempt : \A c \in 1 .. task[a].chunk - 1 :
     /\ <<"txs", a[1], c>> \in produced
     /\ <<"checkpoints", a[1], c>> \in produced

(***************************************************************************)
(* The events and the indices of a DONE row can be missing for one reason  *)
(* only: an attempt left them out because their keys were in the LRU       *)
(* cache.  Failed sends, crashes, lost appends and stale attempts never    *)
(* lose them on their own.                                                 *)
(***************************************************************************)
EventsLostOnlyToCache ==
  \A r \in Row : status[r] = DONE =>
     \A c \in Chunks(r) :
        \/ <<r, c>> \in skipped
        \/ {<<"events", r, c>>, <<"indices", r, c>>} \subseteq produced

\* Strengthens EventsLostOnlyToCache.
EventsBehindAccounted ==
  \A a \in Attempt :
     /\ \A c \in 1 .. task[a].chunk - 1 :
          \/ <<a[1], c>> \in skipped
          \/ {<<"events", a[1], c>>, <<"indices", a[1], c>>} \subseteq produced
     /\ task[a].stage = "sending" /\ ~task[a].fresh => Key(a) \in skipped

(***************************************************************************)
(* One fault costs a row at most two more claims.  Two, because a failed   *)
(* fetch releases its row and, when it was the last of its batch, the      *)
(* batch releases the row again under whoever has claimed it meanwhile.    *)
(* So finitely many faults never make threads steal a row from each other  *)
(* for ever.                                                               *)
(***************************************************************************)
RetriesBounded == \A r \in Row : tries[r] <= 1 + 2 * faults

(***************************************************************************)
(* The indexer indexes all on-chain data (README.md:5): the events and     *)
(* indices of every DONE row were produced.  The code does not keep this:  *)
(* the cache of worker.go:289, which is to hold processed events, is       *)
(* filled before the events are sent.                                      *)
(***************************************************************************)
DoneMeansEventsProduced ==
  \A r \in Row : status[r] = DONE =>
     \A c \in Chunks(r) :
        {<<"events", r, c>>, <<"indices", r, c>>} \subseteq produced

(***************************************************************************)
(* The worker implements the queue of CheckpointQueue: in particular it    *)
(* never hands out a DONE row that was not set to FAIL first, and never    *)
(* declares DONE a row that is not delivered.                              *)
(***************************************************************************)
QueueState ==
  [r \in Row |-> CASE status[r] = PROCESSING -> "working"
                   [] status[r] = DONE -> "finished"
                   [] OTHER -> "waiting"]

DeliveredRows ==
  {r \in Row : \A c \in Chunks(r) : /\ <<"txs", r, c>> \in produced
                                    /\ <<"checkpoints", r, c>> \in produced}

Queue == INSTANCE CheckpointQueue WITH state <- QueueState, delivered <- DeliveredRows

ImplementsQueue == Queue!Spec

(***************************************************************************)
(* Once the environment stops failing, every row becomes DONE and stays    *)
(* DONE: a row left PROCESSING by a crash, a lost append or a lost update  *)
(* is returned by the reaper, and the FAIL of a stale attempt only costs   *)
(* another round.                                                          *)
(***************************************************************************)
EventuallyDone == \A r \in Row : <>[](status[r] = DONE)

=============================================================================

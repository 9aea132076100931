------------------------- MODULE SuiWorkerDelivery -------------------------
(***************************************************************************)
(* Theorems about what a DONE row of SuiWorker promises: its records are   *)
(* on their topics, and the worker implements CheckpointQueue.  They rest  *)
(* on the type and ownership invariants of SuiWorkerProofs.                *)
(***************************************************************************)
EXTENDS SuiWorkerProofs

\* A goroutine that did not advance: it starts, ends or stays at its chunk,
\* and it does not begin a send.
Tame(old, new) ==
  /\ new.chunk = old.chunk \/ new.chunk \in {0, 1}
  /\ new.stage = "sending" => /\ old.stage = "sending"
                              /\ new.fresh = old.fresh
                              /\ new.chunk = old.chunk

\* A step that sends nothing and finishes no row.
Quiet ==
  /\ UNCHANGED <<produced, skipped>>
  /\ \A a \in Attempt : Tame(task[a], task'[a])
  /\ \A r \in Row : status'[r] = DONE => status[r] = DONE

Accounts == ChunksBehindProduced /\ EventsBehindAccounted

DeliveryInv == ClaimInv /\ Accounts /\ DoneMeansProduced /\ EventsLostOnlyToCache

-----------------------------------------------------------------------------
\* A status update outside a transaction keeps every goroutine where tasks
\* has it and finishes a row only when it is told to.
LEMMA UpdateQuiet ==
  ASSUME TypeOK, NEW rows \in SUBSET Row, NEW s \in Status,
         NEW tasks \in [Attempt -> Task],
         UpdateCheckpointStatus(rows, s, tasks),
         \A a \in Attempt : Tame(task[a], tasks[a])
  PROVE  /\ \A a \in Attempt : Tame(task[a], task'[a])
         /\ \A r \in Row : status'[r] = DONE => status[r] = DONE \/ (r \in rows /\ s = DONE)
  <1>1. /\ \A r \in Row : status'[r] = status[r] \/ (r \in rows /\ status'[r] = s)
        /\ \A a \in Attempt : /\ task'[a].stage = tasks[a].stage
                              /\ task'[a].chunk = tasks[a].chunk
                              /\ task'[a].fresh = tasks[a].fresh
    BY UpdateEffect
  <1>2. \A a \in Attempt : Tame(task[a], task'[a])
    BY <1>1 DEF Tame
  <1>3. QED BY <1>1, <1>2

\* The end of a goroutine, and its staying as it is, are tame.
LEMMA EndTame ==
  ASSUME NEW attempts
  PROVE  /\ \A a \in Attempt : Tame(task[a], End(attempts)[a])
         /\ \A a \in Attempt : Tame(task[a], task[a])
  BY DEF Tame, End, Idle

\* No step of a thread sends anything or finishes a row.
LEMMA ThreadStepQuiet ==
  ASSUME TypeOK, NEW t \in Thread, ThreadStep(t)
  PROVE  Quiet
  <1>r. Rows(batch[t]) \in SUBSET Row
    BY RowsType DEF TypeOK
  <1>d. DONE # FAIL /\ DONE # PROCESSING /\ FAIL \in Status /\ PROCESSING \in Status
    BY DEF DONE, FAIL, PROCESSING, Status
  <1>1. CASE SelectForUpdate(t) \/ FindNothing(t) \/ FinishBatch(t)
    BY <1>1 DEF SelectForUpdate, FindNothing, FinishBatch, vars, Quiet, Tame
  <1>2. CASE CommitClaim(t)
    <2>1. \A r \in Row : status'[r] = DONE => status[r] = DONE
      BY <1>2, <1>d, SetStatusType DEF CommitClaim, ClaimRows, TypeOK
    <2>2. \A a \in Attempt : Tame(task[a], task'[a])
      BY <1>2 DEF CommitClaim, Started, Tame
    <2>3. QED BY <1>2, <2>1, <2>2 DEF CommitClaim, Quiet
  <1>3. CASE AbortClaim(t)
    <2>1. \A r \in Row : status'[r] = DONE => status[r] = DONE
      BY <1>3, <1>d, SetStatusType DEF AbortClaim, ClaimRows, TypeOK
    <2>2. QED BY <1>3, <2>1 DEF AbortClaim, Quiet, Tame
  <1>4. CASE FailAborted(t) \/ FailBatch(t) \/ RecoverPanic(t)
    <2>1. UpdateCheckpointStatus(Rows(batch[t]), FAIL, task) /\ UNCHANGED <<produced, skipped>>
      BY <1>4 DEF FailAborted, FailBatch, RecoverPanic
    <2>2. task \in [Attempt -> Task]
      BY DEF TypeOK
    <2>3. QED BY <2>1, <2>2, <1>r, <1>d, EndTame, UpdateQuiet DEF Quiet
  <1>5. CASE StartCheckpoints(t)
    <2>1. PICK started, rejected \in SUBSET Fetched(t) :
               task' = [b \in Attempt |->
                     IF b \in started THEN [task[b] EXCEPT !.stage = "running"]
                     ELSE IF b \in rejected THEN [task[b] EXCEPT !.stage = "invalid"]
                     ELSE IF b \in Fetched(t) THEN Idle("ended")
                     ELSE task[b]]
      BY <1>5 DEF StartCheckpoints
    <2>2. ASSUME NEW a \in Attempt PROVE Tame(task[a], task'[a])
      <3>1. task[a] \in Task
        BY DEF TypeOK
      <3>2. QED BY <2>1, <3>1 DEF Task, Idle, Tame
    <2>3. QED BY <1>5, <2>2 DEF StartCheckpoints, Quiet
  <1>6. QED BY <1>1, <1>2, <1>3, <1>4, <1>5 DEF ThreadStep

\* Nor does any step of the environment.
LEMMA EnvironmentStepQuiet ==
  ASSUME TypeOK,
         \/ \E p \in Process : Evict(p) \/ Crash(p)
         \/ \E r \in Row : HourPasses(r)
         \/ UpdateFailedStatus
  PROVE  Quiet
  <1>1. CASE \/ \E p \in Process : Evict(p)
             \/ \E r \in Row : HourPasses(r)
    BY <1>1 DEF Evict, HourPasses, Quiet, Tame
  <1>2. ASSUME NEW p \in Process, Crash(p) PROVE Quiet
    <2>1. ASSUME NEW a \in Attempt
          PROVE  task'[a] = Idle("ended") \/ task'[a] = task[a]
      BY <1>2 DEF Crash
    <2>2. QED BY <1>2, <2>1 DEF Crash, Quiet, Tame, Idle
  <1>3. CASE UpdateFailedStatus
    <2>1. \A r \in Row : status'[r] = DONE => status[r] = DONE
      BY <1>3, SetStatusType DEF UpdateFailedStatus, TypeOK, Status, DONE, FAIL
    <2>2. ASSUME NEW a \in Attempt PROVE Tame(task[a], task'[a])
      BY <1>3 DEF UpdateFailedStatus, Release, TypeOK, Task, Tame
    <2>3. QED BY <1>3, <2>1, <2>2 DEF UpdateFailedStatus, Quiet
  <1>4. QED BY <1>1, <1>2, <1>3

\* Of the steps of a goroutine, three are not quiet.
LEMMA TaskStepQuiet ==
  ASSUME TypeOK, NEW a \in Attempt, TaskStep(a)
  PROVE  Quiet \/ BuildPayload(a) \/ SendChunk(a) \/ MarkDone(a)
  <1>1. CASE FetchCheckpoint(a) \/ FetchTxs(a)
    <2>1. task \in [Attempt -> Task]
      BY DEF TypeOK
    <2>2. /\ \A b \in Attempt : b # a => task'[b] = task[b]
          /\ task'[a].chunk = task[a].chunk
          /\ task'[a].stage # "sending"
      <3>1. CASE FetchCheckpoint(a)
        BY <3>1, <2>1 DEF FetchCheckpoint, Task
      <3>2. CASE FetchTxs(a)
        <4> DEFINE hit == Key(a) \notin cache[task[a].proc]
        <4>1. \/ task' = [task EXCEPT ![a].stage = "looked", ![a].fresh = hit]
              \/ task' = [task EXCEPT ![a].stage = "failing"]
          BY <3>2 DEF FetchTxs
        <4> HIDE DEF hit
        <4>2. QED BY <4>1, <2>1 DEF Task
      <3>3. QED BY <1>1, <3>1, <3>2
    <2>3. UNCHANGED <<status, produced, skipped>>
      BY <1>1 DEF FetchCheckpoint, FetchTxs
    <2>4. QED BY <2>2, <2>3 DEF Quiet, Tame
  <1>2. CASE Fail(a) \/ RejectCheckpoint(a)
    <2>1. UpdateCheckpointStatus({a[1]}, FAIL, End({a})) /\ UNCHANGED <<produced, skipped>>
      BY <1>2 DEF Fail, RejectCheckpoint
    <2>2. End({a}) \in [Attempt -> Task] /\ {a[1]} \in SUBSET Row /\ FAIL \in Status
      BY EndType DEF Attempt, Status
    <2>3. QED BY <2>1, <2>2, EndTame, UpdateQuiet DEF Quiet, FAIL, DONE
  <1>3. QED BY <1>1, <1>2 DEF TaskStep

-----------------------------------------------------------------------------
\* A quiet step keeps the accounts and the promises of DONE rows.
LEMMA QuietKept ==
  ASSUME TypeOK, Accounts, DoneMeansProduced, EventsLostOnlyToCache, Quiet
  PROVE  Accounts' /\ DoneMeansProduced' /\ EventsLostOnlyToCache'
  <1>1. ASSUME NEW a \in Attempt, NEW c \in 1 .. task'[a].chunk - 1
        PROVE  c \in 1 .. task[a].chunk - 1
    <2>1. Tame(task[a], task'[a])
      BY DEF Quiet
    <2>2. task'[a].chunk = task[a].chunk
      BY <2>1, <1>1 DEF Tame
    <2>3. QED BY <2>2, <1>1
  <1>2. ChunksBehindProduced'
    BY <1>1 DEF Accounts, ChunksBehindProduced, Quiet
  <1>3. ASSUME NEW a \in Attempt, task'[a].stage = "sending", ~task'[a].fresh
        PROVE  Key(a)' \in skipped'
    BY <1>3 DEF Accounts, EventsBehindAccounted, Quiet, Tame, Key
  <1>4. EventsBehindAccounted'
    BY <1>1, <1>3 DEF Accounts, EventsBehindAccounted, Quiet
  <1>5. DoneMeansProduced' /\ EventsLostOnlyToCache'
    BY DEF DoneMeansProduced, EventsLostOnlyToCache, Quiet
  <1>6. QED BY <1>2, <1>4, <1>5 DEF Accounts

\* Looking up the cache: what is left out is accounted for in skipped.
LEMMA BuildPayloadKept ==
  ASSUME TypeOK, Accounts, DoneMeansProduced, EventsLostOnlyToCache,
         NEW a \in Attempt, BuildPayload(a)
  PROVE  Accounts' /\ DoneMeansProduced' /\ EventsLostOnlyToCache'
  <1>1. /\ task' = [task EXCEPT ![a].stage = "sending"]
        /\ UNCHANGED <<status, produced>>
        /\ skipped \subseteq skipped'
        /\ ~task[a].fresh => Key(a) \in skipped'
        /\ task[a].stage = "looked"
    BY DEF BuildPayload
  <1>2. task \in [Attempt -> Task]
    BY DEF TypeOK
  <1>3. /\ \A b \in Attempt : /\ task'[b].chunk = task[b].chunk
                              /\ task'[b].fresh = task[b].fresh
                              /\ b # a => task'[b].stage = task[b].stage
    BY <1>1, <1>2 DEF Task
  <1>4. ChunksBehindProduced'
    BY <1>1, <1>3 DEF Accounts, ChunksBehindProduced
  <1>5. ASSUME NEW b \in Attempt, task'[b].stage = "sending", ~task'[b].fresh
        PROVE  Key(b)' \in skipped'
    <2>1. Key(b)' = Key(b)
      BY <1>3 DEF Key
    <2>2. QED BY <2>1, <1>1, <1>3, <1>5 DEF Accounts, EventsBehindAccounted
  <1>6. EventsBehindAccounted'
    BY <1>1, <1>3, <1>5 DEF Accounts, EventsBehindAccounted
  <1>7. DoneMeansProduced' /\ EventsLostOnlyToCache'
    BY <1>1 DEF DoneMeansProduced, EventsLostOnlyToCache
  <1>8. QED BY <1>4, <1>6, <1>7 DEF Accounts

\* Sending: a goroutine moves past a chunk only when all its senders succeeded.
LEMMA SendChunkKept ==
  ASSUME TypeOK, Accounts, DoneMeansProduced, EventsLostOnlyToCache,
         NEW a \in Attempt, SendChunk(a)
  PROVE  Accounts' /\ DoneMeansProduced' /\ EventsLostOnlyToCache'
  <1>0. task \in [Attempt -> Task] /\ task[a].chunk \in Nat
    BY DEF TypeOK, Task
  <1>1. /\ UNCHANGED <<status, skipped>>
        /\ produced \subseteq produced'
        /\ task[a].stage = "sending"
    BY DEF SendChunk
  <1>2. DoneMeansProduced' /\ EventsLostOnlyToCache'
    BY <1>1 DEF DoneMeansProduced, EventsLostOnlyToCache
  <1>3. CASE /\ produced' = produced \cup Payload(a)
             /\ task' = [task EXCEPT ![a].stage = "running", ![a].fresh = FALSE,
                                     ![a].chunk = @ + 1]
    <2>1. /\ \A b \in Attempt : b # a => task'[b] = task[b]
          /\ task'[a].stage = "running"
          /\ task'[a].chunk = task[a].chunk + 1
      BY <1>0, <1>3 DEF Task
    <2>2. \A c \in 1 .. task'[a].chunk - 1 :
             c \in 1 .. task[a].chunk - 1 \/ c = task[a].chunk
      BY <2>1, <1>0
    <2>3. /\ <<"txs", a[1], task[a].chunk>> \in produced'
          /\ <<"checkpoints", a[1], task[a].chunk>> \in produced'
          /\ task[a].fresh => {<<"events", a[1], task[a].chunk>>,
                               <<"indices", a[1], task[a].chunk>>} \subseteq produced'
      BY <1>3 DEF Payload, Topic
    <2>4. ChunksBehindProduced'
      BY <1>1, <2>1, <2>2, <2>3 DEF Accounts, ChunksBehindProduced
    <2>5. ~task[a].fresh => <<a[1], task[a].chunk>> \in skipped
      BY <1>1 DEF Accounts, EventsBehindAccounted, Key
    <2>6. ASSUME NEW b \in Attempt, NEW c \in 1 .. task'[b].chunk - 1
          PROVE  \/ <<b[1], c>> \in skipped'
                 \/ {<<"events", b[1], c>>, <<"indices", b[1], c>>} \subseteq produced'
      <3>1. CASE b # a
        BY <3>1, <1>1, <2>1, <2>6 DEF Accounts, EventsBehindAccounted
      <3>2. CASE b = a /\ c = task[a].chunk
        BY <3>2, <1>1, <2>3, <2>5
      <3>3. CASE b = a /\ c \in 1 .. task[a].chunk - 1
        BY <3>3, <1>1 DEF Accounts, EventsBehindAccounted
      <3>4. QED BY <3>1, <3>2, <3>3, <2>2, <2>6
    <2>7. ASSUME NEW b \in Attempt, task'[b].stage = "sending", ~task'[b].fresh
          PROVE  Key(b)' \in skipped'
      BY <2>7, <2>1, <1>1 DEF Accounts, EventsBehindAccounted, Key
    <2>8. EventsBehindAccounted'
      BY <2>6, <2>7 DEF EventsBehindAccounted
    <2>9. QED BY <1>2, <2>4, <2>8 DEF Accounts
  <1>4. CASE task' = [task EXCEPT ![a].stage = "failing"]
    <2>1. \A b \in Attempt : /\ task'[b].chunk = task[b].chunk
                             /\ task'[b].fresh = task[b].fresh
                             /\ task'[b].stage = "sending" => task[b].stage = "sending"
      BY <1>0, <1>4 DEF Task
    <2>2. ChunksBehindProduced'
      BY <1>1, <2>1 DEF Accounts, ChunksBehindProduced
    <2>3. \A b \in Attempt : Key(b)' = Key(b)
      BY <2>1 DEF Key
    <2>4. EventsBehindAccounted'
      BY <1>1, <2>1, <2>3 DEF Accounts, EventsBehindAccounted
    <2>5. QED BY <1>2, <2>2, <2>4 DEF Accounts
  <1>5. QED BY <1>3, <1>4 DEF SendChunk

\* Finishing: the goroutine is past the last chunk.
LEMMA MarkDoneKept ==
  ASSUME TypeOK, Accounts, DoneMeansProduced, EventsLostOnlyToCache,
         NEW a \in Attempt, MarkDone(a)
  PROVE  Accounts' /\ DoneMeansProduced' /\ EventsLostOnlyToCache'
  <1>0. /\ task[a].chunk \in Nat /\ ChunksOf[a[1]] \in Nat /\ a[1] \in Row
        /\ End({a}) \in [Attempt -> Task]
        /\ {a[1]} \in SUBSET Row /\ DONE \in Status
    BY EndType, WorkerAssumption DEF TypeOK, Task, Attempt, Status
  <1>1. /\ task[a].chunk > ChunksOf[a[1]]
        /\ UpdateCheckpointStatus({a[1]}, DONE, End({a}))
        /\ UNCHANGED <<produced, skipped>>
    BY DEF MarkDone
  <1>2. /\ \A b \in Attempt : Tame(task[b], task'[b])
        /\ \A r \in Row : status'[r] = DONE => status[r] = DONE \/ r = a[1]
    BY <1>0, <1>1, EndTame, UpdateQuiet
  <1>3. \A c \in Chunks(a[1]) : c \in 1 .. task[a].chunk - 1
    BY <1>0, <1>1 DEF Chunks
  <1>4. DoneMeansProduced'
    BY <1>1, <1>2, <1>3 DEF DoneMeansProduced, Accounts, ChunksBehindProduced
  <1>5. EventsLostOnlyToCache'
    BY <1>1, <1>2, <1>3 DEF EventsLostOnlyToCache, Accounts, EventsBehindAccounted
  <1>6. ASSUME NEW b \in Attempt, NEW c \in 1 .. task'[b].chunk - 1
        PROVE  c \in 1 .. task[b].chunk - 1
    <2>1. task'[b].chunk = task[b].chunk
      BY <1>2, <1>6 DEF Tame
    <2>2. QED BY <2>1, <1>6
  <1>7. ChunksBehindProduced'
    BY <1>1, <1>6 DEF Accounts, ChunksBehindProduced
  <1>8. ASSUME NEW b \in Attempt, task'[b].stage = "sending", ~task'[b].fresh
        PROVE  Key(b)' \in skipped'
    BY <1>1, <1>2, <1>8 DEF Accounts, EventsBehindAccounted, Tame, Key
  <1>9. EventsBehindAccounted'
    BY <1>1, <1>6, <1>8 DEF Accounts, EventsBehindAccounted
  <1>10. QED BY <1>4, <1>5, <1>7, <1>9 DEF Accounts

\* DeliveryInv holds initially.
LEMMA DeliveryInvInit == Init => DeliveryInv
  <1> SUFFICES ASSUME Init PROVE DeliveryInv
    OBVIOUS
  <1>1. Accounts
    BY DEF Init, Accounts, ChunksBehindProduced, EventsBehindAccounted, Idle
  <1>2. DoneMeansProduced /\ EventsLostOnlyToCache
    BY DEF Init, DoneMeansProduced, EventsLostOnlyToCache, DONE, NOT_READY
  <1>3. QED BY <1>1, <1>2, ClaimInvInit DEF DeliveryInv

\* DeliveryInv is inductive.
LEMMA DeliveryInvStep == DeliveryInv /\ [Next]_vars => DeliveryInv'
  <1> SUFFICES ASSUME DeliveryInv, [Next]_vars PROVE DeliveryInv'
    OBVIOUS
  <1>c. ClaimInv' /\ TypeOK
    BY ClaimInvStep DEF DeliveryInv, ClaimInv
  <1>q. ASSUME Quiet PROVE Accounts' /\ DoneMeansProduced' /\ EventsLostOnlyToCache'
    BY <1>c, <1>q, QuietKept DEF DeliveryInv
  <1>1. ASSUME NEW t \in Thread, ThreadStep(t) PROVE Quiet
    BY <1>c, <1>1, ThreadStepQuiet
  <1>2. ASSUME NEW a \in Attempt, TaskStep(a)
        PROVE  Accounts' /\ DoneMeansProduced' /\ EventsLostOnlyToCache'
    BY <1>c, <1>q, <1>2, TaskStepQuiet, BuildPayloadKept, SendChunkKept, MarkDoneKept
       DEF DeliveryInv
  <1>3. ASSUME \/ \E p \in Process : Evict(p) \/ Crash(p)
               \/ \E r \in Row : HourPasses(r)
               \/ UpdateFailedStatus
        PROVE  Quiet
    BY <1>c, <1>3, EnvironmentStepQuiet
  <1>4. ASSUME UNCHANGED vars PROVE Quiet
    BY <1>4 DEF vars, Quiet, Tame
  <1>5. Accounts' /\ DoneMeansProduced' /\ EventsLostOnlyToCache'
    BY <1>q, <1>1, <1>2, <1>3, <1>4 DEF Next
  <1>6. QED BY <1>c, <1>5 DEF DeliveryInv

(***************************************************************************)
(* A DONE row has all its transactions and checkpoint records on their     *)
(* topics, however many goroutines, stale ones included, worked on it.     *)
(***************************************************************************)
THEOREM DoneSafe == Spec => []DoneMeansProduced
  <1>1. DeliveryInv => DoneMeansProduced
    BY DEF DeliveryInv
  <1>2. QED BY <1>1, DeliveryInvInit, DeliveryInvStep, PTL DEF Spec

(***************************************************************************)
(* Events of a DONE row can be missing because of the LRU cache only.      *)
(***************************************************************************)
THEOREM EventsSafe == Spec => []EventsLostOnlyToCache
  <1>1. DeliveryInv => EventsLostOnlyToCache
    BY DEF DeliveryInv
  <1>2. QED BY <1>1, DeliveryInvInit, DeliveryInvStep, PTL DEF Spec

-----------------------------------------------------------------------------
(***************************************************************************)
(* The refinement.  The table moves the queue, the records deliver.        *)
(***************************************************************************)
StateOf(s) == CASE s = PROCESSING -> "working"
                [] s = DONE -> "finished"
                [] OTHER -> "waiting"

\* The queue sees an update of the table as a move of the updated rows.
LEMMA SetStatusMoves ==
  ASSUME TypeOK, NEW rows \in SUBSET Row, NEW s \in Status,
         status' = SetStatus(status, rows, s)
  PROVE  Queue!Move(rows, StateOf(s))
  <1>1. \A r \in Row : status'[r] = IF r \in rows THEN s ELSE status[r]
    BY SetStatusType DEF TypeOK
  <1>2. ASSUME NEW r \in Row
        PROVE  QueueState'[r] = IF r \in rows THEN StateOf(s) ELSE QueueState[r]
    BY <1>1 DEF QueueState, StateOf
  <1>3. QueueState' = [r \in Row |-> IF r \in rows THEN StateOf(s) ELSE QueueState[r]]
    BY <1>2 DEF QueueState
  <1>4. QED BY <1>3 DEF Queue!Move

\* What the queue sees depends on the table and on the records only.
LEMMA QueueStutters ==
  ASSUME UNCHANGED <<status, produced>>
  PROVE  UNCHANGED Queue!vars
  BY DEF Queue!vars, QueueState, DeliveredRows

\* The same for the delivered rows alone.
LEMMA DeliveredSame ==
  ASSUME UNCHANGED produced
  PROVE  UNCHANGED DeliveredRows
  BY DEF DeliveredRows

\* An update outside a transaction puts rows back, or finishes delivered rows.
LEMMA UpdateRefines ==
  ASSUME TypeOK, NEW rows \in SUBSET Row, NEW s \in {FAIL, DONE},
         NEW tasks, UpdateCheckpointStatus(rows, s, tasks), UNCHANGED produced,
         s = DONE => \E r \in DeliveredRows : rows = {r}
  PROVE  [Queue!Next]_(Queue!vars)
  <1>0. UNCHANGED DeliveredRows /\ DeliveredRows \subseteq Row /\ s \in Status
    BY DeliveredSame DEF DeliveredRows, Status
  <1>1. CASE status' = status
    BY <1>1, QueueStutters
  <1>2. CASE status' = SetStatus(status, rows, s)
    <2>1. Queue!Move(rows, StateOf(s))
      BY <1>0, <1>2, SetStatusMoves
    <2>2. CASE s = FAIL
      <3>1. StateOf(s) = "waiting"
        BY <2>2 DEF StateOf, FAIL, DONE, PROCESSING
      <3>2. Queue!PutBack(rows)
        BY <1>0, <2>1, <3>1 DEF Queue!PutBack
      <3>3. QED BY <3>2 DEF Queue!Next
    <2>3. CASE s = DONE
      <3>1. StateOf(s) = "finished"
        BY <2>3 DEF StateOf, DONE, PROCESSING
      <3>2. PICK r \in DeliveredRows : rows = {r}
        BY <2>3
      <3>3. Queue!Finish(r)
        BY <1>0, <2>1, <3>1, <3>2 DEF Queue!Finish
      <3>4. QED BY <1>0, <3>3 DEF Queue!Next
    <2>4. QED BY <2>2, <2>3
  <1>3. QED BY <1>1, <1>2 DEF UpdateCheckpointStatus

\* The update of a claim takes its page from the queue.
LEMMA ClaimRefines ==
  ASSUME ClaimInv, NEW t \in Thread, pc[t] = "Selected", ClaimRows(t), UNCHANGED produced
  PROVE  [Queue!Next]_(Queue!vars)
  <1>1. TypeOK /\ LockProtectsClaim /\ Rows(batch[t]) \in SUBSET Row /\ PROCESSING \in Status
    BY RowsType DEF ClaimInv, TypeOK, Status
  <1>2. Queue!Move(Rows(batch[t]), StateOf(PROCESSING))
    BY <1>1, SetStatusMoves DEF ClaimRows
  <1>3. \A r \in Rows(batch[t]) : QueueState[r] = "waiting"
    <2>1. \A r \in Rows(batch[t]) : status[r] \in {NOT_READY, FAIL}
      BY <1>1 DEF LockProtectsClaim, Rows
    <2>2. QED BY <1>1, <2>1 DEF QueueState, NOT_READY, FAIL, PROCESSING, DONE
  <1>4. Queue!Take(Rows(batch[t]))
    <2>1. StateOf(PROCESSING) = "working"
      BY DEF StateOf, PROCESSING, DONE
    <2>2. QED BY <2>1, <1>2, <1>3, DeliveredSame DEF Queue!Take
  <1>5. QED BY <1>1, <1>4 DEF Queue!Next

\* Every step of the worker is a step of the queue, or invisible to it.
LEMMA StepRefines ==
  ASSUME DeliveryInv, [Next]_vars
  PROVE  [Queue!Next]_(Queue!vars)
  <1>0. ClaimInv /\ TypeOK
    BY DEF DeliveryInv, ClaimInv
  <1>1. ASSUME NEW t \in Thread, ThreadStep(t)
        PROVE  [Queue!Next]_(Queue!vars)
    <2>0. Rows(batch[t]) \in SUBSET Row
      BY <1>0, RowsType DEF TypeOK
    <2>1. CASE SelectForUpdate(t) \/ FindNothing(t) \/ StartCheckpoints(t) \/ FinishBatch(t)
      BY <2>1, QueueStutters
         DEF SelectForUpdate, FindNothing, StartCheckpoints, FinishBatch, vars
    <2>2. CASE CommitClaim(t) \/ AbortClaim(t)
      BY <1>0, <2>2, ClaimRefines, QueueStutters DEF CommitClaim, AbortClaim
    <2>3. CASE FailAborted(t) \/ FailBatch(t) \/ RecoverPanic(t)
      <3>1. UpdateCheckpointStatus(Rows(batch[t]), FAIL, task) /\ UNCHANGED produced
        BY <2>3 DEF FailAborted, FailBatch, RecoverPanic
      <3>2. FAIL # DONE
        BY DEF FAIL, DONE
      <3>3. QED BY <1>0, <2>0, <3>1, <3>2, UpdateRefines
    <2>4. QED BY <1>1, <2>1, <2>2, <2>3 DEF ThreadStep
  <1>2. ASSUME NEW a \in Attempt, TaskStep(a)
        PROVE  [Queue!Next]_(Queue!vars)
    <2>0. a[1] \in Row /\ {a[1]} \in SUBSET Row
      BY DEF Attempt
    <2>1. CASE FetchCheckpoint(a) \/ FetchTxs(a) \/ BuildPayload(a)
      BY <2>1, QueueStutters DEF FetchCheckpoint, FetchTxs, BuildPayload
    <2>2. CASE Fail(a) \/ RejectCheckpoint(a)
      <3>1. UpdateCheckpointStatus({a[1]}, FAIL, End({a})) /\ UNCHANGED produced
        BY <2>2 DEF Fail, RejectCheckpoint
      <3>2. FAIL # DONE
        BY DEF FAIL, DONE
      <3>3. QED BY <1>0, <2>0, <3>1, <3>2, UpdateRefines
    <2>3. CASE MarkDone(a)
      <3>1. /\ UpdateCheckpointStatus({a[1]}, DONE, End({a})) /\ UNCHANGED produced
            /\ task[a].chunk > ChunksOf[a[1]]
        BY <2>3 DEF MarkDone
      <3>2. task[a].chunk \in Nat /\ ChunksOf[a[1]] \in Nat
        BY <1>0, <2>0, WorkerAssumption DEF TypeOK, Task
      <3>3. \A c \in Chunks(a[1]) : c \in 1 .. task[a].chunk - 1
        BY <3>1, <3>2 DEF Chunks
      <3>4. a[1] \in DeliveredRows
        BY <2>0, <3>3 DEF DeliveryInv, Accounts, ChunksBehindProduced, DeliveredRows
      <3>5. QED BY <1>0, <2>0, <3>1, <3>4, UpdateRefines
    <2>4. CASE SendChunk(a)
      <3>1. status' = status /\ produced \subseteq produced'
        BY <2>4 DEF SendChunk
      <3>2. UNCHANGED QueueState
        BY <3>1 DEF QueueState
      <3>3. DeliveredRows' = DeliveredRows \cup DeliveredRows' /\ DeliveredRows' \in SUBSET Row
        BY <3>1 DEF DeliveredRows
      <3>4. Queue!Deliver(DeliveredRows')
        BY <3>2, <3>3 DEF Queue!Deliver
      <3>5. QED BY <3>3, <3>4 DEF Queue!Next
    <2>5. QED BY <1>2, <2>1, <2>2, <2>3, <2>4 DEF TaskStep
  <1>3. CASE \/ \E p \in Process : Evict(p) \/ Crash(p)
             \/ \E r \in Row : HourPasses(r)
    BY <1>3, QueueStutters DEF Evict, Crash, HourPasses
  <1>4. CASE UpdateFailedStatus
    <2>1. /\ status' = SetStatus(status, Abandoned(status, stale), FAIL)
          /\ UNCHANGED produced
          /\ Abandoned(status, stale) \in SUBSET Row
          /\ FAIL \in Status
      BY <1>0, <1>4 DEF UpdateFailedStatus, Abandoned, TypeOK, Status
    <2>2. Queue!Move(Abandoned(status, stale), StateOf(FAIL))
      BY <1>0, <2>1, SetStatusMoves
    <2>3. Queue!PutBack(Abandoned(status, stale))
      BY <2>1, <2>2, DeliveredSame DEF Queue!PutBack, StateOf, FAIL, PROCESSING, DONE
    <2>4. QED BY <2>1, <2>3 DEF Queue!Next
  <1>5. CASE UNCHANGED vars
    BY <1>5, QueueStutters DEF vars
  <1>6. QED BY <1>1, <1>2, <1>3, <1>4, <1>5 DEF Next

(***************************************************************************)
(* The worker implements the at-least-once queue, for any number of        *)
(* threads, processes, rows and faults.                                    *)
(***************************************************************************)
THEOREM QueueImplemented == Spec => ImplementsQueue
  <1>1. Init => Queue!Init
    <2>1. Init => QueueState = [r \in Row |-> "waiting"]
      BY DEF Init, QueueState, NOT_READY, PROCESSING, DONE
    <2>2. DeliveredRows \subseteq Row
      BY DEF DeliveredRows
    <2>3. QED BY <2>1, <2>2 DEF Queue!Init
  <1>2. DeliveryInv /\ [Next]_vars => [Queue!Next]_(Queue!vars)
    BY StepRefines
  <1>3. QED BY <1>1, <1>2, DeliveryInvInit, DeliveryInvStep, PTL
        DEF Spec, ImplementsQueue, Queue!Spec

=============================================================================

-------------------------- MODULE SuiWorkerProofs --------------------------
(***************************************************************************)
(* Theorems about SuiWorker for any rows, threads, processes, page limit,  *)
(* chunk counts and fault budget.                                          *)
(***************************************************************************)
EXTENDS SuiWorker, FiniteSetTheorems, TLAPS

Pc == {"Idle", "Selected", "Aborted", "Fetching", "Panicked", "Waiting"}

-----------------------------------------------------------------------------
(***************************************************************************)
(* Types of the operators.                                                 *)
(***************************************************************************)

\* SetStatus returns a table of the same rows.
LEMMA SetStatusType ==
  ASSUME NEW table \in [Row -> Status], NEW rows, NEW s \in Status
  PROVE  /\ SetStatus(table, rows, s) \in [Row -> Status]
         /\ \A r \in Row : SetStatus(table, rows, s)[r] = IF r \in rows THEN s ELSE table[r]
  BY DEF SetStatus

\* The records of goroutines that do not run, and of ones just started.
LEMMA TaskRecords ==
  /\ Idle("none") \in Task
  /\ Idle("ended") \in Task
  /\ \A p \in Process : Started(p) \in Task
  BY DEF Idle, Started, Task, Stage

\* Release returns one record for each attempt.
LEMMA ReleaseType ==
  ASSUME NEW tasks \in [Attempt -> Task], NEW rows
  PROVE  Release(tasks, rows) \in [Attempt -> Task]
  BY DEF Release, Task

\* So does End.
LEMMA EndType ==
  ASSUME TypeOK, NEW attempts
  PROVE  End(attempts) \in [Attempt -> Task]
  BY TaskRecords DEF End, TypeOK

\* A set of attempts names rows of the table.
LEMMA RowsType ==
  ASSUME NEW attempts \in SUBSET Attempt
  PROVE  Rows(attempts) \subseteq Row
  BY DEF Rows, Attempt

\* What a status update outside a transaction leaves behind.
LEMMA UpdateType ==
  ASSUME TypeOK, NEW rows \in SUBSET Row, NEW s \in Status,
         NEW tasks \in [Attempt -> Task],
         UpdateCheckpointStatus(rows, s, tasks)
  PROVE  /\ status' \in [Row -> Status]
         /\ stale' \subseteq Row
         /\ task' \in [Attempt -> Task]
         /\ faults' \in 0 .. MaxFault
  <1>1. CASE /\ status' = SetStatus(status, rows, s)
             /\ stale' = stale \ rows
             /\ task' = Release(tasks, rows)
             /\ faults' = faults
    BY <1>1, SetStatusType, ReleaseType DEF TypeOK
  <1>2. CASE task' = tasks /\ Spend(1) /\ UNCHANGED <<status, stale>>
    BY <1>2, WorkerAssumption DEF TypeOK, Spend
  <1>3. QED BY <1>1, <1>2 DEF UpdateCheckpointStatus

-----------------------------------------------------------------------------
(***************************************************************************)
(* Type correctness.                                                       *)
(***************************************************************************)

\* The steps of a thread keep the types.
LEMMA ThreadStepType ==
  ASSUME TypeOK, LockProtectsClaim, NEW t \in Thread, ThreadStep(t)
  PROVE  TypeOK'
  <1>r. Rows(batch[t]) \in SUBSET Row
    BY RowsType DEF TypeOK
  <1>1. CASE SelectForUpdate(t)
    <2>1. PICK rows \in SUBSET Row :
                 /\ rows # {}
                 /\ \A r \in rows : tries[r] < MaxTry
                 /\ batch' = [batch EXCEPT ![t] = {<<r, tries[r] + 1>> : r \in rows}]
      BY <1>1 DEF SelectForUpdate, Pages, Claimable, TypeOK
    <2>2. {<<r, tries[r] + 1>> : r \in rows} \in SUBSET Attempt
      BY <2>1, WorkerAssumption DEF Attempt, TypeOK
    <2>3. {<<r, tries[r] + 1>> : r \in rows} # {}
      BY <2>1
    <2>4. /\ pc' = [pc EXCEPT ![t] = "Selected"]
          /\ UNCHANGED <<status, stale, tries, task, cache, produced, skipped, faults>>
      BY <1>1 DEF SelectForUpdate, Goto
    <2>5. QED
      BY <2>1, <2>2, <2>3, <2>4 DEF TypeOK
  <1>2. CASE FindNothing(t)
    BY <1>2 DEF FindNothing, vars, TypeOK
  <1>3. CASE CommitClaim(t)
    <2>1. /\ status' \in [Row -> Status]
          /\ stale' \subseteq Row
      BY <1>3, <1>r, SetStatusType DEF CommitClaim, ClaimRows, TypeOK, Status
    <2>2. task' \in [Attempt -> Task]
      BY <1>3, TaskRecords, WorkerAssumption DEF CommitClaim, TypeOK
    <2>3. tries' \in [Row -> 0 .. MaxTry]
      <3>1. tries' = [r \in Row |-> IF r \in Rows(batch[t]) THEN tries[r] + 1 ELSE tries[r]]
        BY <1>3 DEF CommitClaim
      <3>2. \A a \in batch[t] : tries[a[1]] + 1 \in 0 .. MaxTry
        BY <1>3, WorkerAssumption DEF CommitClaim, LockProtectsClaim, TypeOK, Attempt
      <3>3. \A r \in Rows(batch[t]) : tries[r] + 1 \in 0 .. MaxTry
        BY <3>2 DEF Rows
      <3>4. QED BY <3>1, <3>3 DEF TypeOK
    <2>4. /\ pc' = [pc EXCEPT ![t] = "Fetching"]
          /\ pc[t] = "Selected"
          /\ UNCHANGED <<batch, cache, produced, skipped, faults>>
      BY <1>3 DEF CommitClaim, Goto
    <2>5. QED
      BY <2>1, <2>2, <2>3, <2>4 DEF TypeOK
  <1>4. CASE AbortClaim(t)
    <2>1. /\ status' \in [Row -> Status]
          /\ stale' \subseteq Row
      BY <1>4, <1>r, SetStatusType DEF AbortClaim, ClaimRows, TypeOK, Status
    <2>2. /\ pc' = [pc EXCEPT ![t] = "Aborted"]
          /\ pc[t] = "Selected"
          /\ UNCHANGED <<batch, tries, task, cache, produced, skipped>>
          /\ faults' \in 0 .. MaxFault
      BY <1>4, WorkerAssumption DEF AbortClaim, Goto, Spend, TypeOK
    <2>3. QED
      BY <2>1, <2>2 DEF TypeOK
  <1>5. CASE FailAborted(t) \/ FailBatch(t) \/ RecoverPanic(t)
    <2>1. UpdateCheckpointStatus(Rows(batch[t]), FAIL, task)
      BY <1>5 DEF FailAborted, FailBatch, RecoverPanic
    <2>2. /\ status' \in [Row -> Status]
          /\ stale' \subseteq Row
          /\ task' \in [Attempt -> Task]
          /\ faults' \in 0 .. MaxFault
      <3>1. FAIL \in Status /\ task \in [Attempt -> Task]
        BY DEF Status, TypeOK
      <3>2. QED BY <3>1, <2>1, <1>r, UpdateType
    <2>3. /\ pc' = [pc EXCEPT ![t] = "Idle"]
          /\ batch' = [batch EXCEPT ![t] = {}]
          /\ UNCHANGED <<tries, cache, produced, skipped>>
      BY <1>5 DEF FailAborted, FailBatch, RecoverPanic, Return, Goto
    <2>4. QED
      BY <2>2, <2>3 DEF TypeOK
  <1>6. CASE StartCheckpoints(t)
    <2>1. task' \in [Attempt -> Task] /\ faults' \in 0 .. MaxFault
      <3>1. PICK started, rejected \in SUBSET Fetched(t), panics \in BOOLEAN :
              /\ IF started = Fetched(t) /\ ~panics THEN faults' = faults ELSE Spend(1)
              /\ task' = [a \in Attempt |->
                     IF a \in started THEN [task[a] EXCEPT !.stage = "running"]
                     ELSE IF a \in rejected THEN [task[a] EXCEPT !.stage = "invalid"]
                     ELSE IF a \in Fetched(t) THEN Idle("ended")
                     ELSE task[a]]
        BY <1>6 DEF StartCheckpoints
      <3>2. ASSUME NEW a \in Attempt
            PROVE  /\ [task[a] EXCEPT !.stage = "running"] \in Task
                   /\ [task[a] EXCEPT !.stage = "invalid"] \in Task
                   /\ task[a] \in Task
        BY DEF TypeOK, Task, Stage
      <3>3. task' \in [Attempt -> Task]
        BY <3>1, <3>2, TaskRecords
      <3>4. faults' \in 0 .. MaxFault
        BY <3>1, WorkerAssumption DEF Spend, TypeOK
      <3>5. QED BY <3>3, <3>4
    <2>2. /\ \E label \in Pc \ {"Idle"} : pc' = [pc EXCEPT ![t] = label]
          /\ pc[t] = "Fetching"
          /\ UNCHANGED <<status, stale, batch, tries, cache, produced, skipped>>
      BY <1>6 DEF StartCheckpoints, AllFetched, Goto, Pc
    <2>3. QED
      BY <2>1, <2>2 DEF TypeOK, Pc
  <1>7. CASE FinishBatch(t)
    BY <1>7 DEF FinishBatch, Return, Goto, TypeOK
  <1>8. QED
    BY <1>1, <1>2, <1>3, <1>4, <1>5, <1>6, <1>7 DEF ThreadStep

\* The steps of a goroutine keep the types.
LEMMA TaskStepType ==
  ASSUME TypeOK, NEW a \in Attempt, TaskStep(a)
  PROVE  TypeOK'
  <1>r. a[1] \in Row /\ {a[1]} \in SUBSET Row /\ task[a] \in Task
    BY DEF Attempt, TypeOK
  <1>u. ASSUME NEW s \in Status, UpdateCheckpointStatus({a[1]}, s, End({a})),
               UNCHANGED <<pc, batch, tries, cache, produced, skipped>>
        PROVE  TypeOK'
    <2>1. End({a}) \in [Attempt -> Task]
      BY EndType
    <2>2. /\ status' \in [Row -> Status]
          /\ stale' \subseteq Row
          /\ task' \in [Attempt -> Task]
          /\ faults' \in 0 .. MaxFault
      BY <1>u, <1>r, <2>1, UpdateType
    <2>3. QED
      BY <1>u, <2>2 DEF TypeOK
  <1>t. ASSUME NEW rec \in Task, task' = [task EXCEPT ![a] = rec],
               faults' = faults \/ Spend(1),
               cache' \in [Process -> SUBSET (Row \X Nat)],
               produced' \subseteq Topic \X Row \X Nat,
               skipped' \subseteq Row \X Nat,
               UNCHANGED <<status, stale, pc, batch, tries>>
        PROVE  TypeOK'
    <2>1. faults' \in 0 .. MaxFault
      BY <1>t, WorkerAssumption DEF Spend, TypeOK
    <2>2. task' \in [Attempt -> Task]
      BY <1>t DEF TypeOK
    <2>3. QED
      BY <1>t, <2>1, <2>2 DEF TypeOK
  <1>k. Key(a) \in Row \X Nat
    BY <1>r DEF Key, Task
  <1>1. CASE FetchCheckpoint(a)
    <2>1. /\ [task[a] EXCEPT !.stage = "fetched"] \in Task
          /\ [task[a] EXCEPT !.stage = "failing"] \in Task
      BY <1>r DEF Task, Stage
    <2>2. QED
      BY <1>1, <1>t, <2>1 DEF FetchCheckpoint, TypeOK
  <1>2. CASE Fail(a) \/ RejectCheckpoint(a)
    BY <1>2, <1>u DEF Fail, RejectCheckpoint, Status
  <1>3. CASE MarkDone(a)
    BY <1>3, <1>u DEF MarkDone, Status
  <1>4. CASE FetchTxs(a)
    <2>1. /\ \A b \in BOOLEAN : [task[a] EXCEPT !.stage = "looked", !.fresh = b] \in Task
          /\ [task[a] EXCEPT !.stage = "failing"] \in Task
      BY <1>r, Zenon DEF Task, Stage
    <2>2. /\ faults' = faults \/ Spend(1)
          /\ UNCHANGED <<status, stale, pc, batch, tries, cache, produced, skipped>>
      BY <1>4 DEF FetchTxs
    <2>3. \E rec \in Task : task' = [task EXCEPT ![a] = rec]
      <3> DEFINE hit == Key(a) \notin cache[task[a].proc]
      <3>1. hit \in BOOLEAN
        OBVIOUS
      <3>2. \/ task' = [task EXCEPT ![a].stage = "looked", ![a].fresh = hit]
            \/ task' = [task EXCEPT ![a].stage = "failing"]
        BY <1>4 DEF FetchTxs
      <3> HIDE DEF hit
      <3>3. QED
        BY <2>1, <3>1, <3>2
    <2>4. QED
      BY <1>t, <2>2, <2>3 DEF TypeOK
  <1>5. CASE BuildPayload(a)
    <2>1. [task[a] EXCEPT !.stage = "sending"] \in Task
      BY <1>r DEF Task, Stage
    <2>2. /\ cache' \in [Process -> SUBSET (Row \X Nat)]
          /\ skipped' \subseteq Row \X Nat
      BY <1>5, <1>k DEF BuildPayload, TypeOK
    <2>3. QED
      BY <1>5, <1>t, <2>1, <2>2 DEF BuildPayload, TypeOK
  <1>6. CASE SendChunk(a)
    <2>1. /\ [task[a] EXCEPT !.stage = "running", !.fresh = FALSE, !.chunk = @ + 1] \in Task
          /\ [task[a] EXCEPT !.stage = "failing"] \in Task
      <3>1. task[a].chunk + 1 \in Nat
        BY <1>r DEF Task
      <3>2. QED
        BY <1>r, <3>1, Zenon DEF Task, Stage
    <2>2. Payload(a) \subseteq Topic \X Row \X Nat
      BY <1>r DEF Payload, Topic, Task
    <2>3. produced' \subseteq Topic \X Row \X Nat
      BY <1>6, <2>2 DEF SendChunk, TypeOK
    <2>4. QED
      BY <1>6, <1>t, <2>1, <2>3 DEF SendChunk, TypeOK
  <1>7. QED
    BY <1>1, <1>2, <1>3, <1>4, <1>5, <1>6 DEF TaskStep

\* The steps of the environment keep the types.
LEMMA EnvironmentStepType ==
  ASSUME TypeOK,
         \/ \E p \in Process : Evict(p) \/ Crash(p)
         \/ \E r \in Row : HourPasses(r)
         \/ UpdateFailedStatus
  PROVE  TypeOK'
  <1>1. ASSUME NEW p \in Process, Evict(p) PROVE TypeOK'
    BY <1>1 DEF Evict, TypeOK
  <1>2. ASSUME NEW p \in Process, Crash(p) PROVE TypeOK'
    <2>1. task' \in [Attempt -> Task]
      BY <1>2, TaskRecords DEF Crash, TypeOK
    <2>2. faults' \in 0 .. MaxFault
      BY <1>2, WorkerAssumption DEF Crash, Spend, TypeOK
    <2>3. /\ pc' = [t \in Thread |-> IF ProcessOf[t] = p THEN "Idle" ELSE pc[t]]
          /\ batch' = [t \in Thread |-> IF ProcessOf[t] = p THEN {} ELSE batch[t]]
          /\ cache' = [cache EXCEPT ![p] = {}]
          /\ UNCHANGED <<status, stale, tries, produced, skipped>>
      BY <1>2 DEF Crash
    <2>4. QED
      BY <2>1, <2>2, <2>3 DEF TypeOK
  <1>3. ASSUME NEW r \in Row, HourPasses(r) PROVE TypeOK'
    <2>1. faults' \in 0 .. MaxFault
      BY <1>3, WorkerAssumption DEF HourPasses, Spend, TypeOK
    <2>2. QED
      BY <1>3, <2>1 DEF HourPasses, TypeOK
  <1>4. CASE UpdateFailedStatus
    <2>1. status' \in [Row -> Status]
      BY <1>4, SetStatusType DEF UpdateFailedStatus, TypeOK, Status
    <2>2. task' \in [Attempt -> Task]
      BY <1>4, ReleaseType DEF UpdateFailedStatus, TypeOK
    <2>3. QED
      BY <1>4, <2>1, <2>2 DEF UpdateFailedStatus, TypeOK
  <1>5. QED
    BY <1>1, <1>2, <1>3, <1>4

-----------------------------------------------------------------------------
(***************************************************************************)
(* Ownership of rows.                                                      *)
(***************************************************************************)
ClaimInv == TypeOK /\ LockProtectsClaim /\ ClaimExclusive

\* A task of tasks is that of a goroutine which still holds its row.
Holding(rec) == rec.stage \notin {"none", "ended"} /\ ~rec.lost

\* Nobody comes to hold a row, and no row that is still held changes.
LEMMA ExclusiveKept ==
  ASSUME ClaimExclusive,
         \A a \in Attempt :
            Holds(a)' => Holds(a) /\ status'[a[1]] = status[a[1]]
  PROVE  ClaimExclusive'
  BY DEF ClaimExclusive

\* No claim is begun, and no selected row changes before its claim ends.
LEMMA LockKept ==
  ASSUME LockProtectsClaim,
         \A t \in Thread : pc'[t] = "Selected" =>
            /\ pc[t] = "Selected" /\ batch'[t] = batch[t]
            /\ \A a \in batch[t] : /\ status'[a[1]] = status[a[1]]
                                   /\ tries'[a[1]] = tries[a[1]]
  PROVE  LockProtectsClaim'
  BY DEF LockProtectsClaim, Rows

\* The rows of a selected batch are locked.
LEMMA SelectedLocked ==
  ASSUME NEW t \in Thread, pc[t] = "Selected", NEW a \in batch[t]
  PROVE  a[1] \in Locked
  BY DEF Locked, Rows

(***************************************************************************)
(* A status update outside a transaction changes no locked row, and every  *)
(* attempt that holds its row afterwards held it before, with the same     *)
(* status.                                                                 *)
(***************************************************************************)
LEMMA UpdateEffect ==
  ASSUME TypeOK, NEW rows \in SUBSET Row, NEW s \in Status,
         NEW tasks \in [Attempt -> Task],
         UpdateCheckpointStatus(rows, s, tasks)
  PROVE  /\ \A r \in Locked : r \in Row => status'[r] = status[r]
         /\ \A r \in Row : status'[r] = status[r] \/ (r \in rows /\ status'[r] = s)
         /\ \A a \in Attempt :
              Holds(a)' => Holding(tasks[a]) /\ status'[a[1]] = status[a[1]]
         /\ \A a \in Attempt : /\ task'[a].stage = tasks[a].stage
                               /\ task'[a].chunk = tasks[a].chunk
                               /\ task'[a].fresh = tasks[a].fresh
  <1>1. CASE /\ rows \cap Locked = {}
             /\ status' = SetStatus(status, rows, s)
             /\ task' = Release(tasks, rows)
    <2>1. \A r \in Row : status'[r] = IF r \in rows THEN s ELSE status[r]
      BY <1>1, SetStatusType DEF TypeOK
    <2>2. \A a \in Attempt :
             task'[a] = IF a[1] \in rows /\ tasks[a].stage \notin {"none", "ended"}
                        THEN [tasks[a] EXCEPT !.lost = TRUE] ELSE tasks[a]
      BY <1>1 DEF Release
    <2>3. ASSUME NEW a \in Attempt
          PROVE  /\ task'[a].stage = tasks[a].stage
                 /\ task'[a].chunk = tasks[a].chunk
                 /\ task'[a].fresh = tasks[a].fresh
                 /\ task'[a].lost = IF a[1] \in rows /\ tasks[a].stage \notin {"none", "ended"}
                                   THEN TRUE ELSE tasks[a].lost
      BY <2>2 DEF Task
    <2>4. ASSUME NEW a \in Attempt, Holds(a)'
          PROVE  Holding(tasks[a]) /\ status'[a[1]] = status[a[1]]
      <3>1. task'[a].stage \notin {"none", "ended"} /\ ~task'[a].lost
        BY <2>4 DEF Holds, Live
      <3>2. a[1] \in Row /\ a[1] \notin rows
        BY <3>1, <2>3 DEF Attempt
      <3>3. QED BY <3>1, <3>2, <2>1, <2>3 DEF Holding
    <2>5. QED BY <1>1, <2>1, <2>3, <2>4
  <1>2. CASE task' = tasks /\ status' = status
    BY <1>2 DEF Holds, Live, Holding
  <1>3. QED BY <1>1, <1>2 DEF UpdateCheckpointStatus

\* Rows of a page are claimable and not locked.
LEMMA PageRows ==
  ASSUME NEW t \in Thread, SelectForUpdate(t), TypeOK
  PROVE  \E rows \in SUBSET Row :
           /\ \A r \in rows : status[r] \in {NOT_READY, FAIL} /\ r \notin Locked
           /\ batch' = [batch EXCEPT ![t] = {<<r, tries[r] + 1>> : r \in rows}]
  BY DEF SelectForUpdate, Pages, Claimable, TypeOK

\* The steps of a thread keep locks and ownership.
LEMMA ThreadStepClaim ==
  ASSUME ClaimInv, NEW t \in Thread, ThreadStep(t)
  PROVE  LockProtectsClaim' /\ ClaimExclusive'
  <1> USE DEF ClaimInv
  <1>r. Rows(batch[t]) \in SUBSET Row
    BY RowsType DEF TypeOK
  <1>b. \A a \in batch[t] : a[1] \in Rows(batch[t]) /\ a[1] \in Row /\ a \in Attempt
    BY DEF Rows, TypeOK, Attempt
  <1>1. CASE SelectForUpdate(t)
    <2>1. PICK rows \in SUBSET Row :
           /\ \A r \in rows : status[r] \in {NOT_READY, FAIL} /\ r \notin Locked
           /\ batch' = [batch EXCEPT ![t] = {<<r, tries[r] + 1>> : r \in rows}]
      BY <1>1, PageRows
    <2>2. /\ pc' = [pc EXCEPT ![t] = "Selected"]
          /\ UNCHANGED <<status, tries, task>>
      BY <1>1 DEF SelectForUpdate, Goto
    <2>3. /\ batch'[t] = {<<r, tries[r] + 1>> : r \in rows}
          /\ \A u \in Thread \ {t} : batch'[u] = batch[u] /\ pc'[u] = pc[u]
      BY <2>1, <2>2 DEF TypeOK
    <2>4. Rows(batch'[t]) = rows
      <3>1. ASSUME NEW r \in rows PROVE \E a \in batch'[t] : r = a[1]
        <4>1. <<r, tries[r] + 1>> \in batch'[t] /\ r = <<r, tries[r] + 1>>[1]
          BY <2>3
        <4>2. QED BY <4>1
      <3>2. \A a \in batch'[t] : a[1] \in rows
        BY <2>3
      <3>3. \A r : r \in Rows(batch'[t]) <=> \E a \in batch'[t] : r = a[1]
        BY DEF Rows
      <3>4. QED BY <3>1, <3>2, <3>3
    <2>5. ASSUME NEW u \in Thread \ {t}, pc[u] = "Selected"
          PROVE  Rows(batch[u]) \cap rows = {}
      BY <2>1, <2>5, SelectedLocked DEF Rows
    <2>6. ASSUME NEW u \in Thread, pc'[u] = "Selected"
          PROVE  /\ \A a \in batch'[u] : /\ status[a[1]] \in {NOT_READY, FAIL}
                                         /\ a[2] = tries[a[1]] + 1
                 /\ \A v \in Thread \ {u} :
                      pc'[v] = "Selected" => Rows(batch'[u]) \cap Rows(batch'[v]) = {}
      <3>1. CASE u = t
        <4>1. \A a \in batch'[t] : /\ status[a[1]] \in {NOT_READY, FAIL}
                                   /\ a[2] = tries[a[1]] + 1
          BY <2>1, <2>3
        <4>2. \A v \in Thread \ {t} : pc'[v] = "Selected" =>
                 Rows(batch'[t]) \cap Rows(batch'[v]) = {}
          BY <2>3, <2>4, <2>5
        <4>3. QED BY <3>1, <4>1, <4>2
      <3>2. CASE u # t
        BY <3>2, <2>6, <2>3, <2>4, <2>5 DEF LockProtectsClaim
      <3>3. QED BY <3>1, <3>2
    <2>7. LockProtectsClaim'
      BY <2>2, <2>6 DEF LockProtectsClaim, Rows
    <2>8. ClaimExclusive'
      BY <2>2, ExclusiveKept DEF Holds, Live
    <2>9. QED BY <2>7, <2>8
  <1>2. CASE FindNothing(t)
    BY <1>2 DEF FindNothing, vars, LockProtectsClaim, ClaimExclusive, Holds, Live, Rows
  <1>3. CASE CommitClaim(t)
    <2>1. /\ pc[t] = "Selected"
          /\ pc' = [pc EXCEPT ![t] = "Fetching"]
          /\ batch' = batch
          /\ tries' = [r \in Row |-> IF r \in Rows(batch[t]) THEN tries[r] + 1 ELSE tries[r]]
          /\ status' = SetStatus(status, Rows(batch[t]), PROCESSING)
          /\ task' = [a \in Attempt |-> IF a \in batch[t] THEN Started(ProcessOf[t])
                                        ELSE task[a]]
      BY <1>3 DEF CommitClaim, ClaimRows, Goto
    <2>2. \A r \in Row : status'[r] = IF r \in Rows(batch[t]) THEN PROCESSING ELSE status[r]
      BY <2>1, SetStatusType DEF TypeOK, Status
    <2>3. ASSUME NEW u \in Thread, pc'[u] = "Selected"
          PROVE  /\ pc[u] = "Selected" /\ batch'[u] = batch[u]
                 /\ \A a \in batch[u] : /\ status'[a[1]] = status[a[1]]
                                        /\ tries'[a[1]] = tries[a[1]]
      <3>1. u # t /\ pc[u] = "Selected"
        BY <2>1, <2>3 DEF TypeOK
      <3>2. Rows(batch[u]) \cap Rows(batch[t]) = {}
        BY <3>1, <2>1 DEF LockProtectsClaim
      <3>3. \A a \in batch[u] : a[1] \in Row /\ a[1] \in Rows(batch[u])
        BY DEF Rows, TypeOK, Attempt
      <3>4. QED BY <2>1, <2>2, <3>1, <3>2, <3>3
    <2>4. LockProtectsClaim'
      BY <2>3, LockKept
    <2>5. ASSUME NEW a \in Attempt, Holds(a)', a \notin batch[t]
          PROVE  Holds(a) /\ a[1] \notin Rows(batch[t])
      <3>1. Holds(a)
        BY <2>1, <2>5 DEF Holds, Live
      <3>2. status[a[1]] = PROCESSING
        BY <3>1 DEF ClaimExclusive
      <3>3. \A b \in batch[t] : status[b[1]] # PROCESSING
        BY <2>1 DEF LockProtectsClaim, NOT_READY, FAIL, PROCESSING
      <3>4. QED BY <3>1, <3>2, <3>3 DEF Rows
    <2>6. \A a, b \in batch[t] : a[1] = b[1] => a = b
      BY <2>1, <1>b DEF LockProtectsClaim, Attempt
    <2>7. ASSUME NEW a \in Attempt, Holds(a)'
          PROVE  status'[a[1]] = PROCESSING
      BY <2>7, <2>2, <2>5, <1>b DEF ClaimExclusive, Attempt
    <2>8. ASSUME NEW a \in Attempt, NEW b \in Attempt, Holds(a)', Holds(b)', a[1] = b[1]
          PROVE  a = b
      <3>1. CASE a \in batch[t] /\ b \in batch[t]
        BY <3>1, <2>6, <2>8
      <3>2. CASE a \in batch[t] /\ b \notin batch[t]
        BY <3>2, <2>5, <2>8, <1>b
      <3>3. CASE a \notin batch[t] /\ b \in batch[t]
        BY <3>3, <2>5, <2>8, <1>b
      <3>4. CASE a \notin batch[t] /\ b \notin batch[t]
        BY <3>4, <2>5, <2>8 DEF ClaimExclusive
      <3>5. QED BY <3>1, <3>2, <3>3, <3>4
    <2>9. ClaimExclusive'
      BY <2>7, <2>8 DEF ClaimExclusive
    <2>10. QED BY <2>4, <2>9
  <1>4. CASE AbortClaim(t)
    <2>1. /\ pc[t] = "Selected"
          /\ pc' = [pc EXCEPT ![t] = "Aborted"]
          /\ UNCHANGED <<batch, tries, task>>
          /\ \A r \in Row : r \notin Rows(batch[t]) => status'[r] = status[r]
      BY <1>4, SetStatusType DEF AbortClaim, ClaimRows, Goto, TypeOK, Status
    <2>2. ASSUME NEW u \in Thread, pc'[u] = "Selected"
          PROVE  /\ pc[u] = "Selected" /\ batch'[u] = batch[u]
                 /\ \A a \in batch[u] : /\ status'[a[1]] = status[a[1]]
                                        /\ tries'[a[1]] = tries[a[1]]
      <3>1. u # t /\ pc[u] = "Selected"
        BY <2>1, <2>2 DEF TypeOK
      <3>2. Rows(batch[u]) \cap Rows(batch[t]) = {}
        BY <3>1, <2>1 DEF LockProtectsClaim
      <3>3. \A a \in batch[u] : a[1] \in Row /\ a[1] \in Rows(batch[u])
        BY DEF Rows, TypeOK, Attempt
      <3>4. QED BY <2>1, <3>1, <3>2, <3>3
    <2>3. LockProtectsClaim'
      BY <2>2, LockKept
    <2>4. ASSUME NEW a \in Attempt, Holds(a)'
          PROVE  Holds(a) /\ status'[a[1]] = status[a[1]]
      <3>1. Holds(a)
        BY <2>1, <2>4 DEF Holds, Live
      <3>2. \A b \in batch[t] : status[b[1]] # PROCESSING
        BY <2>1 DEF LockProtectsClaim, NOT_READY, FAIL, PROCESSING
      <3>3. a[1] \in Row /\ a[1] \notin Rows(batch[t])
        BY <3>1, <3>2 DEF ClaimExclusive, Attempt, Rows
      <3>4. QED BY <3>1, <3>3, <2>1
    <2>5. ClaimExclusive'
      BY <2>4, ExclusiveKept
    <2>6. QED BY <2>3, <2>5
  <1>5. CASE FailAborted(t) \/ FailBatch(t) \/ RecoverPanic(t)
    <2>1. /\ UpdateCheckpointStatus(Rows(batch[t]), FAIL, task)
          /\ pc' = [pc EXCEPT ![t] = "Idle"]
          /\ batch' = [batch EXCEPT ![t] = {}]
          /\ tries' = tries
      BY <1>5 DEF FailAborted, FailBatch, RecoverPanic, Return, Goto
    <2>2. /\ \A r \in Locked : r \in Row => status'[r] = status[r]
          /\ \A a \in Attempt :
              Holds(a)' => Holding(task[a]) /\ status'[a[1]] = status[a[1]]
      <3>1. FAIL \in Status /\ task \in [Attempt -> Task]
        BY DEF Status, TypeOK
      <3>2. QED BY <3>1, <2>1, <1>r, UpdateEffect
    <2>3. LockProtectsClaim'
      <3>1. ASSUME NEW u \in Thread, pc'[u] = "Selected"
            PROVE  /\ pc[u] = "Selected" /\ batch'[u] = batch[u]
                   /\ \A a \in batch[u] : a[1] \in Locked /\ a[1] \in Row
        BY <3>1, <2>1, SelectedLocked DEF TypeOK, Attempt
      <3>2. QED BY <3>1, <2>1, <2>2, LockKept
    <2>4. ClaimExclusive'
      BY <2>2, ExclusiveKept DEF Holding, Holds, Live
    <2>5. QED BY <2>3, <2>4
  <1>6. CASE StartCheckpoints(t)
    <2>1. /\ UNCHANGED <<status, batch, tries>>
          /\ \A u \in Thread : pc'[u] = "Selected" => pc[u] = "Selected"
      BY <1>6 DEF StartCheckpoints, Goto, TypeOK
    <2>2. ASSUME NEW a \in Attempt, Holds(a)' PROVE Holds(a)
      <3>1. PICK started, rejected \in SUBSET Fetched(t) :
               task' = [b \in Attempt |->
                     IF b \in started THEN [task[b] EXCEPT !.stage = "running"]
                     ELSE IF b \in rejected THEN [task[b] EXCEPT !.stage = "invalid"]
                     ELSE IF b \in Fetched(t) THEN Idle("ended")
                     ELSE task[b]]
        BY <1>6 DEF StartCheckpoints
      <3>2. task[a] \in Task
        BY DEF TypeOK
      <3>3. CASE a \in Fetched(t)
        <4>1. task[a].stage = "fetched"
          BY <3>3 DEF Fetched
        <4>2. task'[a].stage # "ended" => task'[a].lost = task[a].lost
          BY <3>1, <3>2 DEF Task, Idle
        <4>3. QED BY <4>1, <4>2, <2>2 DEF Holds, Live
      <3>4. CASE a \notin Fetched(t)
        BY <3>4, <3>1, <2>2 DEF Holds, Live
      <3>5. QED BY <3>3, <3>4
    <2>3. QED
      BY <2>1, <2>2, LockKept, ExclusiveKept
  <1>7. CASE FinishBatch(t)
    <2>1. /\ UNCHANGED <<status, tries, task>>
          /\ batch' = [batch EXCEPT ![t] = {}]
          /\ pc' = [pc EXCEPT ![t] = "Idle"]
      BY <1>7 DEF FinishBatch, Return, Goto
    <2>2. \A u \in Thread : pc'[u] = "Selected" => pc[u] = "Selected" /\ batch'[u] = batch[u]
      BY <2>1 DEF TypeOK
    <2>3. QED
      BY <2>1, <2>2, LockKept, ExclusiveKept DEF Holds, Live
  <1>8. QED
    BY <1>1, <1>2, <1>3, <1>4, <1>5, <1>6, <1>7 DEF ThreadStep

\* The steps of a goroutine keep locks and ownership.
LEMMA TaskStepClaim ==
  ASSUME ClaimInv, NEW a \in Attempt, TaskStep(a)
  PROVE  LockProtectsClaim' /\ ClaimExclusive'
  <1> USE DEF ClaimInv
  <1>r. a[1] \in Row /\ {a[1]} \in SUBSET Row /\ task[a] \in Task
    BY DEF Attempt, TypeOK
  <1>u. ASSUME NEW s \in Status, UpdateCheckpointStatus({a[1]}, s, End({a})),
               UNCHANGED <<pc, batch, tries>>
        PROVE  LockProtectsClaim' /\ ClaimExclusive'
    <2>1. End({a}) \in [Attempt -> Task]
      BY EndType
    <2>2. /\ \A r \in Locked : r \in Row => status'[r] = status[r]
          /\ \A b \in Attempt :
              Holds(b)' => Holding(End({a})[b]) /\ status'[b[1]] = status[b[1]]
      BY <1>u, <1>r, <2>1, UpdateEffect
    <2>3. \A b \in Attempt : Holding(End({a})[b]) => Holds(b)
      BY DEF End, Idle, Holding, Holds, Live
    <2>4. ASSUME NEW u \in Thread, pc'[u] = "Selected"
          PROVE  /\ pc[u] = "Selected" /\ batch'[u] = batch[u]
                 /\ \A b \in batch[u] : /\ status'[b[1]] = status[b[1]]
                                        /\ tries'[b[1]] = tries[b[1]]
      <3>1. pc[u] = "Selected"
        BY <1>u, <2>4
      <3>2. \A b \in batch[u] : b[1] \in Locked /\ b[1] \in Row
        BY <3>1, SelectedLocked DEF TypeOK, Attempt
      <3>3. QED BY <1>u, <2>2, <3>1, <3>2
    <2>5. LockProtectsClaim'
      BY <2>4, LockKept
    <2>6. ClaimExclusive'
      BY <2>2, <2>3, ExclusiveKept
    <2>7. QED BY <2>5, <2>6
  <1>t. ASSUME UNCHANGED <<status, pc, batch, tries>>,
               \A b \in Attempt : b # a => task'[b] = task[b],
               task'[a].lost = task[a].lost, Live(a)
        PROVE  LockProtectsClaim' /\ ClaimExclusive'
    <2>1. LockProtectsClaim'
      BY <1>t, LockKept
    <2>2. \A b \in Attempt : Holds(b)' => Holds(b)
      BY <1>t DEF Holds, Live
    <2>3. ClaimExclusive'
      BY <1>t, <2>2, ExclusiveKept
    <2>4. QED BY <2>1, <2>3
  <1>1. CASE Fail(a) \/ RejectCheckpoint(a) \/ MarkDone(a)
    BY <1>1, <1>u DEF Fail, RejectCheckpoint, MarkDone, Status
  <1>2. CASE FetchCheckpoint(a) \/ FetchTxs(a) \/ BuildPayload(a) \/ SendChunk(a)
    <2>1. Live(a)
      BY <1>2 DEF FetchCheckpoint, FetchTxs, BuildPayload, SendChunk, Live
    <2>2. UNCHANGED <<status, pc, batch, tries>>
      BY <1>2 DEF FetchCheckpoint, FetchTxs, BuildPayload, SendChunk
    <2>3. task \in [Attempt -> Task]
      BY DEF TypeOK
    <2>4. /\ \A b \in Attempt : b # a => task'[b] = task[b]
          /\ task'[a].lost = task[a].lost
      <3>1. CASE FetchCheckpoint(a) \/ BuildPayload(a)
        BY <3>1, <2>3 DEF FetchCheckpoint, BuildPayload, Task
      <3>2. CASE FetchTxs(a)
        <4> DEFINE hit == Key(a) \notin cache[task[a].proc]
        <4>1. \/ task' = [task EXCEPT ![a].stage = "looked", ![a].fresh = hit]
              \/ task' = [task EXCEPT ![a].stage = "failing"]
          BY <3>2 DEF FetchTxs
        <4> HIDE DEF hit
        <4>2. QED BY <4>1, <2>3 DEF Task
      <3>3. CASE SendChunk(a)
        BY <3>3, <2>3 DEF SendChunk, Task
      <3>4. QED BY <1>2, <3>1, <3>2, <3>3
    <2>5. QED BY <2>1, <2>2, <2>4, <1>t
  <1>3. QED
    BY <1>1, <1>2 DEF TaskStep

\* The steps of the environment keep locks and ownership.
LEMMA EnvironmentStepClaim ==
  ASSUME ClaimInv,
         \/ \E p \in Process : Evict(p) \/ Crash(p)
         \/ \E r \in Row : HourPasses(r)
         \/ UpdateFailedStatus
  PROVE  LockProtectsClaim' /\ ClaimExclusive'
  <1> USE DEF ClaimInv
  <1>1. CASE \/ \E p \in Process : Evict(p)
             \/ \E r \in Row : HourPasses(r)
    <2>1. UNCHANGED <<status, pc, batch, tries, task>>
      BY <1>1 DEF Evict, HourPasses
    <2>2. \A b \in Attempt : Holds(b)' => Holds(b)
      BY <2>1 DEF Holds, Live
    <2>3. QED BY <2>1, <2>2, LockKept, ExclusiveKept
  <1>2. ASSUME NEW p \in Process, Crash(p)
        PROVE  LockProtectsClaim' /\ ClaimExclusive'
    <2>1. /\ pc' = [t \in Thread |-> IF ProcessOf[t] = p THEN "Idle" ELSE pc[t]]
          /\ batch' = [t \in Thread |-> IF ProcessOf[t] = p THEN {} ELSE batch[t]]
          /\ task' = [b \in Attempt |-> IF Live(b) /\ task[b].proc = p THEN Idle("ended")
                                        ELSE task[b]]
          /\ UNCHANGED <<status, tries>>
      BY <1>2 DEF Crash
    <2>2. \A t \in Thread : pc'[t] = "Selected" => pc[t] = "Selected" /\ batch'[t] = batch[t]
      BY <2>1
    <2>3. \A b \in Attempt : Holds(b)' => Holds(b)
      BY <2>1 DEF Holds, Live, Idle
    <2>4. QED BY <2>1, <2>2, <2>3, LockKept, ExclusiveKept
  <1>3. CASE UpdateFailedStatus
    <2>1. /\ status' = SetStatus(status, Abandoned(status, stale), FAIL)
          /\ task' = Release(task, Abandoned(status, stale))
          /\ UNCHANGED <<pc, batch, tries>>
      BY <1>3 DEF UpdateFailedStatus
    <2>2. \A r \in Row : status'[r] = IF r \in Abandoned(status, stale) THEN FAIL
                                     ELSE status[r]
      BY <2>1, SetStatusType DEF TypeOK, Status
    <2>3. \A r \in Abandoned(status, stale) : status[r] = PROCESSING
      BY DEF Abandoned
    <2>4. LockProtectsClaim'
      <3>1. \A t \in Thread : pc[t] = "Selected" =>
               \A a \in batch[t] : a[1] \in Row /\ status'[a[1]] = status[a[1]]
        BY <2>2, <2>3 DEF LockProtectsClaim, TypeOK, Attempt, NOT_READY, FAIL, PROCESSING
      <3>2. QED BY <2>1, <3>1, LockKept
    <2>5. ASSUME NEW a \in Attempt, Holds(a)'
          PROVE  Holds(a) /\ status'[a[1]] = status[a[1]]
      <3>1. a[1] \in Row /\ task[a] \in Task
        BY DEF Attempt, TypeOK
      <3>2. a[1] \notin Abandoned(status, stale) /\ Holds(a)
        BY <2>1, <2>5, <3>1 DEF Release, Holds, Live, Task
      <3>3. QED BY <3>1, <3>2, <2>2
    <2>6. ClaimExclusive'
      BY <2>5, ExclusiveKept
    <2>7. QED BY <2>4, <2>6
  <1>4. QED BY <1>1, <1>2, <1>3

\* ClaimInv holds in the initial states.
LEMMA ClaimInvInit == Init => ClaimInv
  <1> SUFFICES ASSUME Init PROVE ClaimInv
    OBVIOUS
  <1>1. TypeOK
    BY TaskRecords, WorkerAssumption DEF Init, TypeOK, Status
  <1>2. LockProtectsClaim
    BY DEF Init, LockProtectsClaim
  <1>3. ClaimExclusive
    BY DEF Init, ClaimExclusive, Holds, Live, Idle
  <1>4. QED BY <1>1, <1>2, <1>3 DEF ClaimInv

\* ClaimInv is inductive.
LEMMA ClaimInvStep == ClaimInv /\ [Next]_vars => ClaimInv'
  <1> SUFFICES ASSUME ClaimInv, [Next]_vars PROVE ClaimInv'
    OBVIOUS
  <1> USE DEF ClaimInv
  <1>1. ASSUME NEW t \in Thread, ThreadStep(t) PROVE ClaimInv'
    BY <1>1, ThreadStepType, ThreadStepClaim
  <1>2. ASSUME NEW a \in Attempt, TaskStep(a) PROVE ClaimInv'
    BY <1>2, TaskStepType, TaskStepClaim
  <1>3. ASSUME \/ \E p \in Process : Evict(p) \/ Crash(p)
               \/ \E r \in Row : HourPasses(r)
               \/ UpdateFailedStatus
        PROVE  ClaimInv'
    BY <1>3, EnvironmentStepType, EnvironmentStepClaim
  <1>4. CASE UNCHANGED vars
    <2>1. TypeOK'
      BY <1>4 DEF vars, TypeOK
    <2>2. UNCHANGED <<status, pc, batch, tries, task>>
      BY <1>4 DEF vars
    <2>3. \A b \in Attempt : Holds(b)' => Holds(b)
      BY <2>2 DEF Holds, Live
    <2>4. QED BY <2>1, <2>2, <2>3, LockKept, ExclusiveKept
  <1>5. QED BY <1>1, <1>2, <1>3, <1>4 DEF Next

(***************************************************************************)
(* The model is well typed: in particular a thread holds a batch exactly   *)
(* while fetchTxs runs, on every path out of it, the recover of a panic    *)
(* included, and a row is never claimed more often than the bound says.    *)
(***************************************************************************)
THEOREM TypeCorrect == Spec => []TypeOK
  <1>1. ClaimInv => TypeOK
    BY DEF ClaimInv
  <1>2. QED BY <1>1, ClaimInvInit, ClaimInvStep, PTL DEF Spec

(***************************************************************************)
(* The row locks of a claim transaction keep its page still until commit.  *)
(***************************************************************************)
THEOREM LockSafe == Spec => []LockProtectsClaim
  <1>1. ClaimInv => LockProtectsClaim
    BY DEF ClaimInv
  <1>2. QED BY <1>1, ClaimInvInit, ClaimInvStep, PTL DEF Spec

(***************************************************************************)
(* At most one attempt owns a row, and an owned row is PROCESSING, for any *)
(* number of threads, processes, rows and faults.                          *)
(***************************************************************************)
THEOREM ClaimSafe == Spec => []ClaimExclusive
  <1>1. ClaimInv => ClaimExclusive
    BY DEF ClaimInv
  <1>2. QED BY <1>1, ClaimInvInit, ClaimInvStep, PTL DEF Spec

-----------------------------------------------------------------------------
(***************************************************************************)
(* The number of claims.  A row can be claimed once more for each of the   *)
(* following: it can be claimed as it is, or once the reaper has come by;  *)
(* a goroutine is about to report FAIL for it; a thread is about to report *)
(* FAIL for its batch.  Every fault adds at most two of these to a row,    *)
(* and every claim uses one up.                                            *)
(***************************************************************************)
\* Some attempt holds the row.
Held(r) == \E a \in Attempt : a[1] = r /\ Holds(a)

\* 1 if a claim of the row takes no more than time.
Available(r) ==
  IF status[r] = DONE \/ (status[r] = PROCESSING /\ r \notin stale /\ Held(r)) THEN 0 ELSE 1

\* The attempts at the row that are about to report FAIL.
Failing(r) == {a \in Attempt : a[1] = r /\ task[a].stage \in {"failing", "invalid"}}

\* The thread is to report FAIL for its batch, or will if a was the last to be
\* fetched: a cannot be fetched any more.
MayFail(t, a) ==
  \/ pc[t] \in {"Aborted", "Panicked"}
  \/ pc[t] = "Fetching" /\ task[a].stage \in {"failing", "ended"}

\* The threads that may report FAIL for a batch with the row.
Releasing(r) == {t \in Thread : \E a \in batch[t] : a[1] = r /\ MayFail(t, a)}

RetriesCounted ==
  \A r \in Row :
     tries[r] + Available(r) + Cardinality(Failing(r)) + Cardinality(Releasing(r))
       <= 1 + 2 * faults

\* What becomes of an attempt while its batch is fetched.
InFetch == {"fetching", "fetched", "failing", "ended"}

\* A batch has each row once.  While it is fetched its attempts are its thread's
\* own, of its process, committed, and at most fetched.
BatchInv ==
  \A t \in Thread :
     /\ \A a, b \in batch[t] : a[1] = b[1] => a = b
     /\ pc[t] = "Fetching" =>
          /\ \A a \in batch[t] :
                /\ a[2] <= tries[a[1]]
                /\ task[a].stage \in InFetch
                /\ task[a].stage = "ended" \/ task[a].proc = ProcessOf[t]
          /\ \A u \in Thread \ {t} : pc[u] = "Fetching" => batch[t] \cap batch[u] = {}

\* No thread begins to fetch, and the attempts of those that still do stay theirs.
LEMMA BatchKept ==
  ASSUME TypeOK, TypeOK', BatchInv, \A r \in Row : tries'[r] = tries[r],
         \A t \in Thread : batch'[t] = batch[t] \/ batch'[t] = {},
         \A t \in Thread : pc'[t] = "Fetching" => pc[t] = "Fetching" /\ batch'[t] = batch[t],
         \A t \in Thread : pc'[t] = "Fetching" => \A a \in batch[t] :
            /\ task'[a].stage \in InFetch
            /\ \/ task'[a].stage = "ended"
               \/ task[a].stage # "ended" /\ task'[a].proc = task[a].proc
  PROVE  BatchInv'
  <1>1. ASSUME NEW t \in Thread, NEW a \in batch'[t], NEW b \in batch'[t], a[1] = b[1]
        PROVE  a = b
    <2>1. batch'[t] = batch[t]
      BY <1>1
    <2>2. QED BY <1>1, <2>1 DEF BatchInv
  <1>2. ASSUME NEW t \in Thread, pc'[t] = "Fetching", NEW a \in batch'[t]
        PROVE  /\ a[2] <= tries'[a[1]]
               /\ task'[a].stage \in InFetch
               /\ task'[a].stage = "ended" \/ task'[a].proc = ProcessOf[t]
    <2>1. a \in batch[t] /\ pc[t] = "Fetching" /\ a[1] \in Row
      BY <1>2 DEF TypeOK, Attempt
    <2>2. QED BY <1>2, <2>1 DEF BatchInv
  <1>3. ASSUME NEW t \in Thread, NEW u \in Thread \ {t}, pc'[t] = "Fetching", pc'[u] = "Fetching"
        PROVE  batch'[t] \cap batch'[u] = {}
    BY <1>3 DEF BatchInv
  <1>4. QED BY <1>1, <1>2, <1>3 DEF BatchInv

\* What a status update does to goroutines and rows.
LEMMA UpdateOutcome ==
  ASSUME TypeOK, NEW rows \in SUBSET Row, NEW s \in Status,
         NEW tasks \in [Attempt -> Task],
         UpdateCheckpointStatus(rows, s, tasks)
  PROVE  /\ \A a \in Attempt : /\ task'[a].stage = tasks[a].stage
                               /\ task'[a].proc = tasks[a].proc
                               /\ a[1] \notin rows => task'[a] = tasks[a]
         /\ \A r \in Row \ rows : status'[r] = status[r] /\ (r \in stale' <=> r \in stale)
         /\ \/ faults' = faults /\ \A r \in rows : status'[r] = s
            \/ faults' = faults + 1 /\ task' = tasks /\ status' = status /\ stale' = stale
  <1>1. CASE /\ status' = SetStatus(status, rows, s)
             /\ stale' = stale \ rows
             /\ task' = Release(tasks, rows)
             /\ faults' = faults
    <2>1. \A r \in Row : status'[r] = IF r \in rows THEN s ELSE status[r]
      BY <1>1, SetStatusType DEF TypeOK
    <2>2. ASSUME NEW a \in Attempt
          PROVE  /\ task'[a].stage = tasks[a].stage
                 /\ task'[a].proc = tasks[a].proc
                 /\ a[1] \notin rows => task'[a] = tasks[a]
      <3>1. task'[a] = IF a[1] \in rows /\ tasks[a].stage \notin {"none", "ended"}
                       THEN [tasks[a] EXCEPT !.lost = TRUE] ELSE tasks[a]
        BY <1>1 DEF Release
      <3>2. tasks[a] \in Task
        OBVIOUS
      <3>3. QED BY <3>1, <3>2 DEF Task
    <2>3. QED BY <1>1, <2>1, <2>2
  <1>2. CASE task' = tasks /\ Spend(1) /\ UNCHANGED <<status, stale>>
    BY <1>2 DEF Spend
  <1>3. QED BY <1>1, <1>2 DEF UpdateCheckpointStatus

\* End only ends the attempts it is given.
LEMMA EndOutcome ==
  ASSUME TypeOK, NEW a \in Attempt
  PROVE  /\ End({a}) \in [Attempt -> Task] /\ End({a})[a].stage = "ended"
         /\ \A b \in Attempt : b # a => End({a})[b] = task[b]
  BY EndType DEF End, Idle

\* A thread that does not fetch has no attempt that is in another phase.
LEMMA OutsideFetch ==
  ASSUME BatchInv, NEW a, task[a].stage \notin InFetch, NEW t \in Thread, pc[t] = "Fetching"
  PROVE  a \notin batch[t]
  BY DEF BatchInv

\* A claim takes attempts that no fetching thread has.
LEMMA ClaimedFresh ==
  ASSUME ClaimInv, BatchInv, NEW t \in Thread, pc[t] = "Selected",
         NEW u \in Thread, pc[u] = "Fetching"
  PROVE  batch[t] \cap batch[u] = {}
  <1>1. ASSUME NEW a \in batch[t], a \in batch[u] PROVE FALSE
    <2>1. a[2] = tries[a[1]] + 1 /\ a[2] <= tries[a[1]]
      BY <1>1 DEF ClaimInv, LockProtectsClaim, BatchInv
    <2>2. a[1] \in Row /\ \A r \in Row : tries[r] \in Nat
      BY <1>1, WorkerAssumption DEF ClaimInv, TypeOK, Attempt
    <2>3. QED BY <2>1, <2>2
  <1>2. QED BY <1>1

\* The steps of a thread keep BatchInv.
LEMMA BatchThreadStep ==
  ASSUME ClaimInv, ClaimInv', BatchInv, NEW t \in Thread, ThreadStep(t)
  PROVE  BatchInv'
  <1> USE DEF ClaimInv
  <1>r. Rows(batch[t]) \in SUBSET Row
    BY RowsType DEF TypeOK
  <1>s. FAIL \in Status /\ task \in [Attempt -> Task]
    BY DEF Status, TypeOK
  <1>i. \A u \in Thread : pc[u] = "Fetching" => \A a \in batch[u] : a \in Attempt /\ task[a].stage \in InFetch
    BY DEF BatchInv, TypeOK
  <1>1. CASE SelectForUpdate(t)
    <2>1. PICK rows \in SUBSET Row :
            batch' = [batch EXCEPT ![t] = {<<r, tries[r] + 1>> : r \in rows}]
      BY <1>1, PageRows
    <2>2. /\ pc' = [pc EXCEPT ![t] = "Selected"]
          /\ UNCHANGED <<tries, task>>
      BY <1>1 DEF SelectForUpdate, Goto
    <2>3. /\ batch'[t] = {<<r, tries[r] + 1>> : r \in rows} /\ pc'[t] = "Selected"
          /\ \A u \in Thread \ {t} : batch'[u] = batch[u] /\ pc'[u] = pc[u]
      BY <2>1, <2>2 DEF TypeOK
    <2>4. \A a, b \in batch'[t] : a[1] = b[1] => a = b
      BY <2>3
    <2>5. QED BY <2>2, <2>3, <2>4 DEF BatchInv
  <1>2. CASE FindNothing(t)
    BY <1>2 DEF FindNothing, vars, BatchInv
  <1>3. CASE CommitClaim(t)
    <2>1. /\ pc' = [pc EXCEPT ![t] = "Fetching"] /\ pc[t] = "Selected" /\ batch' = batch
          /\ task' = [a \in Attempt |-> IF a \in batch[t] THEN Started(ProcessOf[t]) ELSE task[a]]
          /\ tries' = [r \in Row |-> IF r \in Rows(batch[t]) THEN tries[r] + 1 ELSE tries[r]]
      BY <1>3 DEF CommitClaim, Goto
    <2>2. pc'[t] = "Fetching" /\ \A u \in Thread \ {t} : pc'[u] = pc[u]
      BY <2>1 DEF TypeOK
    <2>3. \A r \in Row : tries[r] \in Nat /\ tries[r] <= tries'[r]
      BY <2>1, WorkerAssumption DEF TypeOK
    <2>4. ASSUME NEW a \in batch[t]
          PROVE  /\ a[2] <= tries'[a[1]]
                 /\ task'[a].stage \in InFetch /\ task'[a].proc = ProcessOf[t]
      <3>1. a \in Attempt /\ a[1] \in Row /\ a[1] \in Rows(batch[t])
        BY DEF TypeOK, Attempt, Rows
      <3>2. a[2] = tries[a[1]] + 1
        BY <2>1 DEF LockProtectsClaim
      <3>3. task'[a] = Started(ProcessOf[t])
        BY <2>1, <3>1
      <3>4. tries'[a[1]] = tries[a[1]] + 1
        BY <2>1, <3>1
      <3>5. QED BY <2>3, <3>1, <3>2, <3>3, <3>4 DEF Started, InFetch
    <2>5. ASSUME NEW u \in Thread \ {t}, pc[u] = "Fetching"
          PROVE  /\ batch[t] \cap batch[u] = {}
                 /\ \A a \in batch[u] : task'[a] = task[a] /\ a[2] <= tries'[a[1]]
      <3>1. batch[t] \cap batch[u] = {}
        BY <2>1, <2>5, ClaimedFresh
      <3>2. ASSUME NEW a \in batch[u] PROVE task'[a] = task[a] /\ a[2] <= tries'[a[1]]
        <4>1. a \in Attempt /\ a[1] \in Row /\ a[2] \in Nat
          BY WorkerAssumption DEF TypeOK, Attempt
        <4>2. a[2] <= tries[a[1]]
          BY <2>5 DEF BatchInv
        <4>3. \A r \in Row : tries[r] \in Nat /\ tries'[r] \in Nat
          BY WorkerAssumption DEF TypeOK
        <4>4. a[2] <= tries'[a[1]]
          BY <2>3, <4>1, <4>2, <4>3
        <4>5. a \notin batch[t]
          BY <3>1
        <4>6. QED BY <2>1, <4>1, <4>4, <4>5
      <3>3. QED BY <3>1, <3>2
    <2>6. ASSUME NEW u \in Thread
          PROVE  /\ \A a, b \in batch'[u] : a[1] = b[1] => a = b
                 /\ pc'[u] = "Fetching" =>
                      /\ \A a \in batch'[u] :
                            /\ a[2] <= tries'[a[1]]
                            /\ task'[a].stage \in InFetch
                            /\ task'[a].stage = "ended" \/ task'[a].proc = ProcessOf[u]
                      /\ \A v \in Thread \ {u} : pc'[v] = "Fetching" => batch'[u] \cap batch'[v] = {}
      <3>1. CASE u = t
        <4>1. \A v \in Thread \ {t} : pc'[v] = "Fetching" => batch[t] \cap batch[v] = {}
          BY <2>2, <2>5
        <4>2. \A a, b \in batch'[t] : a[1] = b[1] => a = b
          BY <2>1 DEF BatchInv
        <4>3. QED BY <2>1, <2>4, <3>1, <4>1, <4>2
      <3>2. CASE u # t
        <4>1. \A v \in Thread \ {u} : pc'[v] = "Fetching" /\ pc[u] = "Fetching" => batch[u] \cap batch[v] = {}
          BY <2>1, <2>2, <2>5, <3>2 DEF BatchInv
        <4>2. QED BY <2>1, <2>2, <2>5, <3>2, <4>1 DEF BatchInv
      <3>3. QED BY <3>1, <3>2
    <2>7. QED BY <2>6 DEF BatchInv
  <1>4. CASE AbortClaim(t)
    <2>1. pc' = [pc EXCEPT ![t] = "Aborted"] /\ UNCHANGED <<batch, tries, task>>
      BY <1>4 DEF AbortClaim, Goto
    <2>2. QED BY <2>1 DEF BatchInv, TypeOK
  <1>5. CASE FailAborted(t) \/ FailBatch(t) \/ RecoverPanic(t)
    <2>1. /\ UpdateCheckpointStatus(Rows(batch[t]), FAIL, task)
          /\ pc' = [pc EXCEPT ![t] = "Idle"] /\ batch' = [batch EXCEPT ![t] = {}]
          /\ UNCHANGED tries
      BY <1>5 DEF FailAborted, FailBatch, RecoverPanic, Return, Goto
    <2>2. \A a \in Attempt : task'[a].stage = task[a].stage /\ task'[a].proc = task[a].proc
      BY <1>r, <1>s, <2>1, UpdateOutcome
    <2>3. /\ pc'[t] = "Idle" /\ batch'[t] = {}
          /\ \A u \in Thread \ {t} : pc'[u] = pc[u] /\ batch'[u] = batch[u]
      BY <2>1 DEF TypeOK
    <2>4. QED BY <1>i, <2>1, <2>2, <2>3, BatchKept
  <1>6. CASE StartCheckpoints(t)
    <2>1. /\ \E label \in {"Panicked", "Waiting"} : pc' = [pc EXCEPT ![t] = label]
          /\ pc[t] = "Fetching" /\ UNCHANGED <<batch, tries>>
          /\ \A a \in Attempt : a \notin Fetched(t) => task'[a] = task[a]
      BY <1>6 DEF StartCheckpoints, AllFetched, Goto
    <2>2. pc'[t] # "Fetching" /\ \A u \in Thread \ {t} : pc'[u] = pc[u]
      BY <2>1 DEF TypeOK
    <2>3. ASSUME NEW u \in Thread, pc'[u] = "Fetching", NEW a \in batch[u]
          PROVE  task'[a] = task[a]
      <3>1. u # t /\ pc[u] = "Fetching"
        BY <2>2, <2>3
      <3>2. a \notin batch[t]
        BY <2>1, <2>3, <3>1 DEF BatchInv
      <3>3. QED BY <1>i, <2>1, <2>3, <3>1, <3>2 DEF Fetched
    <2>4. QED BY <1>i, <2>1, <2>2, <2>3, BatchKept
  <1>7. CASE FinishBatch(t)
    <2>1. /\ pc' = [pc EXCEPT ![t] = "Idle"] /\ batch' = [batch EXCEPT ![t] = {}]
          /\ UNCHANGED <<tries, task>>
      BY <1>7 DEF FinishBatch, Return, Goto
    <2>2. /\ pc'[t] = "Idle" /\ batch'[t] = {}
          /\ \A u \in Thread \ {t} : pc'[u] = pc[u] /\ batch'[u] = batch[u]
      BY <2>1 DEF TypeOK
    <2>3. QED BY <1>i, <2>1, <2>2, BatchKept
  <1>8. QED BY <1>1, <1>2, <1>3, <1>4, <1>5, <1>6, <1>7 DEF ThreadStep

\* So do those of an attempt's goroutine.
LEMMA BatchTaskStep ==
  ASSUME ClaimInv, ClaimInv', BatchInv, NEW a \in Attempt, TaskStep(a)
  PROVE  BatchInv'
  <1> USE DEF ClaimInv
  <1>1. UNCHANGED <<pc, batch, tries>>
    BY DEF TaskStep, FetchCheckpoint, Fail, RejectCheckpoint, FetchTxs, BuildPayload, SendChunk, MarkDone
  <1>2. a[1] \in Row /\ {a[1]} \in SUBSET Row /\ task[a] \in Task /\ {FAIL, DONE} \subseteq Status
    BY DEF Attempt, TypeOK, Status
  <1>3. \A b \in Attempt : b # a => task'[b].stage = task[b].stage /\ task'[b].proc = task[b].proc
    <2>1. ASSUME NEW s \in {FAIL, DONE}, UpdateCheckpointStatus({a[1]}, s, End({a})),
                 NEW b \in Attempt, b # a
          PROVE  task'[b].stage = task[b].stage /\ task'[b].proc = task[b].proc
      <3>1. s \in Status /\ End({a}) \in [Attempt -> Task] /\ End({a})[b] = task[b]
        BY <1>2, <2>1, EndOutcome
      <3>2. QED BY <1>2, <2>1, <3>1, UpdateOutcome
    <2>2. CASE Fail(a) \/ RejectCheckpoint(a) \/ MarkDone(a)
      BY <2>1, <2>2 DEF Fail, RejectCheckpoint, MarkDone
    <2>3. CASE FetchCheckpoint(a) \/ FetchTxs(a) \/ BuildPayload(a) \/ SendChunk(a)
      <3>1. \A b \in Attempt : b # a => task'[b] = task[b]
        BY <2>3 DEF FetchCheckpoint, FetchTxs, BuildPayload, SendChunk, TypeOK
      <3>2. QED BY <3>1
    <2>4. QED BY <2>2, <2>3 DEF TaskStep
  <1>4. ASSUME task[a].stage \in InFetch
        PROVE  /\ task'[a].stage \in InFetch
               /\ \/ task'[a].stage = "ended"
                  \/ task[a].stage # "ended" /\ task'[a].proc = task[a].proc
    <2>1. CASE FetchCheckpoint(a)
      <3>1. /\ task[a].stage = "fetching"
            /\ \E stage \in {"fetched", "failing"} : task' = [task EXCEPT ![a].stage = stage]
        BY <2>1 DEF FetchCheckpoint
      <3>2. \A stage : [task[a] EXCEPT !.stage = stage].stage = stage /\ [task[a] EXCEPT !.stage = stage].proc = task[a].proc
        BY <1>2 DEF Task
      <3>3. \E stage \in {"fetched", "failing"} : task'[a] = [task[a] EXCEPT !.stage = stage]
        BY <3>1 DEF TypeOK
      <3>4. QED BY <3>1, <3>2, <3>3 DEF InFetch
    <2>2. CASE Fail(a)
      <3>1. End({a}) \in [Attempt -> Task] /\ End({a})[a].stage = "ended"
        BY EndOutcome
      <3>2. UpdateCheckpointStatus({a[1]}, FAIL, End({a}))
        BY <2>2 DEF Fail
      <3>3. task'[a].stage = "ended"
        BY <1>2, <3>1, <3>2, UpdateOutcome
      <3>4. QED BY <3>3 DEF InFetch
    <2>3. CASE RejectCheckpoint(a) \/ FetchTxs(a) \/ BuildPayload(a) \/ SendChunk(a) \/ MarkDone(a)
      BY <1>4, <2>3 DEF RejectCheckpoint, FetchTxs, BuildPayload, SendChunk, MarkDone, InFetch
    <2>4. QED BY <2>1, <2>2, <2>3 DEF TaskStep
  <1>5. ASSUME NEW t \in Thread, pc[t] = "Fetching", NEW b \in batch[t]
        PROVE  /\ task'[b].stage \in InFetch
               /\ \/ task'[b].stage = "ended"
                  \/ task[b].stage # "ended" /\ task'[b].proc = task[b].proc
    <2>1. b \in Attempt /\ task[b].stage \in InFetch
      BY <1>5 DEF BatchInv, TypeOK
    <2>2. QED BY <1>3, <1>4, <2>1
  <1>6. QED BY <1>1, <1>5, BatchKept

\* And those of the environment.
LEMMA BatchEnvironmentStep ==
  ASSUME ClaimInv, ClaimInv', BatchInv,
         \/ \E p \in Process : Evict(p) \/ Crash(p)
         \/ \E r \in Row : HourPasses(r)
         \/ UpdateFailedStatus \/ UNCHANGED vars
  PROVE  BatchInv'
  <1> USE DEF ClaimInv
  <1>i. \A u \in Thread : pc[u] = "Fetching" => \A a \in batch[u] : a \in Attempt /\ task[a].stage \in InFetch
    BY DEF BatchInv, TypeOK
  <1>1. ASSUME NEW p \in Process, Crash(p) PROVE BatchInv'
    <2>1. /\ pc' = [t \in Thread |-> IF ProcessOf[t] = p THEN "Idle" ELSE pc[t]]
          /\ batch' = [t \in Thread |-> IF ProcessOf[t] = p THEN {} ELSE batch[t]]
          /\ task' = [a \in Attempt |-> IF Live(a) /\ task[a].proc = p THEN Idle("ended")
                                        ELSE task[a]]
          /\ UNCHANGED tries
      BY <1>1 DEF Crash
    <2>2. ASSUME NEW t \in Thread
          PROVE  \/ pc'[t] = "Idle" /\ batch'[t] = {}
                 \/ pc'[t] = pc[t] /\ batch'[t] = batch[t]
      <3>1. CASE ProcessOf[t] = p
        BY <2>1, <3>1
      <3>2. CASE ProcessOf[t] # p
        BY <2>1, <3>2
      <3>3. QED BY <3>1, <3>2
    <2>3. \A a \in Attempt : task'[a].stage = "ended" \/ task'[a] = task[a]
      BY <2>1 DEF Idle
    <2>4. QED BY <1>i, <2>1, <2>2, <2>3, BatchKept DEF InFetch
  <1>2. CASE UpdateFailedStatus
    <2>1. /\ UNCHANGED <<pc, batch, tries>>
          /\ \A a \in Attempt : task'[a] \in {[task[a] EXCEPT !.lost = TRUE], task[a]}
      BY <1>2 DEF UpdateFailedStatus, Release
    <2>2. ASSUME NEW a \in Attempt
          PROVE  task'[a].stage = task[a].stage /\ task'[a].proc = task[a].proc
      <3>1. task[a] \in Task
        BY DEF TypeOK
      <3>2. QED BY <2>1, <3>1 DEF Task
    <2>3. QED BY <1>i, <2>1, <2>2, BatchKept
  <1>3. ASSUME NEW p \in Process, Evict(p) PROVE BatchInv'
    BY <1>3 DEF Evict, BatchInv
  <1>4. ASSUME NEW r \in Row, HourPasses(r) PROVE BatchInv'
    BY <1>4 DEF HourPasses, BatchInv
  <1>5. CASE UNCHANGED vars
    BY <1>5 DEF vars, BatchInv
  <1>6. QED BY <1>1, <1>2, <1>3, <1>4, <1>5

-----------------------------------------------------------------------------
(***************************************************************************)
(* What a step may do to the count of a row.                               *)
(***************************************************************************)
Fewer(r) == Failing(r)' \subseteq Failing(r) /\ Releasing(r)' \subseteq Releasing(r)

\* Nothing is added to the count.
CountsNoMore(r) ==
  /\ tries'[r] = tries[r] /\ faults <= faults'
  /\ Fewer(r)
  /\ Available(r)' <= Available(r)

\* A report of FAIL makes the row claimable and is not made again.
CountsReport(r) ==
  /\ tries'[r] = tries[r] /\ faults <= faults'
  /\ Fewer(r)
  /\ Failing(r)' # Failing(r) \/ Releasing(r)' # Releasing(r)

\* The row is claimed.
CountsClaim(r) ==
  /\ tries'[r] = tries[r] + 1 /\ faults' = faults
  /\ Fewer(r)
  /\ Available(r) = 1 /\ Available(r)' = 0

\* A fault adds a report of an attempt and one of a thread.
CountsReports(r) ==
  /\ tries'[r] = tries[r] /\ faults' = faults + 1
  /\ \E a : Failing(r)' \subseteq Failing(r) \cup {a}
  /\ \E t : Releasing(r)' \subseteq Releasing(r) \cup {t}
  /\ Available(r)' <= Available(r)

\* A fault makes the row claimable and adds a report of a thread.
CountsLoss(r) ==
  /\ tries'[r] = tries[r] /\ faults' = faults + 1
  /\ Failing(r)' \subseteq Failing(r)
  /\ \E t : Releasing(r)' \subseteq Releasing(r) \cup {t}

CountStep(r) ==
  CountsNoMore(r) \/ CountsReport(r) \/ CountsClaim(r) \/ CountsReports(r) \/ CountsLoss(r)

\* The sets that are counted are finite.
LEMMA CountedFinite ==
  ASSUME NEW r
  PROVE  /\ \A S : S \subseteq {a \in Attempt : a[1] = r} => IsFiniteSet(S)
         /\ \A S : S \subseteq Thread => IsFiniteSet(S)
  <1>1. IsFiniteSet({r}) /\ IsFiniteSet(1 .. MaxTry)
    <2>1. MaxTry \in Int
      BY WorkerAssumption
    <2>2. IsFiniteSet({r})
      BY FS_Singleton
    <2>3. IsFiniteSet(1 .. MaxTry)
      BY <2>1, FS_Interval
    <2>4. QED BY <2>2, <2>3
  <1>2. IsFiniteSet({r} \X (1 .. MaxTry))
    BY <1>1, FS_Product
  <1>3. {a \in Attempt : a[1] = r} \subseteq {r} \X (1 .. MaxTry)
    BY DEF Attempt
  <1>4. QED BY <1>2, <1>3, FS_Subset, WorkerAssumption

\* A set within S and one more element has at most one more element.
LEMMA OneMore ==
  ASSUME NEW S, NEW T, NEW x, IsFiniteSet(S), T \subseteq S \cup {x}
  PROVE  Cardinality(T) <= Cardinality(S) + 1
  <1>1. IsFiniteSet(S \cup {x}) /\ Cardinality(S \cup {x}) \in Nat /\ Cardinality(S) \in Nat
    BY FS_AddElement, FS_CardinalityType
  <1>2. Cardinality(S \cup {x}) <= Cardinality(S) + 1
    <2>1. Cardinality(S \cup {x}) = IF x \in S THEN Cardinality(S) ELSE Cardinality(S) + 1
      BY FS_AddElement
    <2>2. QED BY <1>1, <2>1
  <1>3. Cardinality(T) <= Cardinality(S \cup {x}) /\ Cardinality(T) \in Nat
    BY <1>1, FS_Subset, FS_CardinalityType
  <1>4. QED BY <1>1, <1>2, <1>3

\* No such step carries the count beyond what the faults allow.
LEMMA CountKept ==
  ASSUME TypeOK, TypeOK', NEW r \in Row, CountStep(r),
         tries[r] + Available(r) + Cardinality(Failing(r)) + Cardinality(Releasing(r))
           <= 1 + 2 * faults
  PROVE  tries'[r] + Available(r)' + Cardinality(Failing(r)') + Cardinality(Releasing(r)')
           <= 1 + 2 * faults'
  <1> DEFINE F == Cardinality(Failing(r))     F2 == Cardinality(Failing(r)')
             L == Cardinality(Releasing(r))   L2 == Cardinality(Releasing(r)')
  <1>1. /\ IsFiniteSet(Failing(r)) /\ IsFiniteSet(Failing(r)')
        /\ IsFiniteSet(Releasing(r)) /\ IsFiniteSet(Releasing(r)')
    BY CountedFinite DEF Failing, Releasing
  <1>2. F \in Nat /\ F2 \in Nat /\ L \in Nat /\ L2 \in Nat
    BY <1>1, FS_CardinalityType
  <1>3. tries[r] \in Nat /\ tries'[r] \in Nat /\ faults \in Nat /\ faults' \in Nat
    BY WorkerAssumption DEF TypeOK
  <1>4. Available(r) \in {0, 1} /\ Available(r)' \in {0, 1}
    BY DEF Available
  <1>5. Failing(r)' \subseteq Failing(r) => F2 <= F /\ (Failing(r)' # Failing(r) => F2 < F)
    BY <1>1, <1>2, FS_Subset
  <1>6. Releasing(r)' \subseteq Releasing(r) => L2 <= L /\ (Releasing(r)' # Releasing(r) => L2 < L)
    BY <1>1, <1>2, FS_Subset
  <1>7. (\E a : Failing(r)' \subseteq Failing(r) \cup {a}) => F2 <= F + 1
    BY <1>1, OneMore
  <1>8. (\E t : Releasing(r)' \subseteq Releasing(r) \cup {t}) => L2 <= L + 1
    BY <1>1, OneMore
  <1> HIDE DEF F, F2, L, L2
  <1>9. tries[r] + Available(r) + F + L <= 1 + 2 * faults
    BY DEF F, L
  <1>10. tries'[r] + Available(r)' + F2 + L2 <= 1 + 2 * faults'
    <2>1. CASE CountsNoMore(r)
      BY <1>2, <1>3, <1>4, <1>5, <1>6, <1>9, <2>1 DEF CountsNoMore, Fewer
    <2>2. CASE CountsReport(r)
      BY <1>2, <1>3, <1>4, <1>5, <1>6, <1>9, <2>2 DEF CountsReport, Fewer
    <2>3. CASE CountsClaim(r)
      BY <1>2, <1>3, <1>4, <1>5, <1>6, <1>9, <2>3 DEF CountsClaim, Fewer
    <2>4. CASE CountsReports(r)
      <3>1. F2 <= F + 1 /\ L2 <= L + 1
        BY <1>7, <1>8, <2>4 DEF CountsReports
      <3>2. /\ tries'[r] = tries[r] /\ faults' = faults + 1
            /\ Available(r)' <= Available(r)
        BY <2>4 DEF CountsReports
      <3>3. QED BY <1>2, <1>3, <1>4, <1>9, <3>1, <3>2
    <2>5. CASE CountsLoss(r)
      <3>1. F2 <= F /\ L2 <= L + 1
        BY <1>5, <1>8, <2>5 DEF CountsLoss
      <3>2. tries'[r] = tries[r] /\ faults' = faults + 1
        BY <2>5 DEF CountsLoss
      <3>3. QED BY <1>2, <1>3, <1>4, <1>9, <3>1, <3>2
    <2>6. QED BY <2>1, <2>2, <2>3, <2>4, <2>5 DEF CountStep
  <1>11. QED BY <1>10 DEF F2, L2

\* A row that stays as it was, with its attempts, is as claimable as it was.
LEMMA AvailableKept ==
  ASSUME NEW r \in Row, status'[r] = status[r], r \in stale' => r \in stale,
         \A a \in Attempt : a[1] = r /\ Holds(a) => Holds(a)'
  PROVE  Available(r)' <= Available(r)
  BY DEF Available, Held

\* A step that leaves a row, its attempts and the threads that may report for it
\* as they are.
LEMMA RowUntouched ==
  ASSUME NEW r \in Row, status'[r] = status[r], r \in stale' => r \in stale,
         \A a \in Attempt : a[1] = r => task'[a] = task[a],
         \A t \in Thread : \/ pc'[t] \in {"Idle", "Selected", "Waiting"}
                           \/ pc'[t] = pc[t] /\ batch'[t] = batch[t],
         batch \in [Thread -> SUBSET Attempt],
         tries'[r] = tries[r], faults <= faults'
  PROVE  CountStep(r)
  <1>1. Available(r)' <= Available(r)
    BY AvailableKept DEF Holds, Live
  <1>2. Failing(r)' \subseteq Failing(r)
    BY DEF Failing
  <1>3. ASSUME NEW t \in Thread, NEW a \in batch'[t], a[1] = r, MayFail(t, a)'
        PROVE  a \in batch[t] /\ MayFail(t, a)
    <2>1. pc'[t] \in {"Aborted", "Panicked", "Fetching"}
      BY <1>3 DEF MayFail
    <2>2. pc'[t] = pc[t] /\ batch'[t] = batch[t]
      BY <2>1
    <2>3. a \in Attempt
      BY <1>3, <2>2
    <2>4. QED BY <1>3, <2>2, <2>3 DEF MayFail
  <1>4. Releasing(r)' \subseteq Releasing(r)
    BY <1>3 DEF Releasing
  <1>5. QED BY <1>1, <1>2, <1>4 DEF CountStep, CountsNoMore, Fewer

\* A status update never takes a fault back.
LEMMA FaultsGrow ==
  ASSUME TypeOK, NEW rows \in SUBSET Row, NEW s \in Status,
         NEW tasks \in [Attempt -> Task],
         UpdateCheckpointStatus(rows, s, tasks)
  PROVE  faults <= faults'
  <1>1. faults \in Nat
    BY WorkerAssumption DEF TypeOK
  <1>2. faults' = faults \/ faults' = faults + 1
    BY UpdateOutcome
  <1>3. QED BY <1>1, <1>2

\* Of one row, a thread that fetches has one attempt.
LEMMA OneOfRow ==
  ASSUME BatchInv, NEW t \in Thread, NEW r
  PROVE  \E a : \A b \in batch[t] : b[1] = r => b = a
  <1>1. CASE \E a \in batch[t] : a[1] = r
    <2>1. PICK a \in batch[t] : a[1] = r
      BY <1>1
    <2>2. \A b \in batch[t] : b[1] = r => b = a
      BY <2>1 DEF BatchInv
    <2>3. QED BY <2>2
  <1>2. CASE ~\E a \in batch[t] : a[1] = r
    BY <1>2
  <1>3. QED BY <1>1, <1>2

\* The steps of a thread.
LEMMA CountThreadStep ==
  ASSUME ClaimInv, ClaimInv', BatchInv, NEW t \in Thread, ThreadStep(t), NEW r \in Row
  PROVE  CountStep(r)
  <1> USE DEF ClaimInv
  <1>r. Rows(batch[t]) \in SUBSET Row
    BY RowsType DEF TypeOK
  <1>s. FAIL \in Status /\ task \in [Attempt -> Task] /\ batch \in [Thread -> SUBSET Attempt]
    BY DEF Status, TypeOK
  <1>f. faults \in Nat /\ faults' \in Nat
    BY WorkerAssumption DEF TypeOK
  <1>1. CASE SelectForUpdate(t)
    <2>1. /\ pc' = [pc EXCEPT ![t] = "Selected"]
          /\ \E rows : batch' = [batch EXCEPT ![t] = rows]
          /\ UNCHANGED <<status, stale, tries, task, faults>>
      BY <1>1 DEF SelectForUpdate, Goto
    <2>2. \A u \in Thread : \/ pc'[u] = "Selected"
                            \/ pc'[u] = pc[u] /\ batch'[u] = batch[u]
      BY <2>1 DEF TypeOK
    <2>3. QED BY <1>f, <1>s, <2>1, <2>2, RowUntouched
  <1>2. CASE FindNothing(t)
    <2>1. UNCHANGED vars
      BY <1>2 DEF FindNothing
    <2>2. QED BY <1>f, <1>s, <2>1, RowUntouched DEF vars
  <1>3. CASE CommitClaim(t)
    <2>1. /\ pc' = [pc EXCEPT ![t] = "Fetching"] /\ pc[t] = "Selected" /\ batch' = batch
          /\ task' = [a \in Attempt |-> IF a \in batch[t] THEN Started(ProcessOf[t]) ELSE task[a]]
          /\ tries' = [q \in Row |-> IF q \in Rows(batch[t]) THEN tries[q] + 1 ELSE tries[q]]
          /\ faults' = faults
          /\ status' = SetStatus(status, Rows(batch[t]), PROCESSING)
          /\ stale' = stale \ Rows(batch[t])
      BY <1>3 DEF CommitClaim, ClaimRows, Goto
    <2>2. pc'[t] = "Fetching" /\ \A u \in Thread \ {t} : pc'[u] = pc[u]
      BY <2>1 DEF TypeOK
    <2>3. \A a \in Attempt : a \in batch[t] => task'[a].stage = "fetching" /\ task'[a].lost = FALSE
      BY <2>1 DEF Started
    <2>4. Failing(r)' \subseteq Failing(r)
      <3>1. ASSUME NEW a \in Attempt, task'[a].stage \in {"failing", "invalid"}
            PROVE  task'[a] = task[a]
        BY <2>1, <2>3, <3>1
      <3>2. QED BY <3>1 DEF Failing
    <2>5. Releasing(r)' \subseteq Releasing(r)
      <3>1. ASSUME NEW u \in Thread, NEW a \in batch'[u], MayFail(u, a)'
            PROVE  a \in batch[u] /\ MayFail(u, a)
        <4>1. a \in batch[u] /\ a \in Attempt
          BY <2>1, <3>1, <1>s
        <4>2. u # t
          BY <2>2, <2>3, <3>1, <4>1 DEF MayFail
        <4>3. pc'[u] = pc[u]
          BY <2>2, <4>2
        <4>4. pc[u] = "Fetching" => a \notin batch[t]
          BY <2>1, <4>1, ClaimedFresh
        <4>5. pc[u] = "Fetching" => task'[a] = task[a]
          BY <2>1, <4>1, <4>4
        <4>6. QED BY <3>1, <4>1, <4>3, <4>5 DEF MayFail
      <3>2. QED BY <3>1 DEF Releasing
    <2>6. CASE r \in Rows(batch[t])
      <3>1. PICK a \in batch[t] : a[1] = r
        BY <2>6 DEF Rows
      <3>2. a \in Attempt /\ status[r] \in {NOT_READY, FAIL}
        BY <1>s, <2>1, <3>1 DEF LockProtectsClaim
      <3>3. Available(r) = 1
        BY <3>2 DEF Available, NOT_READY, FAIL, PROCESSING, DONE
      <3>4. status'[r] = PROCESSING /\ r \notin stale' /\ tries'[r] = tries[r] + 1
        BY <2>1, <2>6, SetStatusType DEF TypeOK, Status
      <3>5. task'[a].stage = "fetching" /\ task'[a].lost = FALSE
        BY <2>3, <3>1, <3>2
      <3>6. Available(r)' = 0
        BY <3>1, <3>2, <3>4, <3>5 DEF Available, Held, Holds, Live
      <3>7. QED BY <2>1, <2>4, <2>5, <3>3, <3>4, <3>6 DEF CountStep, CountsClaim, Fewer
    <2>7. CASE r \notin Rows(batch[t])
      <3>1. \A a \in Attempt : a[1] = r => task'[a] = task[a]
        BY <2>1, <2>7 DEF Rows
      <3>2. status'[r] = status[r] /\ (r \in stale' => r \in stale) /\ tries'[r] = tries[r]
        BY <2>1, <2>7, SetStatusType DEF TypeOK, Status
      <3>3. Available(r)' <= Available(r)
        BY <3>1, <3>2, AvailableKept DEF Holds, Live
      <3>4. QED BY <1>f, <2>1, <2>4, <2>5, <3>2, <3>3 DEF CountStep, CountsNoMore, Fewer
    <2>8. QED BY <2>6, <2>7
  <1>4. CASE AbortClaim(t)
    <2>1. /\ pc' = [pc EXCEPT ![t] = "Aborted"] /\ pc[t] = "Selected"
          /\ UNCHANGED <<batch, tries, task>> /\ faults' = faults + 1
          /\ \/ UNCHANGED <<status, stale>>
             \/ /\ status' = SetStatus(status, Rows(batch[t]), PROCESSING)
                /\ stale' = stale \ Rows(batch[t])
      BY <1>4 DEF AbortClaim, ClaimRows, Goto, Spend
    <2>2. \A u \in Thread \ {t} : pc'[u] = pc[u]
      BY <2>1 DEF TypeOK
    <2>3. Failing(r)' \subseteq Failing(r) \cup {<<r, 0>>}
      BY <2>1 DEF Failing
    <2>4. Releasing(r)' \subseteq Releasing(r) \cup {t}
      BY <2>1, <2>2 DEF Releasing, MayFail
    <2>5. Available(r)' <= Available(r)
      <3>1. CASE status'[r] = status[r] /\ (r \in stale' => r \in stale)
        BY <2>1, <3>1, AvailableKept DEF Holds, Live
      <3>2. CASE r \in Rows(batch[t])
        <4>1. status[r] \in {NOT_READY, FAIL}
          BY <2>1, <3>2 DEF LockProtectsClaim, Rows
        <4>2. QED BY <4>1 DEF Available, NOT_READY, FAIL, PROCESSING, DONE
      <3>3. CASE r \notin Rows(batch[t])
        <4>1. status'[r] = status[r] /\ (r \in stale' => r \in stale)
          BY <2>1, <3>3, SetStatusType DEF TypeOK, Status
        <4>2. QED BY <4>1, <2>1, AvailableKept DEF Holds, Live
      <3>4. QED BY <3>1, <3>2, <3>3
    <2>6. QED BY <2>1, <2>3, <2>4, <2>5 DEF CountStep, CountsReports
  <1>5. CASE FailAborted(t) \/ FailBatch(t) \/ RecoverPanic(t)
    <2>1. /\ UpdateCheckpointStatus(Rows(batch[t]), FAIL, task)
          /\ pc' = [pc EXCEPT ![t] = "Idle"] /\ batch' = [batch EXCEPT ![t] = {}]
          /\ UNCHANGED tries
      BY <1>5 DEF FailAborted, FailBatch, RecoverPanic, Return, Goto
    <2>2. /\ pc'[t] = "Idle" /\ batch'[t] = {}
          /\ \A u \in Thread \ {t} : pc'[u] = pc[u] /\ batch'[u] = batch[u]
      BY <2>1 DEF TypeOK
    <2>3. \A u \in Thread : \/ pc'[u] \in {"Idle", "Selected", "Waiting"}
                            \/ pc'[u] = pc[u] /\ batch'[u] = batch[u]
      BY <2>2
    <2>4. faults <= faults'
      BY <1>r, <1>s, <2>1, FaultsGrow
    <2>5. CASE faults' = faults + 1 /\ task' = task /\ status' = status /\ stale' = stale
      BY <1>s, <2>1, <2>3, <2>4, <2>5, RowUntouched
    <2>6. CASE r \notin Rows(batch[t])
      <3>1. /\ status'[r] = status[r] /\ (r \in stale' => r \in stale)
            /\ \A a \in Attempt : a[1] = r => task'[a] = task[a]
        <4>1. \A q \in Row \ Rows(batch[t]) : status'[q] = status[q] /\ (q \in stale' <=> q \in stale)
          BY <1>r, <1>s, <2>1, UpdateOutcome
        <4>2. \A a \in Attempt : /\ task'[a].stage = task[a].stage
                                 /\ task'[a].proc = task[a].proc
                                 /\ a[1] \notin Rows(batch[t]) => task'[a] = task[a]
          BY <1>r, <1>s, <2>1, UpdateOutcome
        <4>3. QED BY <2>6, <4>1, <4>2
      <3>2. QED BY <1>s, <2>1, <2>3, <2>4, <3>1, RowUntouched
    <2>7. CASE r \in Rows(batch[t])
      <3>1. \A a \in Attempt : task'[a].stage = task[a].stage
        BY <1>r, <1>s, <2>1, UpdateOutcome
      <3>2. Failing(r)' \subseteq Failing(r)
        BY <3>1 DEF Failing
      <3>3. ASSUME NEW u \in Thread, NEW a \in batch'[u], MayFail(u, a)'
            PROVE  u # t /\ a \in batch[u] /\ MayFail(u, a)
        <4>1. u # t /\ a \in batch[u] /\ a \in Attempt /\ pc'[u] = pc[u]
          BY <1>s, <2>2, <3>3
        <4>2. QED BY <3>1, <3>3, <4>1 DEF MayFail
      <3>4. Releasing(r)' \subseteq Releasing(r) \ {t}
        BY <3>3 DEF Releasing
      <3>5. PICK a \in batch[t] : a[1] = r
        BY <2>7 DEF Rows
      <3>6. MayFail(t, a)
        <4>1. CASE FailAborted(t) \/ RecoverPanic(t)
          BY <4>1 DEF FailAborted, RecoverPanic, MayFail
        <4>2. CASE FailBatch(t)
          BY <3>5, <4>2 DEF FailBatch, AllFetched, Fetched, MayFail
        <4>3. QED BY <1>5, <4>1, <4>2
      <3>7. t \in Releasing(r)
        BY <3>5, <3>6 DEF Releasing
      <3>8. Releasing(r)' # Releasing(r) /\ Releasing(r)' \subseteq Releasing(r)
        BY <3>4, <3>7
      <3>9. QED BY <2>1, <2>4, <3>2, <3>8 DEF CountStep, CountsReport, Fewer
    <2>8. QED BY <2>6, <2>7
  <1>6. CASE StartCheckpoints(t)
    <2>1. PICK started \in SUBSET Fetched(t), rejected \in SUBSET Fetched(t), panics \in BOOLEAN :
            /\ started \cap rejected = {}
            /\ IF started = Fetched(t) /\ ~panics THEN faults' = faults ELSE Spend(1)
            /\ task' = [a \in Attempt |->
                          IF a \in started THEN [task[a] EXCEPT !.stage = "running"]
                          ELSE IF a \in rejected THEN [task[a] EXCEPT !.stage = "invalid"]
                          ELSE IF a \in Fetched(t) THEN Idle("ended")
                          ELSE task[a]]
            /\ pc' = [pc EXCEPT ![t] = IF panics THEN "Panicked" ELSE "Waiting"]
      BY <1>6 DEF StartCheckpoints, Goto
    <2>2. UNCHANGED <<status, stale, batch, tries>> /\ pc[t] = "Fetching"
      BY <1>6 DEF StartCheckpoints, AllFetched
    <2>3. /\ pc'[t] = IF panics THEN "Panicked" ELSE "Waiting"
          /\ \A u \in Thread \ {t} : pc'[u] = pc[u]
      BY <2>1 DEF TypeOK
    <2>4. Fetched(t) \subseteq batch[t] /\ batch[t] \subseteq Attempt
      BY <1>s DEF Fetched
    <2>5. \A a \in Attempt : a \notin Fetched(t) => task'[a] = task[a]
      BY <2>1
    <2>6. \A a \in started \cup rejected :
             /\ task'[a].lost = task[a].lost
             /\ task'[a].stage \in {"running", "invalid"}
             /\ a \in started => task'[a].stage = "running"
      <3>1. ASSUME NEW a \in started \cup rejected
            PROVE  /\ task'[a].lost = task[a].lost
                   /\ task'[a].stage \in {"running", "invalid"}
                   /\ a \in started => task'[a].stage = "running"
        <4>1. a \in Attempt /\ task[a] \in Task
          BY <1>s, <2>4
        <4>2. CASE a \in started
          <5>1. task'[a] = [task[a] EXCEPT !.stage = "running"]
            BY <2>1, <4>1, <4>2
          <5>2. QED BY <4>1, <5>1 DEF Task
        <4>3. CASE a \notin started
          <5>1. task'[a] = [task[a] EXCEPT !.stage = "invalid"]
            BY <2>1, <4>1, <4>3
          <5>2. QED BY <4>1, <4>3, <5>1 DEF Task
        <4>4. QED BY <4>2, <4>3
      <3>2. QED BY <3>1
    <2>7. \A a \in Fetched(t) : a \notin started \cup rejected => task'[a].stage = "ended"
      BY <2>1, <2>4 DEF Idle
    <2>8. ASSUME NEW u \in Thread \ {t}, NEW a \in batch'[u], MayFail(u, a)'
          PROVE  a \in batch[u] /\ MayFail(u, a)
      <3>1. a \in batch[u] /\ a \in Attempt /\ pc'[u] = pc[u]
        BY <1>s, <2>2, <2>3, <2>8
      <3>2. pc[u] = "Fetching" => a \notin batch[t]
        BY <2>2, <3>1 DEF BatchInv
      <3>3. QED BY <2>4, <2>5, <2>8, <3>1, <3>2 DEF MayFail
    <2>9. Releasing(r)' \subseteq Releasing(r) \cup {t}
      BY <2>8 DEF Releasing
    <2>10. \A a \in Attempt : a \notin started \cup rejected /\ task'[a].stage \in {"failing", "invalid"}
              => task'[a] = task[a]
      BY <2>5, <2>7
    <2>11. ASSUME \A a \in Fetched(t) : a[1] = r => a \in started \cup rejected
           PROVE  Available(r)' <= Available(r)
      <3>1. ASSUME NEW a \in Attempt, a[1] = r, Holds(a) PROVE Holds(a)'
        <4>1. CASE a \in Fetched(t)
          BY <2>6, <2>11, <3>1, <4>1 DEF Holds, Live
        <4>2. CASE a \notin Fetched(t)
          BY <2>5, <3>1, <4>2 DEF Holds, Live
        <4>3. QED BY <4>1, <4>2
      <3>2. QED BY <2>2, <3>1, AvailableKept
    <2>12. CASE started = Fetched(t) /\ ~panics
      <3>1. rejected = {} /\ faults' = faults /\ pc'[t] = "Waiting"
        BY <2>1, <2>3, <2>12
      <3>2. Failing(r)' \subseteq Failing(r)
        BY <2>6, <2>10, <3>1 DEF Failing
      <3>3. Releasing(r)' \subseteq Releasing(r)
        <4>1. t \notin Releasing(r)'
          BY <3>1 DEF Releasing, MayFail
        <4>2. QED BY <2>9, <4>1
      <3>4. Available(r)' <= Available(r)
        BY <2>11, <2>12
      <3>5. QED BY <1>f, <2>2, <3>1, <3>2, <3>3, <3>4 DEF CountStep, CountsNoMore, Fewer
    <2>13. CASE ~(started = Fetched(t) /\ ~panics)
      <3>1. faults' = faults + 1
        BY <2>1, <2>13 DEF Spend
      <3>2. PICK a : \A b \in batch[t] : b[1] = r => b = a
        BY OneOfRow
      <3>3. Failing(r)' \subseteq Failing(r) \cup {a}
        <4>1. ASSUME NEW b \in Attempt, b[1] = r, b # a PROVE task'[b] = task[b]
          BY <2>4, <2>5, <3>2, <4>1
        <4>2. QED BY <4>1 DEF Failing
      <3>4. CASE \A b \in Fetched(t) : b[1] = r => b \in started \cup rejected
        <4>1. Available(r)' <= Available(r)
          BY <2>11, <3>4
        <4>2. QED BY <2>2, <2>9, <3>1, <3>3, <4>1 DEF CountStep, CountsReports
      <3>5. CASE \E b \in Fetched(t) : b[1] = r /\ b \notin started \cup rejected
        <4>1. a \in Fetched(t) /\ task'[a].stage = "ended"
          BY <2>4, <2>7, <3>2, <3>5
        <4>2. a \notin Failing(r)'
          BY <4>1 DEF Failing
        <4>3. Failing(r)' \subseteq Failing(r)
          BY <3>3, <4>2
        <4>4. QED BY <2>2, <2>9, <3>1, <4>3 DEF CountStep, CountsLoss
      <3>6. QED BY <3>4, <3>5
    <2>14. QED BY <2>12, <2>13
  <1>7. CASE FinishBatch(t)
    <2>1. /\ pc' = [pc EXCEPT ![t] = "Idle"] /\ batch' = [batch EXCEPT ![t] = {}]
          /\ UNCHANGED <<status, stale, tries, task, faults>>
      BY <1>7 DEF FinishBatch, Return, Goto
    <2>2. \A u \in Thread : \/ pc'[u] = "Idle"
                            \/ pc'[u] = pc[u] /\ batch'[u] = batch[u]
      BY <2>1 DEF TypeOK
    <2>3. QED BY <1>f, <1>s, <2>1, <2>2, RowUntouched
  <1>8. QED BY <1>1, <1>2, <1>3, <1>4, <1>5, <1>6, <1>7 DEF ThreadStep

\* The steps of an attempt's goroutine.
LEMMA CountTaskStep ==
  ASSUME ClaimInv, ClaimInv', BatchInv, NEW a \in Attempt, TaskStep(a), NEW r \in Row
  PROVE  CountStep(r)
  <1> USE DEF ClaimInv
  <1>f. faults \in Nat /\ faults' \in Nat
    BY WorkerAssumption DEF TypeOK
  <1>a. a[1] \in Row /\ {a[1]} \in SUBSET Row /\ task[a] \in Task
    BY DEF Attempt, TypeOK
  <1>b. batch \in [Thread -> SUBSET Attempt] /\ task \in [Attempt -> Task]
    BY DEF TypeOK
  <1>c. UNCHANGED <<pc, batch, tries>>
    BY DEF TaskStep, FetchCheckpoint, Fail, RejectCheckpoint, FetchTxs, BuildPayload, SendChunk, MarkDone
  <1>1. CASE Fail(a) \/ RejectCheckpoint(a) \/ MarkDone(a)
    <2>1. PICK s \in {FAIL, DONE} : UpdateCheckpointStatus({a[1]}, s, End({a}))
      BY <1>1 DEF Fail, RejectCheckpoint, MarkDone
    <2>2. /\ s \in Status /\ End({a}) \in [Attempt -> Task] /\ End({a})[a].stage = "ended"
          /\ \A b \in Attempt : b # a => End({a})[b] = task[b]
      BY EndOutcome DEF Status
    <2>3. /\ \A b \in Attempt : /\ task'[b].stage = End({a})[b].stage
                                /\ b[1] \notin {a[1]} => task'[b] = End({a})[b]
          /\ \A q \in Row \ {a[1]} : status'[q] = status[q] /\ (q \in stale' <=> q \in stale)
          /\ \/ faults' = faults /\ \A q \in {a[1]} : status'[q] = s
             \/ faults' = faults + 1
      <3>1. End({a}) \in [Attempt -> Task] /\ s \in Status
        BY <2>2
      <3>2. \A b \in Attempt : /\ task'[b].stage = End({a})[b].stage
                               /\ b[1] \notin {a[1]} => task'[b] = End({a})[b]
        BY <1>a, <2>1, <3>1, UpdateOutcome
      <3>3. \A q \in Row \ {a[1]} : status'[q] = status[q] /\ (q \in stale' <=> q \in stale)
        BY <1>a, <2>1, <3>1, UpdateOutcome
      <3>4. \/ faults' = faults /\ \A q \in {a[1]} : status'[q] = s
            \/ faults' = faults + 1
        BY <1>a, <2>1, <3>1, UpdateOutcome
      <3>5. QED BY <3>2, <3>3, <3>4
    <2>4. faults <= faults'
      BY <1>f, <2>3
    <2>5. CASE r # a[1]
      <3>1. \A b \in Attempt : b[1] = r => task'[b] = task[b]
        BY <2>2, <2>3, <2>5
      <3>2. QED BY <1>b, <1>c, <2>3, <2>4, <2>5, <3>1, RowUntouched
    <2>6. CASE r = a[1]
      <3>1. /\ \A b \in Attempt : b # a => task'[b].stage = task[b].stage
            /\ task'[a].stage = "ended"
        BY <2>2, <2>3
      <3>2. Failing(r)' \subseteq Failing(r) \ {a}
        BY <3>1 DEF Failing
      <3>3. ASSUME NEW u \in Thread, NEW b \in batch'[u], MayFail(u, b)'
            PROVE  b \in batch[u] /\ MayFail(u, b)
        <4>1. b \in batch[u] /\ b \in Attempt /\ pc'[u] = pc[u]
          BY <1>b, <1>c
        <4>2. CASE b # a
          BY <3>1, <3>3, <4>1, <4>2 DEF MayFail
        <4>3. CASE b = a
          <5>1. CASE Fail(a)
            BY <3>3, <4>1, <4>3, <5>1 DEF MayFail, Fail
          <5>2. CASE RejectCheckpoint(a) \/ MarkDone(a)
            <6>1. pc[u] # "Fetching"
              BY <4>1, <4>3, <5>2, OutsideFetch DEF RejectCheckpoint, MarkDone, InFetch
            <6>2. QED BY <3>3, <4>1, <6>1 DEF MayFail
          <5>3. QED BY <1>1, <5>1, <5>2
        <4>4. QED BY <4>2, <4>3
      <3>4. Releasing(r)' \subseteq Releasing(r)
        BY <3>3 DEF Releasing
      <3>5. CASE Fail(a) \/ RejectCheckpoint(a)
        <4>1. a \in Failing(r)
          BY <2>6, <3>5 DEF Failing, Fail, RejectCheckpoint
        <4>2. Failing(r)' # Failing(r) /\ Failing(r)' \subseteq Failing(r)
          BY <3>2, <4>1
        <4>3. QED BY <1>c, <2>4, <3>4, <4>2 DEF CountStep, CountsReport, Fewer
      <3>6. CASE MarkDone(a)
        <4>1. CASE faults' = faults + 1
          BY <1>c, <3>2, <3>4, <4>1 DEF CountStep, CountsLoss
        <4>2. CASE faults' # faults + 1
          <5>1. task[a].stage = "running" /\ UpdateCheckpointStatus({a[1]}, DONE, End({a}))
            BY <3>6 DEF MarkDone
          <5>2. DONE \in Status
            BY DEF Status
          <5>3. \A q \in {a[1]} : status'[q] = DONE
            BY <1>a, <2>2, <4>2, <5>1, <5>2, UpdateOutcome
          <5>4. Available(r)' = 0
            BY <2>6, <5>3 DEF Available
          <5>5. Available(r) \in {0, 1}
            BY DEF Available
          <5>6. QED BY <1>c, <2>4, <3>2, <3>4, <5>4, <5>5 DEF CountStep, CountsNoMore, Fewer
        <4>3. QED BY <4>1, <4>2
      <3>7. QED BY <1>1, <3>5, <3>6
    <2>7. QED BY <2>5, <2>6
  <1>2. CASE FetchCheckpoint(a) \/ FetchTxs(a) \/ BuildPayload(a) \/ SendChunk(a)
    <2>1. /\ UNCHANGED <<status, stale>>
          /\ \A b \in Attempt : b # a => task'[b] = task[b]
      BY <1>2 DEF FetchCheckpoint, FetchTxs, BuildPayload, SendChunk, TypeOK
    <2>2. \/ /\ task[a].stage \notin {"none", "ended", "failing", "invalid"}
             /\ task'[a].stage \in {"fetched", "looked", "sending", "running"}
             /\ faults' = faults
          \/ /\ task[a].stage \notin {"none", "ended", "failing", "invalid"}
             /\ task'[a].stage = "failing" /\ faults' = faults + 1
             /\ task[a].stage # "fetching" => task[a].stage \notin InFetch
      <3>1. CASE FetchCheckpoint(a)
        BY <1>a, <3>1 DEF FetchCheckpoint, Spend, Task, TypeOK
      <3>2. CASE FetchTxs(a)
        BY <1>a, <3>2 DEF FetchTxs, Spend, Task, TypeOK, InFetch
      <3>3. CASE BuildPayload(a)
        BY <1>a, <3>3 DEF BuildPayload, Task, TypeOK
      <3>4. CASE SendChunk(a)
        BY <1>a, <3>4 DEF SendChunk, Spend, Task, TypeOK, InFetch
      <3>5. QED BY <1>2, <3>1, <3>2, <3>3, <3>4
    <2>3. task'[a].lost = task[a].lost
      BY <1>2, <1>a DEF FetchCheckpoint, FetchTxs, BuildPayload, SendChunk, Task, TypeOK
    <2>4. faults <= faults'
      BY <1>f, <2>2
    <2>5. Available(r)' <= Available(r)
      <3>1. ASSUME NEW b \in Attempt, Holds(b) PROVE Holds(b)'
        BY <2>1, <2>2, <2>3, <3>1 DEF Holds, Live
      <3>2. QED BY <2>1, <3>1, AvailableKept
    <2>6. Failing(r)' \subseteq Failing(r) \cup {a}
      BY <2>1 DEF Failing
    <2>7. CASE faults' = faults
      <3>1. task'[a].stage \in {"fetched", "looked", "sending", "running"}
        BY <1>f, <2>2, <2>7
      <3>2. Failing(r)' \subseteq Failing(r)
        BY <2>6, <3>1 DEF Failing
      <3>3. ASSUME NEW u \in Thread, NEW b \in batch'[u], MayFail(u, b)'
            PROVE  b \in batch[u] /\ MayFail(u, b)
        <4>1. b \in batch[u] /\ b \in Attempt /\ pc'[u] = pc[u]
          BY <1>b, <1>c
        <4>2. QED BY <2>1, <3>1, <3>3, <4>1 DEF MayFail
      <3>4. Releasing(r)' \subseteq Releasing(r)
        BY <3>3 DEF Releasing
      <3>5. QED BY <1>c, <2>4, <2>5, <3>2, <3>4 DEF CountStep, CountsNoMore, Fewer
    <2>8. CASE faults' # faults
      <3>1. \E t : \A u \in Thread : pc[u] = "Fetching" /\ a \in batch[u] => u = t
        <4>1. CASE \E t \in Thread : pc[t] = "Fetching" /\ a \in batch[t]
          <5>1. PICK t \in Thread : pc[t] = "Fetching" /\ a \in batch[t]
            BY <4>1
          <5>2. ASSUME NEW u \in Thread, pc[u] = "Fetching", a \in batch[u] PROVE u = t
            BY <5>1, <5>2 DEF BatchInv
          <5>3. QED BY <5>2
        <4>2. QED BY <4>1
      <3>2. PICK t : \A u \in Thread : pc[u] = "Fetching" /\ a \in batch[u] => u = t
        BY <3>1
      <3>3. ASSUME NEW u \in Thread, NEW b \in batch'[u], MayFail(u, b)', u # t
            PROVE  b \in batch[u] /\ MayFail(u, b)
        <4>1. b \in batch[u] /\ b \in Attempt /\ pc'[u] = pc[u]
          BY <1>b, <1>c
        <4>2. QED BY <2>1, <3>2, <3>3, <4>1 DEF MayFail
      <3>4. Releasing(r)' \subseteq Releasing(r) \cup {t}
        BY <3>3 DEF Releasing
      <3>5. faults' = faults + 1
        BY <2>2, <2>8
      <3>6. QED BY <1>c, <2>5, <2>6, <3>4, <3>5 DEF CountStep, CountsReports
    <2>9. QED BY <2>7, <2>8
  <1>3. QED BY <1>1, <1>2 DEF TaskStep

\* The steps of the environment.
LEMMA CountEnvironmentStep ==
  ASSUME ClaimInv, ClaimInv', BatchInv, NEW r \in Row,
         \/ \E p \in Process : Evict(p) \/ Crash(p)
         \/ \E q \in Row : HourPasses(q)
         \/ UpdateFailedStatus \/ UNCHANGED vars
  PROVE  CountStep(r)
  <1> USE DEF ClaimInv
  <1>f. faults \in Nat /\ faults' \in Nat
    BY WorkerAssumption DEF TypeOK
  <1>b. batch \in [Thread -> SUBSET Attempt] /\ task \in [Attempt -> Task]
    BY DEF TypeOK
  <1>1. ASSUME NEW p \in Process, Crash(p) PROVE CountStep(r)
    <2>1. /\ pc' = [t \in Thread |-> IF ProcessOf[t] = p THEN "Idle" ELSE pc[t]]
          /\ batch' = [t \in Thread |-> IF ProcessOf[t] = p THEN {} ELSE batch[t]]
          /\ task' = [a \in Attempt |-> IF Live(a) /\ task[a].proc = p THEN Idle("ended")
                                        ELSE task[a]]
          /\ UNCHANGED tries /\ faults' = faults + 1
      BY <1>1 DEF Crash, Spend
    <2>2. \A a \in Attempt : task'[a].stage # "ended" => task'[a] = task[a]
      BY <2>1 DEF Idle
    <2>3. Failing(r)' \subseteq Failing(r)
      BY <2>2 DEF Failing
    <2>4. ASSUME NEW u \in Thread, NEW b \in batch'[u], MayFail(u, b)'
          PROVE  b \in batch[u] /\ MayFail(u, b)
      <3>1. ProcessOf[u] # p
        BY <2>1, <2>4
      <3>2. b \in batch[u] /\ b \in Attempt /\ pc'[u] = pc[u]
        BY <1>b, <2>1, <2>4, <3>1
      <3>3. CASE pc[u] = "Fetching"
        <4>1. task[b].stage = "ended" \/ task[b].proc # p
          BY <3>1, <3>2, <3>3 DEF BatchInv
        <4>2. task'[b] = task[b]
          BY <2>1, <3>2, <4>1 DEF Live
        <4>3. QED BY <2>4, <3>2, <4>2 DEF MayFail
      <3>4. CASE pc[u] # "Fetching"
        BY <2>4, <3>2, <3>4 DEF MayFail
      <3>5. QED BY <3>3, <3>4
    <2>5. Releasing(r)' \subseteq Releasing(r)
      BY <2>4 DEF Releasing
    <2>6. QED BY <2>1, <2>3, <2>5 DEF CountStep, CountsLoss
  <1>2. CASE UpdateFailedStatus
    <2>1. /\ status' = SetStatus(status, Abandoned(status, stale), FAIL)
          /\ task' = Release(task, Abandoned(status, stale))
          /\ stale' = stale \ Abandoned(status, stale)
          /\ UNCHANGED <<pc, batch, tries, faults>>
      BY <1>2 DEF UpdateFailedStatus
    <2>2. CASE r \notin Abandoned(status, stale)
      <3>1. status'[r] = status[r] /\ (r \in stale' => r \in stale)
        BY <2>1, <2>2, SetStatusType DEF TypeOK, Status
      <3>2. \A a \in Attempt : a[1] = r => task'[a] = task[a]
        BY <2>1, <2>2 DEF Release
      <3>3. QED BY <1>b, <1>f, <2>1, <3>1, <3>2, RowUntouched
    <2>3. CASE r \in Abandoned(status, stale)
      <3>1. Available(r) = 1 /\ Available(r)' \in {0, 1}
        BY <2>3 DEF Available, Abandoned, PROCESSING, DONE
      <3>2. ASSUME NEW a \in Attempt PROVE task'[a].stage = task[a].stage
        <4>1. task[a] \in Task /\ task'[a] \in {[task[a] EXCEPT !.lost = TRUE], task[a]}
          BY <1>b, <2>1 DEF Release
        <4>2. QED BY <4>1 DEF Task
      <3>3. Failing(r)' \subseteq Failing(r)
        BY <3>2 DEF Failing
      <3>4. ASSUME NEW u \in Thread, NEW b \in batch'[u], MayFail(u, b)'
            PROVE  b \in batch[u] /\ MayFail(u, b)
        <4>1. b \in batch[u] /\ b \in Attempt /\ pc'[u] = pc[u]
          BY <1>b, <2>1
        <4>2. QED BY <3>2, <3>4, <4>1 DEF MayFail
      <3>5. Releasing(r)' \subseteq Releasing(r)
        BY <3>4 DEF Releasing
      <3>6. QED BY <1>f, <2>1, <3>1, <3>3, <3>5 DEF CountStep, CountsNoMore, Fewer
    <2>4. QED BY <2>2, <2>3
  <1>3. ASSUME NEW p \in Process, Evict(p) PROVE CountStep(r)
    <2>1. UNCHANGED <<status, stale, pc, batch, tries, task, faults>>
      BY <1>3 DEF Evict
    <2>2. QED BY <1>b, <1>f, <2>1, RowUntouched
  <1>4. ASSUME NEW q \in Row, HourPasses(q) PROVE CountStep(r)
    <2>1. /\ status[q] = PROCESSING /\ q \notin stale /\ stale' = stale \cup {q}
          /\ IF Held(q) THEN Spend(1) ELSE faults' = faults
          /\ UNCHANGED <<status, pc, batch, tries, task>>
      BY <1>4 DEF HourPasses, Held
    <2>2. faults <= faults'
      BY <1>f, <2>1 DEF Spend
    <2>3. CASE r # q
      BY <1>b, <2>1, <2>2, <2>3, RowUntouched
    <2>4. CASE r = q
      <3>1. Failing(r)' = Failing(r) /\ Releasing(r)' = Releasing(r)
        BY <2>1 DEF Failing, Releasing, MayFail
      <3>2. CASE Held(q)
        <4>1. faults' = faults + 1
          BY <2>1, <3>2 DEF Spend
        <4>2. QED BY <2>1, <3>1, <4>1 DEF CountStep, CountsLoss
      <3>3. CASE ~Held(q)
        <4>1. Available(r) = 1 /\ Available(r)' \in {0, 1}
          BY <2>1, <2>4, <3>3 DEF Available, PROCESSING, DONE
        <4>2. QED BY <2>1, <2>2, <3>1, <4>1 DEF CountStep, CountsNoMore, Fewer
      <3>4. QED BY <3>2, <3>3
    <2>5. QED BY <2>3, <2>4
  <1>5. CASE UNCHANGED vars
    BY <1>b, <1>f, <1>5, RowUntouched DEF vars
  <1>6. QED BY <1>1, <1>2, <1>3, <1>4, <1>5

\* The inductive invariant.
RetryInv == ClaimInv /\ BatchInv /\ RetriesCounted

\* Nothing was claimed, and every row can be claimed once.
LEMMA RetryInvInit == Init => RetryInv
  <1> SUFFICES ASSUME Init PROVE RetryInv
    OBVIOUS
  <1>1. ClaimInv
    BY ClaimInvInit
  <1>2. BatchInv
    BY DEF Init, BatchInv
  <1>3. ASSUME NEW r \in Row
        PROVE  tries[r] + Available(r) + Cardinality(Failing(r)) + Cardinality(Releasing(r))
                 <= 1 + 2 * faults
    <2>1. Failing(r) = {} /\ Releasing(r) = {}
      BY DEF Init, Failing, Releasing, Idle
    <2>2. Cardinality(Failing(r)) = 0 /\ Cardinality(Releasing(r)) = 0
      BY <2>1, FS_EmptySet
    <2>3. tries[r] = 0 /\ faults = 0 /\ Available(r) \in {0, 1}
      BY DEF Init, Available
    <2>4. QED BY <2>2, <2>3
  <1>4. QED BY <1>1, <1>2, <1>3 DEF RetryInv, RetriesCounted

\* Every step keeps it.
LEMMA RetryInvStep == RetryInv /\ [Next]_vars => RetryInv'
  <1> SUFFICES ASSUME RetryInv, [Next]_vars PROVE RetryInv'
    OBVIOUS
  <1>1. ClaimInv /\ BatchInv /\ RetriesCounted
    BY DEF RetryInv
  <1>2. ClaimInv'
    BY <1>1, ClaimInvStep
  <1>3. BatchInv'
    BY <1>1, <1>2, BatchThreadStep, BatchTaskStep, BatchEnvironmentStep DEF Next
  <1>4. ASSUME NEW r \in Row PROVE CountStep(r)
    BY <1>1, <1>2, CountThreadStep, CountTaskStep, CountEnvironmentStep DEF Next
  <1>5. ASSUME NEW r \in Row
        PROVE  tries'[r] + Available(r)' + Cardinality(Failing(r)') + Cardinality(Releasing(r)')
                 <= 1 + 2 * faults'
    BY <1>1, <1>2, <1>4, CountKept DEF RetriesCounted, ClaimInv
  <1>6. QED BY <1>2, <1>3, <1>5 DEF RetryInv, RetriesCounted

\* A row is claimed at most once and twice more for every fault.
THEOREM RetriesSafe == Spec => []RetriesBounded
  <1>1. RetryInv => RetriesBounded
    <2> SUFFICES ASSUME RetryInv, NEW r \in Row PROVE tries[r] <= 1 + 2 * faults
      BY DEF RetriesBounded
    <2>1. tries[r] + Available(r) + Cardinality(Failing(r)) + Cardinality(Releasing(r))
            <= 1 + 2 * faults
      BY DEF RetryInv, RetriesCounted
    <2>2. Cardinality(Failing(r)) \in Nat /\ Cardinality(Releasing(r)) \in Nat
      BY CountedFinite, FS_CardinalityType DEF Failing, Releasing
    <2>3. tries[r] \in Nat /\ faults \in Nat
      BY WorkerAssumption DEF RetryInv, ClaimInv, TypeOK
    <2>4. Available(r) \in {0, 1}
      BY DEF Available
    <2>5. QED BY <2>1, <2>2, <2>3, <2>4
  <1>2. QED BY <1>1, RetryInvInit, RetryInvStep, PTL DEF Spec
=============================================================================

----------------------------- MODULE MasterCron -----------------------------
(***************************************************************************)
(* The clock of the reaper: the cron job update_failed_status of           *)
(* sui-master (sui-indexer/internal/app/sui-master/cronjob.go) and the     *)
(* query it runs, UpdateFailedStatus of block_status_repo.go.              *)
(*                                                                         *)
(* SuiWorker lets the reaper act at any time; this module measures when it *)
(* does.  Time goes in ticks of five minutes.  Rows belong to batches of   *)
(* either type; a worker that died simply never ends its row.              *)
(***************************************************************************)
EXTENDS BlockStatus

CONSTANTS
  Row,        \* block_status rows, REALTIME and BACKFILL alike
  Period,     \* ticks between two runs, "*/15 * * * *"
  Threshold,  \* ticks of carbon.Now().AddHours(-1)
  MaxMissed   \* bound: runs in a row that fail or that the master is down for

ASSUME CronAssumption ==
  /\ Period \in Nat \ {0}
  /\ Threshold \in Nat
  /\ MaxMissed \in Nat

VARIABLES
  status,   \* the table
  age,      \* ticks since updated_at of each row
  wait,     \* ticks until the next quarter of an hour
  up,       \* sui-master is running
  missed    \* how many of the latest runs did not happen or failed

vars == <<status, age, wait, up, missed>>

\* Nothing distinguishes ages above this one.
MaxAge == Threshold + (MaxMissed + 2) * Period

\* The scheduler fires on the quarter of an hour, before anything else does.
Due == wait = 0

-----------------------------------------------------------------------------
\* Five minutes pass.
Tick ==
  /\ ~Due
  /\ wait' = wait - 1
  /\ age' = [r \in Row |-> IF age[r] < MaxAge THEN age[r] + 1 ELSE age[r]]
  /\ UNCHANGED <<status, up, missed>>

\* Variant: the offset is a day instead of an hour.
StaleAfterDay == {r \in Row : age[r] > 24 * Threshold}

\* "updated_at < now - 1 hour": strictly older than the threshold.
Stale == {r \in Row : age[r] > Threshold}

Touched(rows) == [r \in Row |-> IF r \in rows THEN 0 ELSE age[r]]

\* The job runs and its UPDATE succeeds; gorm sets updated_at as well.
UpdateFailedStatus ==
  /\ Due /\ up
  /\ status' = SetStatus(status, Abandoned(status, Stale), FAIL)
  /\ age' = Touched(Abandoned(status, Stale))
  /\ wait' = Period
  /\ missed' = 0
  /\ UNCHANGED up

\* Variant: the next run is scheduled one tick late.
MissDrifting ==
  /\ Due
  /\ missed < MaxMissed
  /\ missed' = missed + 1
  /\ wait' = Period + 1
  /\ UNCHANGED <<status, age, up>>

\* The UPDATE fails, which is logged, or no master is there to run the job.
Miss ==
  /\ Due
  /\ missed < MaxMissed
  /\ missed' = missed + 1
  /\ wait' = Period
  /\ UNCHANGED <<status, age, up>>

\* sui-master stops or starts; a run due while it is down is not made up for.
StopMaster == /\ up /\ up' = FALSE
              /\ UNCHANGED <<status, age, wait, missed>>

StartMaster == /\ ~up /\ up' = TRUE
               /\ UNCHANGED <<status, age, wait, missed>>

\* A worker claims rows, and ends one of them, with DONE or with FAIL.
Claim(rows) ==
  /\ rows # {} /\ rows \subseteq Claimable(status)
  /\ status' = SetStatus(status, rows, PROCESSING)
  /\ age' = Touched(rows)
  /\ UNCHANGED <<wait, up, missed>>

EndRow(r) ==
  /\ status[r] = PROCESSING
  /\ \E s \in {DONE, FAIL} : status' = SetStatus(status, {r}, s)
  /\ age' = Touched({r})
  /\ UNCHANGED <<wait, up, missed>>

-----------------------------------------------------------------------------
Init ==
  /\ status = [r \in Row |-> NOT_READY]
  /\ age = [r \in Row |-> 0]
  /\ wait \in 1 .. Period
  /\ up = TRUE
  /\ missed = 0

Next ==
  \/ Tick
  \/ UpdateFailedStatus
  \/ Miss
  \/ StopMaster
  \/ StartMaster
  \/ \E rows \in SUBSET Row : Claim(rows)
  \/ \E r \in Row : EndRow(r)

Spec == Init /\ [][Next]_vars

-----------------------------------------------------------------------------
(***************************************************************************)
(* Properties.                                                             *)
(***************************************************************************)
TypeOK ==
  /\ status \in [Row -> Status]
  /\ age \in [Row -> 0 .. MaxAge]
  /\ wait \in 0 .. Period
  /\ up \in BOOLEAN
  /\ missed \in 0 .. MaxMissed

(***************************************************************************)
(* How long a dead worker can keep a row: the hour of the query, the       *)
(* period of the job, and one period more for each run that failed or that *)
(* sui-master was down for.                                                *)
(***************************************************************************)
ReapedInTime ==
  \A r \in Row :
     status[r] = PROCESSING => age[r] <= Threshold + Period * (missed + 1)

=============================================================================

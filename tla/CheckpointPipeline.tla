-------------------------- MODULE CheckpointPipeline -------------------------
(***************************************************************************)
(* sui-master and sui-worker over one block_status table: the masters of   *)
(* SuiMaster insert rows while the threads of a worker claim, index and    *)
(* end them (worker.go), and the cron job puts back what was abandoned.    *)
(*                                                                         *)
(* SuiWorker has the worker in detail, its transactions and goroutines;    *)
(* here a claim is one step (LockProtectsClaim and ClaimExclusive of that  *)
(* module say that it may be), and so is the work on a row.  What is new   *)
(* is the order of the rows: the page is the lowest claimable blocks, and  *)
(* some blocks fail whenever they are tried.                               *)
(***************************************************************************)
EXTENDS SuiMaster, BlockStatus

CONSTANTS
  WorkerThread, \* the threads of the worker, 10
  PageLimit,    \* w.limitCheckpoints, 10
  Poison        \* blocks that fail whenever they are tried

ASSUME PipelineAssumption ==
  /\ PageLimit \in Nat \ {0}
  /\ Poison \subseteq Block

VARIABLES
  table,  \* the status of each row
  held    \* the rows of each thread's page that it has not ended yet

pipelineVars == <<vars, table, held>>

-----------------------------------------------------------------------------
\* Rows are numbered in the order of their blocks, the copies of a block in any
\* order; CopiesBounded says how many there can be.
MaxCopies == Cardinality(Master) + MaxFault

RowOf(b, i) == b * (MaxCopies + 1) + i

BlockOf(r) == r \div (MaxCopies + 1)

\* The rows that the masters have inserted so far: new ones are NOT_READY.
Grown(counts) ==
  [r \in UNION {{RowOf(b, i) : i \in 1 .. counts[b]} : b \in Block} |->
     IF r \in DOMAIN table THEN table[r] ELSE NOT_READY]

MasterStep(A) == A /\ table' = Grown(rows') /\ UNCHANGED held

WorkerStep(A) == A /\ UNCHANGED <<head, rows, pc, latest, pending, running, dropped, lost>>

-----------------------------------------------------------------------------
\* Variant: without Limit.
ClaimPageUnlimited(t) ==
  /\ held[t] = {}
  /\ Claimable(table) # {}
  /\ table' = SetStatus(table, Claimable(table), PROCESSING)
  /\ held' = [held EXCEPT ![t] = Claimable(table)]
  /\ UNCHANGED faults

\* The transaction at the beginning of fetchTxs.
ClaimPage(t) ==
  /\ held[t] = {}
  /\ \E page \in Pages(Claimable(table), PageLimit) :
       /\ page # {}
       /\ table' = SetStatus(table, page, PROCESSING)
       /\ held' = [held EXCEPT ![t] = page]
  /\ UNCHANGED faults

\* The end of a row, in any order within the page: DONE; or FAIL, as it always is
\* of poison; or neither, when the update itself is lost.
EndClaimed(t) ==
  \E r \in held[t] :
    /\ held' = [held EXCEPT ![t] = @ \ {r}]
    /\ \/ BlockOf(r) \notin Poison /\ table' = SetStatus(table, {r}, DONE) /\ UNCHANGED faults
       \/ BlockOf(r) \in Poison /\ table' = SetStatus(table, {r}, FAIL) /\ UNCHANGED faults
       \/ Spend(1) /\ table' \in {table, SetStatus(table, {r}, FAIL)}

\* The worker dies and starts again: nobody holds its rows.
CrashWorker ==
  /\ \E t \in WorkerThread : held[t] # {}
  /\ Spend(1)
  /\ held' = [t \in WorkerThread |-> {}]
  /\ UNCHANGED table

HeldRows == UNION {held[t] : t \in WorkerThread}

\* The cron job: rows that nobody has touched for an hour.
ReapAbandoned ==
  /\ Abandoned(table, DOMAIN table \ HeldRows) # {}
  /\ table' = SetStatus(table, Abandoned(table, DOMAIN table \ HeldRows), FAIL)
  /\ UNCHANGED <<held, faults>>

\* A page that takes more than an hour is put back while it is worked on.
ReapSlow(t) ==
  /\ Abandoned(table, held[t]) # {}
  /\ Spend(1)
  /\ table' = SetStatus(table, Abandoned(table, held[t]), FAIL)
  /\ UNCHANGED held

-----------------------------------------------------------------------------
PipelineInit ==
  /\ Init
  /\ table = Grown(rows)
  /\ held = [t \in WorkerThread |-> {}]

ThreadStep(t) == WorkerStep(ClaimPage(t) \/ EndClaimed(t))

PipelineNext ==
  \/ MasterStep(Next)
  \/ \E t \in WorkerThread : ThreadStep(t) \/ WorkerStep(ReapSlow(t))
  \/ WorkerStep(CrashWorker) \/ WorkerStep(ReapAbandoned)

\* The fairness of the masters, of the threads, and of the cron job.
PipelineFairness ==
  /\ WF_pipelineVars(MasterStep(Advance))
  /\ \A m \in Master :
       /\ WF_pipelineVars(MasterStep(FetchCheckpoint(m)))
       /\ WF_pipelineVars(MasterStep(SaveChunk(m)))
       /\ SF_pipelineVars(MasterStep(GetLatestCheckpoint(m) /\ latest'[m] = head))
  /\ \A t \in WorkerThread : WF_pipelineVars(ThreadStep(t))
  /\ WF_pipelineVars(WorkerStep(ReapAbandoned))

PipelineSpec == PipelineInit /\ [][PipelineNext]_pipelineVars /\ PipelineFairness

-----------------------------------------------------------------------------
(***************************************************************************)
(* Properties.                                                             *)
(***************************************************************************)
PipelineTypeOK ==
  /\ DOMAIN table = UNION {{RowOf(b, i) : i \in 1 .. rows[b]} : b \in Block}
  /\ \A r \in DOMAIN table : table[r] \in Status
  /\ held \in [WorkerThread -> SUBSET DOMAIN table]
  /\ \A t \in WorkerThread : Cardinality(held[t]) <= PageLimit

(***************************************************************************)
(* Every checkpoint that gets old enough is indexed, all its rows, and     *)
(* stays so, although others fail for ever, unless the master gave it up.  *)
(* The exception: the rows that always fail fill a page (worker.go:145).   *)
(* The order of the page brings them first, so that nothing above them     *)
(* need ever be claimed.                                                   *)
(***************************************************************************)
Clogged == Cardinality({r \in DOMAIN table : BlockOf(r) \in Poison}) >= PageLimit

Indexed(b) == rows[b] > 0 /\ \A r \in DOMAIN table : BlockOf(r) = b => table[r] = DONE

EventuallyIndexed ==
  \A b \in Block \ Poison :
    b + Delay <= MaxBlock => <>[](Indexed(b) \/ b \in dropped \/ Clogged)

=============================================================================

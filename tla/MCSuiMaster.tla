---------------------------- MODULE MCSuiMaster ----------------------------
(***************************************************************************)
(* sui-master for TLC: two masters and no worker ("inserts"), or one       *)
(* master and a worker over one table ("pipeline").                        *)
(***************************************************************************)
EXTENDS CheckpointPipeline, TLC

CONSTANTS m1, m2, t1, t2

VARIABLE part

mcVars == <<pipelineVars, part>>

-----------------------------------------------------------------------------
\* The one master of the pipeline is m1, and it sees one fault.
Here(A) ==
  /\ A
  /\ UNCHANGED part
  /\ part = "pipeline" => pc'[m2] = "Idle" /\ faults' <= 1

\* A step of a master alone, or over the table of the worker.
Masters(A) == Here(IF part = "pipeline" THEN MasterStep(A) ELSE A /\ UNCHANGED <<table, held>>)

Workers(A) == part = "pipeline" /\ Here(WorkerStep(A))

MCInit == PipelineInit /\ part \in {"inserts", "pipeline"}

MCNext ==
  \/ Masters(Next)
  \/ \E t \in WorkerThread : Workers(ClaimPage(t) \/ EndClaimed(t)) \/ Workers(ReapSlow(t))
  \/ Workers(CrashWorker) \/ Workers(ReapAbandoned)

\* Fairness of SuiMaster, and of CheckpointPipeline.
MCFairness ==
  /\ WF_mcVars(Masters(Advance))
  /\ \A m \in Master :
       /\ WF_mcVars(Masters(FetchCheckpoint(m)))
       /\ WF_mcVars(Masters(SaveChunk(m)))
       /\ SF_mcVars(Masters(GetLatestCheckpoint(m) /\ latest'[m] = head))
  /\ \A t \in WorkerThread : WF_mcVars(Workers(ClaimPage(t) \/ EndClaimed(t)))
  /\ WF_mcVars(Workers(ReapAbandoned))

MCSpec == MCInit /\ [][MCNext]_mcVars /\ MCFairness

-----------------------------------------------------------------------------
\* Type correctness of the masters, and of the table where there is a worker.
TableTypeOK == TypeOK /\ (part = "pipeline" => PipelineTypeOK)

(***************************************************************************)
(* Every checkpoint that gets old enough is saved, or was given up         *)
(* (SuiMaster), and indexed where there is a worker (CheckpointPipeline).  *)
(***************************************************************************)
SavedAndIndexed == SavedOrDropped /\ (part = "pipeline" => EventuallyIndexed)

=============================================================================

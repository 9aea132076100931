---------------------------- MODULE MCSuiWorker ----------------------------
(***************************************************************************)
(* Values for model checking SuiWorker.                                    *)
(***************************************************************************)
EXTENDS SuiWorker, TLC

CONSTANTS t1, t2, p1, p2

\* Both threads in one process, so that they share the event cache.
OneProcess == (t1 :> p1) @@ (t2 :> p1)

\* One thread in each of two processes.
TwoProcesses == (t1 :> p1) @@ (t2 :> p2)

\* The first checkpoint has one chunk, every other one has two.
UnevenChunks == [r \in Row |-> IF r = 1 THEN 1 ELSE 2]

OneChunk == [r \in Row |-> 1]

=============================================================================

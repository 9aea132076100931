------------------------- MODULE MCBackfillIndexer -------------------------
(***************************************************************************)
(* Values for model checking BackfillIndexer.                              *)
(***************************************************************************)
EXTENDS BackfillIndexer

CONSTANTS t1, t2

\* The first checkpoint has two chunks, which share their objects, every other
\* one has no transactions.
TwoAndNone == [r \in Row |-> IF r = 1 THEN 2 ELSE 0]

\* Every checkpoint has two chunks, which share their objects.
TwoChunks == [r \in Row |-> 2]

=============================================================================

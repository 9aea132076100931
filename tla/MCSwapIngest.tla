---------------------------- MODULE MCSwapIngest ----------------------------
(***************************************************************************)
(* Values for model checking SwapIngest.                                   *)
(***************************************************************************)
EXTENDS SwapIngest

\* Two events of one block in different batches, and a block that comes late.
UnsortedTopic == <<3, 5, 3, 6, 6>>

\* Rows of one block apart from each other, one row beyond the range, and an
\* odd number of rows within it.
UnsortedFile == <<2, 4, 7, 4>>

ShortTopic == <<3>>
ShortFile  == <<2, 4>>

=============================================================================

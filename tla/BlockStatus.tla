---------------------------- MODULE BlockStatus ----------------------------
(***************************************************************************)
(* The block_status table of Postgres as the services use it               *)
(* (sui-indexer/internal/repo/gorm/block_status_repo.go, the scopes of     *)
(* repo/gorm_scope/block_status.go and the entity of                       *)
(* entity/block_status.go).                                                *)
(*                                                                         *)
(* A table is a function from rows to statuses.  A row is named by its     *)
(* block number, so rows are ordered as the query "ORDER BY block_number"  *)
(* orders them.  These operators are pure: the modules of the services     *)
(* hold the table as a variable and apply them to it.                      *)
(***************************************************************************)
EXTENDS Integers, FiniteSets

(***************************************************************************)
(* The values of the column "status".                                      *)
(***************************************************************************)
NOT_READY  == "NOT_READY"
PROCESSING == "PROCESSING"
DONE       == "DONE"
FAIL       == "FAIL"

Status == {NOT_READY, PROCESSING, DONE, FAIL}

\* Variant: rows in progress are offered too.
ClaimableOrTaken(table) == {r \in DOMAIN table : table[r] # DONE}

\* Variant: failed rows are not offered again.
ClaimableNew(table) == {r \in DOMAIN table : table[r] = NOT_READY}

(***************************************************************************)
(* FilterStatuses(NOT_READY, FAIL): the rows a worker may claim.           *)
(***************************************************************************)
Claimable(table) == {r \in DOMAIN table : table[r] \in {NOT_READY, FAIL}}

(***************************************************************************)
(* SortBy("block_number", "ASC") with Limit(limit): the pages a query can  *)
(* return from the rows that match.  The page is the lowest rows, and it   *)
(* is short only when the rows are exhausted.                              *)
(***************************************************************************)
Pages(rows, limit) ==
  {page \in SUBSET rows :
     /\ Cardinality(page) <= limit
     /\ Cardinality(page) < limit => page = rows
     /\ \A r \in page, s \in rows \ page : r < s}

(***************************************************************************)
(* UPDATE block_status SET status = s WHERE id IN rows.  The statement     *)
(* looks neither at the present status nor at who claimed the row.         *)
(***************************************************************************)
SetStatus(table, rows, s) ==
  [r \in DOMAIN table |-> IF r \in rows THEN s ELSE table[r]]

(***************************************************************************)
(* The rows UpdateFailedStatus matches: PROCESSING, and not updated for    *)
(* longer than the repository's threshold of one hour.                     *)
(***************************************************************************)
Abandoned(table, stale) == {r \in stale : table[r] = PROCESSING}

=============================================================================

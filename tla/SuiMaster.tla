----------------------------- MODULE SuiMaster -----------------------------
(***************************************************************************)
(* The checkpoint loop of sui-master                                       *)
(* (sui-indexer/internal/app/sui-master/master.go): every few seconds it   *)
(* asks the node for the latest checkpoint and the table for the highest   *)
(* saved block, and inserts a row for each block between them.             *)
(*                                                                         *)
(* The blocks are inserted in chunks by goroutines, a few at a time; a     *)
(* chunk whose insert fails is inserted item by item.  The table does not  *)
(* know a block twice (its only key is a random id), so rows counts the    *)
(* REALTIME rows of each block.                                            *)
(*                                                                         *)
(* A failed insert, an insert that commits while its answer is lost, and a *)
(* crash each spend a unit of the budget MaxFault.                         *)
(***************************************************************************)
EXTENDS Integers, FiniteSets

CONSTANTS
  Master,      \* sui-master processes
  MaxBlock,    \* bound: the highest checkpoint of the chain
  Delay,       \* "we delay 10 blocks from latest checkpoint"
  ChunkSize,   \* lo.Chunk(blocks, 1000)
  NumWorkers,  \* eg.SetLimit(m.numWorkers)
  MaxFault     \* bound: faults of the environment in one behaviour

ASSUME MasterAssumption ==
  /\ IsFiniteSet(Master)
  /\ MaxBlock \in Nat
  /\ Delay \in Nat
  /\ ChunkSize \in Nat \ {0}
  /\ NumWorkers \in Nat \ {0}
  /\ MaxFault \in Nat

\* Checkpoint 0 is not among them: the loop begins at savedCheckpointSeq + 1.
Block == 1 .. MaxBlock

VARIABLES
  head,     \* the latest checkpoint of the chain
  rows,     \* the number of REALTIME rows of each block
  pc,       \* where each master is in fetchCheckpoint
  latest,   \* latestCheckpointSeq of each master
  pending,  \* the blocks of each master not yet given to a goroutine
  running,  \* the goroutines of each master
  dropped,  \* history: blocks a master gave up without inserting them
  lost,     \* history: inserts of each block whose answer was lost
  faults    \* the faults spent

vars == <<head, rows, pc, latest, pending, running, dropped, lost, faults>>

(***************************************************************************)
(* A goroutine: the items of its chunk it has yet to insert, and whether   *)
(* CreateMany has failed, so that it saves them one by one.                *)
(***************************************************************************)
Goroutine == [items : SUBSET Block, saving : BOOLEAN]

Spend(n) == /\ faults + n <= MaxFault
            /\ faults' = faults + n

Saved == {b \in Block : rows[b] > 0}

\* Variant: the query has no ORDER BY.
SavedCheckpointSeqUnsorted == IF Saved = {} THEN {0} ELSE Saved

\* What "ORDER BY block_number DESC LIMIT 1" gives, 0 when there is no row.
SavedCheckpointSeq ==
  IF Saved = {} THEN {0} ELSE {b \in Saved : \A c \in Saved : c <= b}

\* The blocks in the hands of a master: planned and not yet inserted.
InHand(m) == pending[m] \cup UNION {g.items : g \in running[m]}

\* The chunk lo.Chunk cuts off next: the lowest ChunkSize blocks, or the rest.
NextChunk(blocks) ==
  {chunk \in SUBSET blocks :
     /\ Cardinality(chunk) <= ChunkSize
     /\ Cardinality(chunk) < ChunkSize => chunk = blocks
     /\ \A b \in chunk, c \in blocks \ chunk : b < c}

Inserted(blocks) == [b \in Block |-> IF b \in blocks THEN rows[b] + 1 ELSE rows[b]]

-----------------------------------------------------------------------------
\* The chain grows.
Advance ==
  /\ head < MaxBlock
  /\ head' = head + 1
  /\ UNCHANGED <<rows, pc, latest, pending, running, dropped, lost, faults>>

\* The node that answers may be behind the chain.  An error ends the round.
GetLatestCheckpoint(m) ==
  /\ pc[m] = "Idle"
  /\ \E seq \in 0 .. head : latest' = [latest EXCEPT ![m] = seq]
  /\ pc' = [pc EXCEPT ![m] = "Latest"]
  /\ UNCHANGED <<head, rows, pending, running, dropped, lost, faults>>

\* Variant: no delay, the latest checkpoint included.
PlanBlocksWithoutDelay(m) ==
  /\ pc[m] = "Latest"
  /\ \E saved \in SavedCheckpointSeq :
       LET blocks == {b \in Block : saved < b /\ b <= latest[m]}
       IN /\ pending' = [pending EXCEPT ![m] = blocks]
          /\ pc' = [pc EXCEPT ![m] = IF blocks = {} THEN "Idle" ELSE "Saving"]
  /\ UNCHANGED <<head, rows, latest, running, dropped, lost, faults>>

\* The query for the highest saved block, and the loop that lists the blocks.
PlanBlocks(m) ==
  /\ pc[m] = "Latest"
  /\ \E saved \in SavedCheckpointSeq :
       LET blocks == {b \in Block : saved < b /\ b <= latest[m] - Delay}
       IN /\ pending' = [pending EXCEPT ![m] = blocks]
          /\ pc' = [pc EXCEPT ![m] = IF blocks = {} THEN "Idle" ELSE "Saving"]
  /\ UNCHANGED <<head, rows, latest, running, dropped, lost, faults>>

\* eg.Go: the next chunk gets a goroutine as soon as fewer than the limit run.
StartChunk(m) ==
  /\ pc[m] = "Saving"
  /\ pending[m] # {}
  /\ Cardinality(running[m]) < NumWorkers
  /\ \E chunk \in NextChunk(pending[m]) :
       /\ pending' = [pending EXCEPT ![m] = @ \ chunk]
       /\ running' = [running EXCEPT ![m] = @ \cup {[items |-> chunk, saving |-> FALSE]}]
  /\ UNCHANGED <<head, rows, pc, latest, dropped, lost, faults>>

\* The goroutine g becomes one with other items left, or ends.
Proceed(m, g, items) ==
  running' = [running EXCEPT ![m] =
                (@ \ {g}) \cup IF items = {} THEN {} ELSE {[items |-> items, saving |-> TRUE]}]

\* Variant: a failed insert is logged and there is no fallback.
CreateManyOnly(m, g) ==
  /\ ~g.saving
  /\ Proceed(m, g, {})
  /\ \/ rows' = Inserted(g.items) /\ UNCHANGED faults
     \/ Spend(1) /\ UNCHANGED rows
  /\ UNCHANGED <<head, pc, latest, pending, dropped, lost>>

(***************************************************************************)
(* CreateMany, one transaction.  It succeeds; or it fails, with nothing    *)
(* inserted, or with everything inserted when only the answer was lost.    *)
(***************************************************************************)
CreateMany(m, g) ==
  /\ ~g.saving
  /\ \/ /\ rows' = Inserted(g.items)
        /\ Proceed(m, g, {})
        /\ UNCHANGED <<lost, faults>>
     \/ /\ Spend(1)
        /\ Proceed(m, g, g.items)
        /\ UNCHANGED <<rows, lost>>
     \/ /\ Spend(1)
        /\ rows' = Inserted(g.items)
        /\ lost' = [b \in Block |-> IF b \in g.items THEN lost[b] + 1 ELSE lost[b]]
        /\ Proceed(m, g, g.items)
  /\ UNCHANGED <<head, pc, latest, pending, dropped>>

\* Variant: the first Save that fails ends the goroutine.
SaveUntilError(m, g) ==
  /\ g.saving
  /\ \E b \in g.items :
       /\ \A c \in g.items : b <= c
       /\ \/ /\ rows' = Inserted({b})
             /\ Proceed(m, g, g.items \ {b})
             /\ UNCHANGED <<dropped, faults>>
          \/ /\ Spend(1)
             /\ dropped' = dropped \cup {b}
             /\ Proceed(m, g, {})
             /\ UNCHANGED rows
  /\ UNCHANGED <<head, pc, latest, pending, lost>>

\* Save of the next item, whose error is ignored.
Save(m, g) ==
  /\ g.saving
  /\ \E b \in g.items :
       /\ \A c \in g.items : b <= c
       /\ \/ /\ rows' = Inserted({b})
             /\ UNCHANGED <<dropped, faults>>
          \/ /\ Spend(1)
             /\ dropped' = dropped \cup {b}
             /\ UNCHANGED rows
       /\ Proceed(m, g, g.items \ {b})
  /\ UNCHANGED <<head, pc, latest, pending, lost>>

\* Variant: the round ends without eg.Wait.
ReturnWithoutWait(m) ==
  /\ pc[m] = "Saving"
  /\ pending[m] = {}
  /\ pc' = [pc EXCEPT ![m] = "Idle"]
  /\ UNCHANGED <<head, rows, latest, pending, running, dropped, lost, faults>>

\* eg.Wait; the loop sleeps and starts again.
Return(m) ==
  /\ pc[m] = "Saving"
  /\ InHand(m) = {}
  /\ running[m] = {}
  /\ pc' = [pc EXCEPT ![m] = "Idle"]
  /\ UNCHANGED <<head, rows, latest, pending, running, dropped, lost, faults>>

\* The process dies and starts again: what it had in hand is given up.
Crash(m) ==
  /\ pc[m] # "Idle"
  /\ Spend(1)
  /\ dropped' = dropped \cup InHand(m)
  /\ pc' = [pc EXCEPT ![m] = "Idle"]
  /\ pending' = [pending EXCEPT ![m] = {}]
  /\ running' = [running EXCEPT ![m] = {}]
  /\ UNCHANGED <<head, rows, latest, lost>>

-----------------------------------------------------------------------------
Init ==
  /\ head = 0
  /\ rows = [b \in Block |-> 0]
  /\ pc = [m \in Master |-> "Idle"]
  /\ latest = [m \in Master |-> 0]
  /\ pending = [m \in Master |-> {}]
  /\ running = [m \in Master |-> {}]
  /\ dropped = {}
  /\ lost = [b \in Block |-> 0]
  /\ faults = 0

FetchCheckpoint(m) ==
  \/ GetLatestCheckpoint(m)
  \/ PlanBlocks(m)
  \/ StartChunk(m)
  \/ Return(m)

SaveChunk(m) == \E g \in running[m] : CreateMany(m, g) \/ Save(m, g)

Next ==
  \/ Advance
  \/ \E m \in Master : FetchCheckpoint(m) \/ SaveChunk(m) \/ Crash(m)

Spec == Init /\ [][Next]_vars

\* The chain goes on, the loop and its goroutines are scheduled, and sooner
\* or later a node answers with the latest checkpoint it is asked for.
Fairness ==
  /\ WF_vars(Advance)
  /\ \A m \in Master : /\ WF_vars(FetchCheckpoint(m))
                       /\ WF_vars(SaveChunk(m))
                       /\ SF_vars(GetLatestCheckpoint(m) /\ latest'[m] = head)

FairSpec == Spec /\ Fairness

-----------------------------------------------------------------------------
(***************************************************************************)
(* Properties.                                                             *)
(***************************************************************************)
TypeOK ==
  /\ head \in 0 .. MaxBlock
  /\ rows \in [Block -> Nat]
  /\ pc \in [Master -> {"Idle", "Latest", "Saving"}]
  /\ latest \in [Master -> 0 .. MaxBlock]
  /\ pending \in [Master -> SUBSET Block]
  /\ running \in [Master -> SUBSET Goroutine]
  /\ \A m \in Master : pc[m] # "Saving" => pending[m] = {} /\ running[m] = {}
  /\ dropped \subseteq Block
  /\ lost \in [Block -> Nat]
  /\ faults \in 0 .. MaxFault

(***************************************************************************)
(* The loop resumes at the highest saved block, so nothing below that      *)
(* block is ever planned again.  All the same, a hole below it is always   *)
(* somebody's work in progress or the trace of a failed Save or a crash:   *)
(* concurrent chunks that commit in any order, lagging nodes and several   *)
(* masters never make a hole on their own.                                 *)
(***************************************************************************)
HolesExplained ==
  \A b, c \in Block :
     rows[c] > 0 /\ b < c /\ rows[b] = 0 =>
        b \in dropped \/ \E m \in Master : b \in InHand(m)

(***************************************************************************)
(* A row exists only for a checkpoint at least Delay behind the chain,     *)
(* even when it was planned from an old answer and saved by the fallback.  *)
(***************************************************************************)
DelayKept == \A b \in Saved : b + Delay <= head

(***************************************************************************)
(* Copies of a block come from nowhere but several masters and lost        *)
(* answers: a master that crashes, retries or resumes never inserts a      *)
(* block again.                                                            *)
(***************************************************************************)
CopiesBounded == \A b \in Block : rows[b] <= Cardinality(Master) + lost[b]

(***************************************************************************)
(* Every checkpoint that gets old enough is saved, or was given up.        *)
(***************************************************************************)
SavedOrDropped ==
  \A b \in Block : b + Delay <= MaxBlock => <>(rows[b] > 0 \/ b \in dropped)

(***************************************************************************)
(* What the README of the indexer says of the master: it is responsible    *)
(* for saving the checkpoints of the chain into the database.  The code    *)
(* does not come back for a block it has passed.                           *)
(***************************************************************************)
EveryCheckpointSaved ==
  \A b \in Block : b + Delay <= MaxBlock => <>(rows[b] > 0)

=============================================================================

---------------------- MODULE CheckpointPipelineProofs ----------------------
(***************************************************************************)
(* Theorems about masters, worker and cron job over one table: what        *)
(* SuiMasterProofs shows of the masters stays true beside them, and the    *)
(* table has the rows of the masters and no other.                         *)
(***************************************************************************)
EXTENDS MCSuiMaster, SuiMasterProofs, FiniteSetTheorems

\* The rows that the masters have inserted of a block, and of all of them.
RowsOf(counts, b) == {RowOf(b, i) : i \in 1 .. counts[b]}

AllRows(counts) == UNION {RowsOf(counts, b) : b \in Block}

\* Strengthens PipelineTypeOK by that of the masters.
PipelineInv == MasterInv /\ PipelineTypeOK

-----------------------------------------------------------------------------
\* A step that changes nothing of the masters but the fault budget keeps their invariant.
LEMMA BesideMasters ==
  ASSUME MasterInv, UNCHANGED <<head, rows, pc, latest, pending, running, dropped, lost>>,
         faults' = faults \/ Spend(1)
  PROVE  MasterInv'
  <1>0. TypeOK /\ DelayInv
    BY DEF MasterInv
  <1>1. faults' \in 0 .. MaxFault
    BY <1>0, MasterAssumption DEF TypeOK, Spend
  <1>2. TypeOK'
    BY <1>0, <1>1 DEF TypeOK
  <1>3. \A m, b : b \in InHand(m)' <=> b \in InHand(m)
    BY InHandMember, InHandMemberNext
  <1>4. \A b \in Block : (Reached(b)' => Reached(b)) /\ (Excused(b) => Excused(b)')
    BY <1>3 DEF Reached, Excused
  <1>5. head <= head' /\ \A m \in Master : latest'[m] <= head'
    BY <1>0 DEF DelayInv, TypeOK
  <1>6. QED BY <1>2, <1>4, <1>5, HandsKept

\* The masters never take a row away.
LEMMA RowsGrow ==
  ASSUME TypeOK, Next
  PROVE  \A b \in Block : rows'[b] >= rows[b]
  <1>1. ASSUME NEW m \in Master, NEW g \in running[m], CreateMany(m, g) \/ Save(m, g)
        PROVE  rows' = rows \/ \E blocks \in SUBSET Block : rows' = Inserted(blocks)
    <2>1. g.items \subseteq Block
      BY DEF TypeOK, Goroutine
    <2>2. QED BY <1>1, <2>1 DEF CreateMany, Save
  <1>2. rows' = rows \/ \E blocks \in SUBSET Block : rows' = Inserted(blocks)
    BY <1>1 DEF Next, Advance, FetchCheckpoint, GetLatestCheckpoint, PlanBlocks, StartChunk,
                Return, SaveChunk, Crash
  <1>3. QED BY <1>2, InsertedType DEF TypeOK

\* The rows are finitely many.
LEMMA RowsFinite ==
  ASSUME NEW counts \in [Block -> Nat]
  PROVE  IsFiniteSet(AllRows(counts))
  <1>1. ASSUME NEW b \in Block
        PROVE  IsFiniteSet(RowsOf(counts, b))
    <2> DEFINE f == [i \in 1 .. counts[b] |-> RowOf(b, i)]
    <2>1. f \in Surjection(1 .. counts[b], RowsOf(counts, b))
      BY DEF Surjection, RowsOf
    <2>2. IsFiniteSet(1 .. counts[b])
      BY FS_Interval
    <2>3. QED BY <2>1, <2>2, FS_Surjection
  <1> DEFINE sets == {RowsOf(counts, b) : b \in Block}
             g == [b \in Block |-> RowsOf(counts, b)]
  <1>2. g \in Surjection(Block, sets)
    BY DEF Surjection
  <1>3. IsFiniteSet(Block)
    BY FS_Interval, MasterAssumption DEF Block
  <1>4. IsFiniteSet(sets)
    BY <1>2, <1>3, FS_Surjection
  <1>5. IsFiniteSet(UNION sets)
    BY <1>1, <1>4, FS_UNION
  <1>6. QED BY <1>5 DEF AllRows

\* After the masters insert, there is a status for each row and for nothing else.
LEMMA GrownTable ==
  ASSUME NEW counts, \A r \in DOMAIN table : table[r] \in Status
  PROVE  /\ DOMAIN Grown(counts) = AllRows(counts)
         /\ \A r \in DOMAIN Grown(counts) : Grown(counts)[r] \in Status
  BY DEF Grown, AllRows, RowsOf, Status

\* A status update keeps the rows.
LEMMA SetStatusTable ==
  ASSUME \A r \in DOMAIN table : table[r] \in Status, NEW set, NEW s \in Status
  PROVE  /\ DOMAIN SetStatus(table, set, s) = DOMAIN table
         /\ \A r \in DOMAIN table : SetStatus(table, set, s)[r] \in Status
  BY DEF SetStatus

\* With more rows of each block there are more rows.
LEMMA AllRowsMonotone ==
  ASSUME NEW few \in [Block -> Nat], NEW many \in [Block -> Nat],
         \A b \in Block : many[b] >= few[b]
  PROVE  AllRows(few) \subseteq AllRows(many)
  <1>1. ASSUME NEW b \in Block
        PROVE  RowsOf(few, b) \subseteq RowsOf(many, b)
    <2>1. 1 .. few[b] \subseteq 1 .. many[b]
      OBVIOUS
    <2>2. QED BY <2>1 DEF RowsOf
  <1>2. QED BY <1>1 DEF AllRows

-----------------------------------------------------------------------------
\* What a worker or the cron job does to the table.
LEMMA WorkerKept ==
  ASSUME PipelineInv,
         UNCHANGED <<head, rows, pc, latest, pending, running, dropped, lost>>,
         faults' = faults \/ Spend(1),
         table' = table \/ \E set : \E s \in Status : table' = SetStatus(table, set, s),
         held' \in [WorkerThread -> SUBSET DOMAIN table],
         \A t \in WorkerThread : Cardinality(held'[t]) <= PageLimit
  PROVE  PipelineInv'
  <1>1. MasterInv'
    BY BesideMasters DEF PipelineInv
  <1>2. DOMAIN table' = DOMAIN table /\ \A r \in DOMAIN table' : table'[r] \in Status
    BY SetStatusTable DEF PipelineInv, PipelineTypeOK
  <1>3. QED BY <1>1, <1>2 DEF PipelineInv, PipelineTypeOK

\* A page that has lost a row is no longer than before.
LEMMA PageShrinks ==
  ASSUME PipelineInv, NEW t \in WorkerThread, NEW r
  PROVE  Cardinality(held[t] \ {r}) <= PageLimit
  <1>1. held[t] \subseteq AllRows(rows) /\ Cardinality(held[t]) <= PageLimit
    BY DEF PipelineInv, PipelineTypeOK, AllRows, RowsOf
  <1>2. IsFiniteSet(held[t])
    BY <1>1, RowsFinite, FS_Subset DEF PipelineInv, MasterInv, TypeOK
  <1>3. Cardinality(held[t] \ {r}) <= Cardinality(held[t])
    BY <1>2, FS_Subset
  <1>4. Cardinality(held[t]) \in Nat /\ Cardinality(held[t] \ {r}) \in Nat
    BY <1>2, FS_Subset, FS_CardinalityType
  <1>5. QED BY <1>1, <1>3, <1>4, PipelineAssumption

\* At first there are no rows.
LEMMA PipelineInvInit == PipelineInit => PipelineInv
  <1> SUFFICES ASSUME PipelineInit PROVE PipelineInv
    OBVIOUS
  <1>1. MasterInv
    BY MasterInvInit DEF PipelineInit
  <1>2. DOMAIN table = AllRows(rows) /\ \A r \in DOMAIN table : table[r] \in Status
    <2>1. AllRows(rows) = {}
      BY MasterAssumption DEF PipelineInit, Init, AllRows, RowsOf, Block
    <2>2. DOMAIN table = {}
      BY <2>1 DEF PipelineInit, Grown, AllRows, RowsOf
    <2>3. QED BY <2>1, <2>2
  <1>3. \A t \in WorkerThread : Cardinality(held[t]) <= PageLimit
    BY FS_EmptySet, PipelineAssumption DEF PipelineInit
  <1>4. QED BY <1>1, <1>2, <1>3 DEF PipelineInit, PipelineInv, PipelineTypeOK, AllRows, RowsOf

\* PipelineInv is inductive.
LEMMA PipelineInvStep == PipelineInv /\ [PipelineNext]_pipelineVars => PipelineInv'
  <1> SUFFICES ASSUME PipelineInv, [PipelineNext]_pipelineVars PROVE PipelineInv'
    OBVIOUS
  <1> USE DEF PipelineInv
  <1>0. held \in [WorkerThread -> SUBSET DOMAIN table]
        /\ \A t \in WorkerThread : Cardinality(held[t]) <= PageLimit
    BY DEF PipelineTypeOK
  <1>1. CASE MasterStep(Next)
    <2>1. MasterInv'
      BY <1>1, MasterInvStep DEF MasterStep
    <2>2. DOMAIN table' = AllRows(rows') /\ \A r \in DOMAIN table' : table'[r] \in Status
      BY <1>1, GrownTable DEF MasterStep, PipelineTypeOK
    <2>3. DOMAIN table \subseteq DOMAIN table'
      <3>1. \A b \in Block : rows'[b] >= rows[b]
        BY <1>1, RowsGrow DEF MasterStep, MasterInv
      <3>2. rows \in [Block -> Nat] /\ rows' \in [Block -> Nat]
        BY <2>1 DEF MasterInv, TypeOK
      <3>3. QED BY <2>2, <3>1, <3>2, AllRowsMonotone DEF PipelineTypeOK, AllRows, RowsOf
    <2>4. held' = held
      BY <1>1 DEF MasterStep
    <2>5. held' \in [WorkerThread -> SUBSET DOMAIN table']
      BY <1>0, <2>3, <2>4
    <2>6. QED BY <1>0, <2>1, <2>2, <2>4, <2>5 DEF PipelineTypeOK, AllRows, RowsOf
  <1>2. ASSUME NEW t \in WorkerThread, WorkerStep(ClaimPage(t)) PROVE PipelineInv'
    <2>1. PICK page \in SUBSET DOMAIN table :
            /\ Cardinality(page) <= PageLimit
            /\ table' = SetStatus(table, page, PROCESSING)
            /\ held' = [held EXCEPT ![t] = page]
      BY <1>2 DEF WorkerStep, ClaimPage, Pages, Claimable
    <2>2. held' \in [WorkerThread -> SUBSET DOMAIN table]
          /\ \A u \in WorkerThread : Cardinality(held'[u]) <= PageLimit
      BY <1>0, <2>1
    <2>3. QED BY <1>2, <2>1, <2>2, WorkerKept DEF WorkerStep, ClaimPage, Status
  <1>3. ASSUME NEW t \in WorkerThread, WorkerStep(EndClaimed(t)) PROVE PipelineInv'
    <2>1. PICK r \in held[t] :
            /\ held' = [held EXCEPT ![t] = @ \ {r}]
            /\ faults' = faults \/ Spend(1)
            /\ table' = table \/ \E s \in {DONE, FAIL} : table' = SetStatus(table, {r}, s)
      BY <1>3 DEF WorkerStep, EndClaimed
    <2>2. held' \in [WorkerThread -> SUBSET DOMAIN table]
          /\ \A u \in WorkerThread : Cardinality(held'[u]) <= PageLimit
      BY <1>0, <2>1, PageShrinks
    <2>3. QED BY <1>3, <2>1, <2>2, WorkerKept DEF WorkerStep, Status
  <1>4. ASSUME NEW t \in WorkerThread, WorkerStep(ReapSlow(t)) PROVE PipelineInv'
    BY <1>0, <1>4, WorkerKept DEF WorkerStep, ReapSlow, Status
  <1>5. CASE WorkerStep(CrashWorker)
    <2>1. held' = [t \in WorkerThread |-> {}] /\ Cardinality({}) <= PageLimit
      BY <1>5, FS_EmptySet, PipelineAssumption DEF WorkerStep, CrashWorker
    <2>2. QED BY <1>5, <2>1, WorkerKept DEF WorkerStep, CrashWorker
  <1>6. CASE WorkerStep(ReapAbandoned)
    BY <1>0, <1>6, WorkerKept DEF WorkerStep, ReapAbandoned, Status
  <1>7. CASE UNCHANGED pipelineVars
    BY <1>0, <1>7, WorkerKept DEF pipelineVars, vars
  <1>8. QED BY <1>1, <1>2, <1>3, <1>4, <1>5, <1>6, <1>7 DEF PipelineNext, ThreadStep, WorkerStep

(***************************************************************************)
(* The table has the rows of the masters and no other, each with a status, *)
(* and no thread holds more than a page (worker.go:145).                   *)
(***************************************************************************)
THEOREM PipelineTypeCorrect == PipelineSpec => []PipelineTypeOK
  <1>1. PipelineInv => PipelineTypeOK
    BY DEF PipelineInv
  <1>2. QED BY <1>1, PipelineInvInit, PipelineInvStep, PTL DEF PipelineSpec

(***************************************************************************)
(* Beside a worker that claims, ends and loses the rows, and a cron job    *)
(* that puts them back, a hole is still what SuiMaster says it is: being   *)
(* filled, or given up by a failed Save or a crash of the master           *)
(* (master.go:132).  Nothing that happens to a row makes a hole.           *)
(***************************************************************************)
THEOREM PipelineHolesSafe == PipelineSpec => []HolesExplained
  <1>1. PipelineInv => HolesExplained
    BY DEF PipelineInv, MasterInv, HolesInv, HolesExplained, Reached, Excused
  <1>2. QED BY <1>1, PipelineInvInit, PipelineInvStep, PTL DEF PipelineSpec

-----------------------------------------------------------------------------
(***************************************************************************)
(* Masters alone, or one of them with a worker, as MCSuiMaster has them.   *)
(***************************************************************************)
\* The masters keep their invariant in either part, and the table its types where
\* there is a worker.
PartsInv == MasterInv /\ (part = "pipeline" => PipelineTypeOK)

LEMMA PartsInvStep == PartsInv /\ [MCNext]_mcVars => PartsInv'
  <1> SUFFICES ASSUME PartsInv, [MCNext]_mcVars PROVE PartsInv'
    OBVIOUS
  <1>1. part' = part
    BY DEF MCNext, Masters, Workers, Here, mcVars
  <1>2. CASE part = "pipeline"
    <2>1. [PipelineNext]_pipelineVars
      <3>1. ASSUME NEW t \in WorkerThread, Workers(ClaimPage(t) \/ EndClaimed(t)) \/ Workers(ReapSlow(t))
            PROVE  PipelineNext
        BY <3>1 DEF Workers, Here, PipelineNext, ThreadStep, WorkerStep
      <3>2. Masters(Next) => PipelineNext
        BY <1>2 DEF Masters, Here, PipelineNext
      <3>3. Workers(CrashWorker) \/ Workers(ReapAbandoned) => PipelineNext
        BY DEF Workers, Here, PipelineNext
      <3>4. UNCHANGED mcVars => UNCHANGED pipelineVars
        BY DEF mcVars
      <3>5. QED BY <3>1, <3>2, <3>3, <3>4 DEF MCNext
    <2>2. PipelineInv'
      BY <1>2, <2>1, PipelineInvStep DEF PartsInv, PipelineInv
    <2>3. QED BY <2>2 DEF PartsInv, PipelineInv
  <1>3. CASE part # "pipeline"
    <2>1. [Next]_vars
      <3>1. Masters(Next) => Next
        BY <1>3 DEF Masters, Here
      <3>2. UNCHANGED mcVars => UNCHANGED vars
        BY DEF mcVars, pipelineVars
      <3>3. QED BY <1>3, <3>1, <3>2 DEF MCNext, Workers
    <2>2. MasterInv'
      BY <2>1, MasterInvStep DEF PartsInv
    <2>3. QED BY <1>1, <1>3, <2>2 DEF PartsInv
  <1>4. QED BY <1>2, <1>3

(***************************************************************************)
(* In what TLC checks of the masters, with a worker over their table or    *)
(* without, they keep their types, the table has their rows and no other,  *)
(* and no thread more than a page: whatever the masters and the bounds of  *)
(* faults in either part.                                                  *)
(***************************************************************************)
THEOREM TableTypeCorrect == MCSpec => []TableTypeOK
  <1>1. MCInit => PartsInv
    BY PipelineInvInit DEF MCInit, PartsInv, PipelineInv
  <1>2. PartsInv => TableTypeOK
    BY DEF PartsInv, MasterInv, TableTypeOK
  <1>3. QED BY <1>1, <1>2, PartsInvStep, PTL DEF MCSpec

=============================================================================

-------------------------- MODULE SuiMasterProofs --------------------------
(***************************************************************************)
(* Theorems about SuiMaster for any number of masters, chunk size, number  *)
(* of goroutines, delay, chain length and fault budget.                    *)
(***************************************************************************)
EXTENDS SuiMaster, FiniteSetTheorems, TLAPS

\* Saved, or somebody's work in progress.
Reached(b) == rows[b] > 0 \/ \E m \in Master : b \in InHand(m)

\* A hole is excused when it was given up or is still being worked on.
Excused(b) == b \in dropped \/ \E m \in Master : b \in InHand(m)

\* Strengthens HolesExplained: work in progress has excused holes below it
\* too, because it is inserted in any order.
HolesInv ==
  \A b, c \in Block : Reached(c) /\ b < c /\ rows[b] = 0 => Excused(b)

\* Strengthens DelayKept.
DelayInv == /\ \A m \in Master : latest[m] <= head
            /\ \A b \in Block : Reached(b) => b + Delay <= head

MasterInv == TypeOK /\ HolesInv /\ DelayInv

-----------------------------------------------------------------------------
\* Membership in what a master has in hand.
LEMMA InHandMember ==
  ASSUME NEW m, NEW b
  PROVE  b \in InHand(m) <=> b \in pending[m] \/ \E g \in running[m] : b \in g.items
  BY DEF InHand

\* The same in the next state.
LEMMA InHandMemberNext ==
  ASSUME NEW m, NEW b
  PROVE  b \in InHand(m)' <=> b \in pending'[m] \/ \E g \in running'[m] : b \in g.items
  BY DEF InHand

\* Inserting adds one row to each of the blocks.
LEMMA InsertedType ==
  ASSUME TypeOK, NEW blocks
  PROVE  /\ Inserted(blocks) \in [Block -> Nat]
         /\ \A b \in Block : Inserted(blocks)[b] = IF b \in blocks THEN rows[b] + 1 ELSE rows[b]
  BY DEF Inserted, TypeOK

\* What a goroutine does with its items: those it no longer has were
\* inserted or given up, and nobody else's work changes.
LEMMA ProceedHand ==
  ASSUME TypeOK, NEW m \in Master, NEW g \in running[m],
         NEW items \in SUBSET g.items, Proceed(m, g, items), UNCHANGED pending
  PROVE  /\ running' \in [Master -> SUBSET Goroutine]
         /\ \A n \in Master : \A b : b \in InHand(n)' => b \in InHand(n)
         /\ \A n \in Master : \A b : b \in InHand(n) => b \in InHand(n)' \/ b \in g.items \ items
         /\ \A n \in Master : running[n] = {} => running'[n] = {}
  <1> DEFINE rest == IF items = {} THEN {} ELSE {[items |-> items, saving |-> TRUE]}
  <1>1. running' = [running EXCEPT ![m] = (@ \ {g}) \cup rest]
    BY DEF Proceed
  <1>2. g \in Goroutine /\ rest \in SUBSET Goroutine
    BY DEF TypeOK, Goroutine
  <1>3. running' \in [Master -> SUBSET Goroutine]
    BY <1>1, <1>2 DEF TypeOK
  <1>4. /\ \A n \in Master : n # m => running'[n] = running[n]
        /\ running'[m] = (running[m] \ {g}) \cup rest
    BY <1>1 DEF TypeOK
  <1>5. \A h \in rest : h.items = items
    OBVIOUS
  <1>6. \A b \in items : \E h \in rest : b \in h.items
    OBVIOUS
  <1> HIDE DEF rest
  <1>7. ASSUME NEW n \in Master, NEW b, b \in InHand(n)'
        PROVE  b \in InHand(n)
    <2>1. CASE n = m
      BY <2>1, <1>4, <1>5, <1>7, InHandMember, InHandMemberNext
    <2>2. CASE n # m
      BY <2>2, <1>4, <1>7, InHandMember, InHandMemberNext
    <2>3. QED BY <2>1, <2>2
  <1>8. ASSUME NEW n \in Master, NEW b, b \in InHand(n)
        PROVE  b \in InHand(n)' \/ b \in g.items \ items
    <2>1. CASE n = m
      BY <2>1, <1>4, <1>6, <1>8, InHandMember, InHandMemberNext
    <2>2. CASE n # m
      BY <2>2, <1>4, <1>8, InHandMember, InHandMemberNext
    <2>3. QED BY <2>1, <2>2
  <1>9. \A n \in Master : running[n] = {} => running'[n] = {}
    BY <1>4
  <1>10. QED BY <1>3, <1>7, <1>8, <1>9

\* Steps that plan no block, and leave every hole with its excuse.
LEMMA HandsKept ==
  ASSUME MasterInv, TypeOK', head <= head', \A m \in Master : latest'[m] <= head',
         \A b \in Block : Reached(b)' => Reached(b),
         \A b \in Block : rows'[b] = 0 => rows[b] = 0 /\ (Excused(b) => Excused(b)')
  PROVE  MasterInv'
  <1>1. HolesInv'
    BY DEF MasterInv, HolesInv
  <1>2. \A b \in Block : Reached(b)' => b + Delay <= head'
    BY MasterAssumption DEF MasterInv, DelayInv, TypeOK, Block
  <1>3. QED BY <1>1, <1>2 DEF MasterInv, DelayInv

-----------------------------------------------------------------------------
\* Planning: the blocks above the highest saved one, up to Delay behind.
LEMMA PlanBlocksKept ==
  ASSUME MasterInv, NEW m \in Master, PlanBlocks(m)
  PROVE  MasterInv'
  <1>0. TypeOK /\ HolesInv /\ DelayInv
    BY DEF MasterInv
  <1>1. PICK saved \in SavedCheckpointSeq :
           LET blocks == {b \in Block : saved < b /\ b <= latest[m] - Delay}
           IN /\ pending' = [pending EXCEPT ![m] = blocks]
              /\ pc' = [pc EXCEPT ![m] = IF blocks = {} THEN "Idle" ELSE "Saving"]
    BY DEF PlanBlocks
  <1> DEFINE blocks == {b \in Block : saved < b /\ b <= latest[m] - Delay}
  <1>2. /\ UNCHANGED <<head, rows, latest, running, dropped, lost, faults>>
        /\ pc[m] = "Latest"
    BY DEF PlanBlocks
  <1>3. pending[m] = {} /\ running[m] = {}
    BY <1>0, <1>2 DEF TypeOK
  <1>4. /\ pending'[m] = blocks
        /\ \A n \in Master \ {m} : pending'[n] = pending[n] /\ pc'[n] = pc[n]
        /\ pc'[m] = IF blocks = {} THEN "Idle" ELSE "Saving"
    BY <1>0, <1>1 DEF TypeOK
  <1>5. TypeOK'
    <2>1. /\ pending' \in [Master -> SUBSET Block]
          /\ pc' \in [Master -> {"Idle", "Latest", "Saving"}]
      BY <1>0, <1>1 DEF TypeOK
    <2>2. \A n \in Master : pc'[n] # "Saving" => pending'[n] = {} /\ running'[n] = {}
      BY <1>0, <1>2, <1>3, <1>4 DEF TypeOK
    <2>3. QED BY <1>0, <1>2, <2>1, <2>2 DEF TypeOK
  <1>6. saved \in Nat /\ (saved \in Block => rows[saved] > 0) /\ (saved # 0 => saved \in Block)
    BY MasterAssumption DEF SavedCheckpointSeq, Saved, Block
  <1>7. \A n \in Master \ {m} : \A b : b \in InHand(n)' <=> b \in InHand(n)
    BY <1>2, <1>4, InHandMember, InHandMemberNext
  <1>8. /\ \A b : b \in InHand(m)' <=> b \in blocks
        /\ \A b : b \notin InHand(m)
    BY <1>2, <1>3, <1>4, InHandMember, InHandMemberNext
  <1>9. \A b \in Block : /\ Excused(b) => Excused(b)'
                         /\ Reached(b)' => Reached(b) \/ b \in blocks
    BY <1>2, <1>7, <1>8 DEF Excused, Reached
  <1>10. HolesInv'
    <2> SUFFICES ASSUME NEW b \in Block, NEW c \in Block,
                        Reached(c)', b < c, rows'[b] = 0
                 PROVE  Excused(b)'
      BY DEF HolesInv
    <2>1. CASE Reached(c)
      BY <2>1, <1>0, <1>2, <1>9 DEF HolesInv
    <2>2. CASE c \in blocks /\ saved < b
      <3>1. b \in blocks
        BY <2>2, <1>0, MasterAssumption DEF Block, TypeOK
      <3>2. QED BY <3>1, <1>8 DEF Excused
    <2>3. CASE c \in blocks /\ ~(saved < b)
      <3>1. saved \in Block /\ rows[saved] > 0 /\ b < saved
        BY <2>3, <1>2, <1>6 DEF Block
      <3>2. Excused(b)
        BY <3>1, <1>0, <1>2 DEF HolesInv, Reached
      <3>3. QED BY <3>2, <1>9
    <2>4. QED BY <2>1, <2>2, <2>3, <1>9
  <1>11. DelayInv'
    <2> SUFFICES ASSUME NEW b \in Block, Reached(b)'
                 PROVE  b + Delay <= head
      BY <1>0, <1>2 DEF DelayInv
    <2>1. CASE Reached(b)
      BY <2>1, <1>0 DEF DelayInv
    <2>2. CASE b \in blocks
      BY <2>2, <1>0, MasterAssumption DEF DelayInv, TypeOK, Block
    <2>3. QED BY <2>1, <2>2, <1>9
  <1>12. QED BY <1>5, <1>10, <1>11 DEF MasterInv

\* Starting a goroutine: the blocks change hands within the master.
LEMMA StartChunkKept ==
  ASSUME MasterInv, NEW m \in Master, StartChunk(m)
  PROVE  MasterInv'
  <1>0. TypeOK
    BY DEF MasterInv
  <1>1. PICK chunk \in SUBSET pending[m] :
           /\ pending' = [pending EXCEPT ![m] = @ \ chunk]
           /\ running' = [running EXCEPT ![m] = @ \cup {[items |-> chunk, saving |-> FALSE]}]
    BY DEF StartChunk, NextChunk
  <1>2. UNCHANGED <<head, rows, pc, latest, dropped, lost, faults>> /\ pc[m] = "Saving"
    BY DEF StartChunk
  <1> DEFINE new == [items |-> chunk, saving |-> FALSE]
  <1>3. new \in Goroutine /\ new.items = chunk
    BY <1>0 DEF TypeOK, Goroutine
  <1>4. /\ \A n \in Master \ {m} : pending'[n] = pending[n] /\ running'[n] = running[n]
        /\ pending'[m] = pending[m] \ chunk
        /\ running'[m] = running[m] \cup {new}
    BY <1>0, <1>1 DEF TypeOK
  <1> HIDE DEF new
  <1>5. TypeOK'
    <2>1. /\ pending' \in [Master -> SUBSET Block]
          /\ running' \in [Master -> SUBSET Goroutine]
      BY <1>0, <1>1, <1>3 DEF TypeOK, new
    <2>2. \A n \in Master : pc'[n] # "Saving" => pending'[n] = {} /\ running'[n] = {}
      BY <1>0, <1>2, <1>4 DEF TypeOK
    <2>3. QED BY <1>0, <1>2, <2>1, <2>2 DEF TypeOK
  <1>6. ASSUME NEW n \in Master, NEW b
        PROVE  b \in InHand(n)' <=> b \in InHand(n)
    <2>1. CASE n = m
      BY <2>1, <1>3, <1>4, InHandMember, InHandMemberNext
    <2>2. CASE n # m
      BY <2>2, <1>4, InHandMember, InHandMemberNext
    <2>3. QED BY <2>1, <2>2
  <1>7. \A b \in Block : /\ Reached(b)' => Reached(b)
                         /\ Excused(b) => Excused(b)'
    BY <1>2, <1>6 DEF Reached, Excused
  <1>8. \A n \in Master : latest'[n] <= head' /\ head <= head'
    BY <1>0, <1>2 DEF MasterInv, DelayInv, TypeOK
  <1>9. QED BY <1>2, <1>5, <1>7, <1>8, HandsKept DEF MasterInv, DelayInv, TypeOK

\* The steps of a goroutine.
LEMMA SaveChunkKept ==
  ASSUME MasterInv, NEW m \in Master, NEW g \in running[m],
         CreateMany(m, g) \/ Save(m, g)
  PROVE  MasterInv'
  <1>0. TypeOK /\ g \in Goroutine /\ m \in Master /\ DelayInv
    BY DEF MasterInv, TypeOK
  <1>1. \E items \in SUBSET g.items :
          /\ Proceed(m, g, items)
          /\ rows' = rows \/ \E blocks \in SUBSET g.items : rows' = Inserted(blocks)
          /\ \A b \in g.items \ items : b \in dropped' \/ rows' = Inserted(g.items \ items)
          /\ dropped \subseteq dropped' /\ dropped' \subseteq dropped \cup g.items
    <2>1. CASE CreateMany(m, g)
      <3>1. g.items \ {} = g.items
        OBVIOUS
      <3>2. \/ Proceed(m, g, {}) /\ rows' = Inserted(g.items)
            \/ Proceed(m, g, g.items) /\ (rows' = rows \/ rows' = Inserted(g.items))
        BY <2>1 DEF CreateMany
      <3>3. dropped' = dropped
        BY <2>1 DEF CreateMany
      <3>4. CASE Proceed(m, g, {}) /\ rows' = Inserted(g.items)
        BY <3>1, <3>3, <3>4
      <3>5. CASE Proceed(m, g, g.items) /\ (rows' = rows \/ rows' = Inserted(g.items))
        BY <3>3, <3>5
      <3>6. QED BY <3>2, <3>4, <3>5
    <2>2. CASE Save(m, g)
      <3>1. PICK b \in g.items :
              /\ \/ rows' = Inserted({b}) /\ dropped' = dropped
                 \/ rows' = rows /\ dropped' = dropped \cup {b}
              /\ Proceed(m, g, g.items \ {b})
        BY <2>2 DEF Save
      <3>2. g.items \ (g.items \ {b}) = {b}
        OBVIOUS
      <3>3. QED BY <3>1, <3>2
    <2>3. QED BY <2>1, <2>2
  <1>2. PICK items \in SUBSET g.items :
          /\ Proceed(m, g, items)
          /\ rows' = rows \/ \E blocks \in SUBSET g.items : rows' = Inserted(blocks)
          /\ \A b \in g.items \ items : b \in dropped' \/ rows' = Inserted(g.items \ items)
          /\ dropped \subseteq dropped' /\ dropped' \subseteq dropped \cup g.items
    BY <1>1
  <1>3. /\ UNCHANGED <<head, pc, latest, pending>>
        /\ lost' = lost \/ lost' = [b \in Block |-> IF b \in g.items THEN lost[b] + 1 ELSE lost[b]]
        /\ faults' = faults \/ Spend(1)
    BY DEF CreateMany, Save
  <1>4. /\ running' \in [Master -> SUBSET Goroutine]
        /\ \A n \in Master : \A b : b \in InHand(n)' => b \in InHand(n)
        /\ \A n \in Master : \A b : b \in InHand(n) => b \in InHand(n)' \/ b \in g.items \ items
        /\ \A n \in Master : running[n] = {} => running'[n] = {}
    BY <1>0, <1>2, <1>3, ProceedHand
  <1>5. TypeOK'
    <2>1. rows' \in [Block -> Nat] /\ lost' \in [Block -> Nat]
      BY <1>0, <1>2, <1>3, InsertedType DEF TypeOK
    <2>2. dropped' \subseteq Block /\ faults' \in 0 .. MaxFault
      BY <1>0, <1>2, <1>3, MasterAssumption DEF TypeOK, Goroutine, Spend
    <2>3. \A n \in Master : pc'[n] # "Saving" => pending'[n] = {} /\ running'[n] = {}
      BY <1>0, <1>3, <1>4 DEF TypeOK
    <2>4. QED BY <1>0, <1>3, <1>4, <2>1, <2>2, <2>3 DEF TypeOK
  <1>6. \A b \in g.items : b \in InHand(m)
    BY InHandMember
  <1>7. \A b \in Block : rows'[b] > 0 => rows[b] > 0 \/ b \in g.items
    BY <1>0, <1>2, InsertedType DEF TypeOK
  <1>8. \A b \in Block : Reached(b)' => Reached(b)
    BY <1>4, <1>6, <1>7 DEF Reached
  <1>9. \A b \in Block : rows'[b] = 0 => rows[b] = 0
    BY <1>0, <1>2, InsertedType DEF TypeOK
  <1>10. ASSUME NEW b \in Block, rows'[b] = 0, Excused(b)
         PROVE  Excused(b)'
    <2>1. CASE b \in dropped
      BY <2>1, <1>2 DEF Excused
    <2>2. CASE \E n \in Master : b \in InHand(n)'
      BY <2>2 DEF Excused
    <2>3. CASE b \in g.items \ items
      <3>1. rows' # Inserted(g.items \ items)
        BY <2>3, <1>0, <1>10, InsertedType DEF TypeOK
      <3>2. b \in dropped'
        BY <2>3, <3>1, <1>2
      <3>3. QED BY <3>2 DEF Excused
    <2>4. QED BY <2>1, <2>2, <2>3, <1>4, <1>10 DEF Excused
  <1>11. head <= head' /\ \A n \in Master : latest'[n] <= head'
    BY <1>0, <1>3 DEF DelayInv, TypeOK
  <1>12. QED BY <1>5, <1>8, <1>9, <1>10, <1>11, HandsKept

\* A crash: what was in hand is given up.
LEMMA CrashKept ==
  ASSUME MasterInv, NEW m \in Master, Crash(m)
  PROVE  MasterInv'
  <1>0. TypeOK /\ DelayInv
    BY DEF MasterInv
  <1>1. /\ dropped' = dropped \cup InHand(m)
        /\ pc' = [pc EXCEPT ![m] = "Idle"]
        /\ pending' = [pending EXCEPT ![m] = {}]
        /\ running' = [running EXCEPT ![m] = {}]
        /\ UNCHANGED <<head, rows, latest, lost>>
        /\ faults' \in 0 .. MaxFault
    BY <1>0, MasterAssumption DEF Crash, Spend, TypeOK
  <1>2. InHand(m) \subseteq Block
    BY <1>0, InHandMember DEF TypeOK, Goroutine
  <1>3. TypeOK'
    BY <1>0, <1>1, <1>2 DEF TypeOK
  <1>4. /\ \A b : b \notin InHand(m)'
        /\ \A n \in Master \ {m} : \A b : b \in InHand(n)' <=> b \in InHand(n)
    BY <1>0, <1>1, InHandMember, InHandMemberNext DEF TypeOK
  <1>5. \A b \in Block : /\ Reached(b)' => Reached(b)
                         /\ Excused(b) => Excused(b)'
    BY <1>1, <1>4 DEF Reached, Excused
  <1>6. head <= head' /\ \A n \in Master : latest'[n] <= head'
    BY <1>0, <1>1 DEF DelayInv, TypeOK
  <1>7. QED BY <1>1, <1>3, <1>5, <1>6, HandsKept

\* The steps that touch no block: the chain, the node's answer, the return.
LEMMA OtherKept ==
  ASSUME MasterInv,
         \/ Advance
         \/ \E m \in Master : GetLatestCheckpoint(m) \/ Return(m)
         \/ UNCHANGED vars
  PROVE  MasterInv'
  <1>0. TypeOK /\ DelayInv
    BY DEF MasterInv
  <1>1. UNCHANGED <<rows, pending, running, dropped>>
    BY DEF Advance, GetLatestCheckpoint, Return, vars
  <1>2. head \in Nat /\ head' \in Nat /\ head <= head'
    BY <1>0 DEF Advance, GetLatestCheckpoint, Return, vars, TypeOK
  <1>3. \A n \in Master : latest'[n] <= head'
    BY <1>0, <1>2 DEF Advance, GetLatestCheckpoint, Return, vars, TypeOK, DelayInv
  <1>4. TypeOK'
    <2>1. CASE Advance
      BY <2>1, <1>0, MasterAssumption DEF Advance, TypeOK
    <2>2. ASSUME NEW m \in Master, GetLatestCheckpoint(m) PROVE TypeOK'
      BY <2>2, <1>0, MasterAssumption DEF GetLatestCheckpoint, TypeOK
    <2>3. ASSUME NEW m \in Master, Return(m) PROVE TypeOK'
      <3>1. pending[m] = {}
        BY <2>3, InHandMember DEF Return
      <3>2. QED BY <2>3, <3>1, <1>0 DEF Return, TypeOK
    <2>4. CASE UNCHANGED vars
      BY <2>4, <1>0 DEF vars, TypeOK
    <2>5. QED BY <2>1, <2>2, <2>3, <2>4
  <1>5. \A m, b : b \in InHand(m)' <=> b \in InHand(m)
    BY <1>1, InHandMember, InHandMemberNext
  <1>6. \A b \in Block : /\ Reached(b)' => Reached(b)
                         /\ Excused(b) => Excused(b)'
    BY <1>1, <1>5 DEF Reached, Excused
  <1>7. QED BY <1>1, <1>2, <1>3, <1>4, <1>6, HandsKept

\* MasterInv holds in the initial states.
LEMMA MasterInvInit == Init => MasterInv
  <1> SUFFICES ASSUME Init PROVE MasterInv
    OBVIOUS
  <1>1. TypeOK
    BY MasterAssumption DEF Init, TypeOK
  <1>2. \A b \in Block : ~Reached(b)
    BY InHandMember DEF Init, Reached
  <1>3. QED BY <1>1, <1>2 DEF Init, MasterInv, HolesInv, DelayInv

\* MasterInv is inductive.
LEMMA MasterInvStep == MasterInv /\ [Next]_vars => MasterInv'
  BY PlanBlocksKept, StartChunkKept, SaveChunkKept, CrashKept, OtherKept
     DEF Next, FetchCheckpoint, SaveChunk

-----------------------------------------------------------------------------
(***************************************************************************)
(* Copies.  Each block in the hands of a master may still become a row;    *)
(* with those it has already, its copies never exceed the masters and the  *)
(* lost answers.                                                           *)
(***************************************************************************)
\* The masters that have a block in hand.
Holders(b) == {m \in Master : b \in InHand(m)}

\* A master has a block in hand once: the goroutines share none with each other
\* or with what is left to give them.
HandsApart ==
  \A m \in Master : \A g \in running[m] :
     /\ g.items \cap pending[m] = {}
     /\ \A h \in running[m] : g # h => g.items \cap h.items = {}

CopiesCounted ==
  \A b \in Block : rows[b] + Cardinality(Holders(b)) <= Cardinality(Master) + lost[b]

CopiesInv == HandsApart /\ CopiesCounted

\* The holders of a block are finitely many, at most all masters.
LEMMA HoldersFinite ==
  ASSUME NEW b
  PROVE  /\ IsFiniteSet(Holders(b)) /\ Cardinality(Holders(b)) \in Nat
         /\ Cardinality(Master) \in Nat /\ Cardinality(Holders(b)) <= Cardinality(Master)
  <1>1. Holders(b) \in SUBSET Master
    BY DEF Holders
  <1>2. QED BY <1>1, FS_Subset, FS_CardinalityType, MasterAssumption

\* A step that gives a block to nobody, and adds no row to it without a lost
\* answer or a hand that lets go of it, keeps the count.
LEMMA CountKept ==
  ASSUME TypeOK, TypeOK', CopiesCounted, NEW b \in Block, Holders(b)' \subseteq Holders(b),
         \/ rows'[b] = rows[b] /\ lost'[b] = lost[b]
         \/ rows'[b] = rows[b] + 1 /\ lost'[b] = lost[b] + 1
         \/ /\ rows'[b] = rows[b] + 1 /\ lost'[b] = lost[b]
            /\ \E m \in Holders(b) : m \notin Holders(b)'
  PROVE  rows'[b] + Cardinality(Holders(b)') <= Cardinality(Master) + lost'[b]
  <1>1. /\ rows[b] \in Nat /\ lost[b] \in Nat /\ rows'[b] \in Nat /\ lost'[b] \in Nat
        /\ rows[b] + Cardinality(Holders(b)) <= Cardinality(Master) + lost[b]
    BY DEF TypeOK, CopiesCounted
  <1>2. /\ IsFiniteSet(Holders(b)) /\ Cardinality(Holders(b)) \in Nat /\ Cardinality(Master) \in Nat
    BY HoldersFinite
  <1>3. Cardinality(Holders(b)') \in Nat /\ Cardinality(Holders(b)') <= Cardinality(Holders(b))
    BY <1>2, FS_Subset, FS_CardinalityType
  <1>4. ASSUME NEW m \in Holders(b), m \notin Holders(b)'
        PROVE  Cardinality(Holders(b)') <= Cardinality(Holders(b)) - 1
    <2>1. Holders(b)' \in SUBSET (Holders(b) \ {m})
      BY <1>4
    <2>2. IsFiniteSet(Holders(b) \ {m}) /\ Cardinality(Holders(b) \ {m}) = Cardinality(Holders(b)) - 1
      BY <1>2, FS_RemoveElement
    <2>3. QED BY <2>1, <2>2, FS_Subset
  <1>5. QED BY <1>1, <1>2, <1>3, <1>4

\* Planning gives a master only blocks above the highest saved one: these have no row.
LEMMA PlanBlocksCopies ==
  ASSUME TypeOK, TypeOK', CopiesInv, NEW m \in Master, PlanBlocks(m)
  PROVE  CopiesInv'
  <1>1. PICK saved \in SavedCheckpointSeq :
           LET blocks == {b \in Block : saved < b /\ b <= latest[m] - Delay}
           IN pending' = [pending EXCEPT ![m] = blocks]
    BY DEF PlanBlocks
  <1> DEFINE blocks == {b \in Block : saved < b /\ b <= latest[m] - Delay}
  <1>2. UNCHANGED <<rows, running, lost>> /\ running[m] = {}
    BY DEF PlanBlocks, TypeOK
  <1>3. pending'[m] = blocks /\ \A n \in Master \ {m} : pending'[n] = pending[n]
    BY <1>1 DEF TypeOK
  <1>4. HandsApart'
    BY <1>2, <1>3 DEF CopiesInv, HandsApart
  <1>5. ASSUME NEW b \in Block
        PROVE  rows'[b] + Cardinality(Holders(b)') <= Cardinality(Master) + lost'[b]
    <2>1. CASE b \in blocks
      <3>1. rows[b] \in Nat /\ lost[b] \in Nat /\ b \in Nat /\ saved < b
        BY <2>1 DEF TypeOK, Block
      <3>2. b \notin Saved
        <4>1. ASSUME b \in Saved PROVE FALSE
          <5>1. saved \in Saved /\ b <= saved
            BY <4>1, <1>1 DEF SavedCheckpointSeq
          <5>2. saved \in Nat
            BY <5>1 DEF Saved, Block
          <5>3. QED BY <3>1, <5>1, <5>2
        <4>2. QED BY <4>1
      <3>3. rows[b] = 0
        BY <3>1, <3>2 DEF Saved
      <3>4. /\ Holders(b)' \in SUBSET Master /\ Cardinality(Master) \in Nat
            /\ Cardinality(Holders(b)') \in Nat /\ Cardinality(Holders(b)') <= Cardinality(Master)
        <4>1. Holders(b)' \in SUBSET Master
          BY DEF Holders
        <4>2. QED BY <4>1, FS_Subset, FS_CardinalityType, MasterAssumption
      <3>5. QED BY <1>2, <3>1, <3>3, <3>4
    <2>2. CASE b \notin blocks
      <3>1. \A n \in Master : b \in InHand(n)' => b \in InHand(n)
        BY <1>2, <1>3, <2>2, InHandMember, InHandMemberNext
      <3>2. Holders(b)' \subseteq Holders(b)
        BY <3>1 DEF Holders
      <3>3. QED BY <1>2, <3>2, CountKept DEF CopiesInv
    <2>3. QED BY <2>1, <2>2
  <1>6. QED BY <1>4, <1>5 DEF CopiesInv, CopiesCounted

\* A chunk leaves the pending blocks when its goroutine starts.
LEMMA StartChunkCopies ==
  ASSUME TypeOK, TypeOK', CopiesInv, NEW m \in Master, StartChunk(m)
  PROVE  CopiesInv'
  <1>1. PICK chunk \in SUBSET pending[m] :
           /\ pending' = [pending EXCEPT ![m] = @ \ chunk]
           /\ running' = [running EXCEPT ![m] = @ \cup {[items |-> chunk, saving |-> FALSE]}]
    BY DEF StartChunk, NextChunk
  <1> DEFINE new == [items |-> chunk, saving |-> FALSE]
  <1>2. UNCHANGED <<rows, lost>>
    BY DEF StartChunk
  <1>3. /\ \A n \in Master \ {m} : pending'[n] = pending[n] /\ running'[n] = running[n]
        /\ pending'[m] = pending[m] \ chunk
        /\ running'[m] = running[m] \cup {new}
        /\ new.items = chunk
    BY <1>1 DEF TypeOK
  <1> HIDE DEF new
  <1>4. \A n \in Master : \A b : b \in InHand(n)' => b \in InHand(n)
    BY <1>3, InHandMember, InHandMemberNext
  <1>5. HandsApart'
    <2>1. ASSUME NEW n \in Master, NEW g \in running'[n]
          PROVE  /\ g.items \cap pending'[n] = {}
                 /\ \A h \in running'[n] : g # h => g.items \cap h.items = {}
      <3>1. CASE n # m
        BY <1>3, <2>1, <3>1 DEF CopiesInv, HandsApart
      <3>2. CASE n = m
        <4>1. \A k \in running[m] : k.items \cap pending[m] = {} /\ k.items \cap new.items = {}
          BY <1>3 DEF CopiesInv, HandsApart
        <4>2. CASE g \in running[m]
          <5>1. ASSUME NEW h \in running'[m], g # h PROVE g.items \cap h.items = {}
            BY <1>3, <4>1, <4>2, <5>1 DEF CopiesInv, HandsApart
          <5>2. QED BY <1>3, <3>2, <4>1, <4>2, <5>1
        <4>3. CASE g = new
          <5>1. ASSUME NEW h \in running'[m], g # h PROVE g.items \cap h.items = {}
            BY <1>3, <4>1, <4>3, <5>1
          <5>2. QED BY <1>3, <3>2, <4>3, <5>1
        <4>4. QED BY <1>3, <2>1, <3>2, <4>2, <4>3
      <3>3. QED BY <3>1, <3>2
    <2>2. QED BY <2>1 DEF HandsApart
  <1>6. \A b \in Block : Holders(b)' \subseteq Holders(b)
    BY <1>4 DEF Holders
  <1>7. QED BY <1>2, <1>5, <1>6, CountKept DEF CopiesInv, CopiesCounted

\* What a goroutine has inserted it no longer has in hand, unless the answer was lost.
LEMMA SaveChunkCopies ==
  ASSUME TypeOK, TypeOK', CopiesInv, NEW m \in Master, NEW g \in running[m],
         CreateMany(m, g) \/ Save(m, g)
  PROVE  CopiesInv'
  <1>1. g \in Goroutine /\ UNCHANGED pending
    BY DEF TypeOK, CreateMany, Save
  <1>2. PICK items \in SUBSET g.items, blocks \in SUBSET g.items :
          /\ Proceed(m, g, items)
          /\ \/ rows' = rows /\ lost' = lost
             \/ rows' = Inserted(blocks) /\ lost' = lost /\ blocks = g.items \ items
             \/ /\ rows' = Inserted(g.items)
                /\ lost' = [b \in Block |-> IF b \in g.items THEN lost[b] + 1 ELSE lost[b]]
    <2>1. CASE CreateMany(m, g)
      <3>1. \/ rows' = Inserted(g.items) /\ Proceed(m, g, {}) /\ lost' = lost
            \/ Proceed(m, g, g.items) /\ rows' = rows /\ lost' = lost
            \/ /\ Proceed(m, g, g.items) /\ rows' = Inserted(g.items)
               /\ lost' = [b \in Block |-> IF b \in g.items THEN lost[b] + 1 ELSE lost[b]]
        BY <2>1 DEF CreateMany
      <3>2. g.items \ {} = g.items
        OBVIOUS
      <3>3. CASE rows' = Inserted(g.items) /\ Proceed(m, g, {}) /\ lost' = lost
        BY <3>2, <3>3
      <3>4. CASE Proceed(m, g, g.items) /\ rows' = rows /\ lost' = lost
        BY <3>4
      <3>5. CASE /\ Proceed(m, g, g.items) /\ rows' = Inserted(g.items)
                 /\ lost' = [b \in Block |-> IF b \in g.items THEN lost[b] + 1 ELSE lost[b]]
        BY <3>5
      <3>6. QED BY <3>1, <3>3, <3>4, <3>5
    <2>2. CASE Save(m, g)
      <3>1. PICK b \in g.items :
              /\ rows' = Inserted({b}) \/ rows' = rows
              /\ Proceed(m, g, g.items \ {b})
              /\ lost' = lost
        BY <2>2 DEF Save
      <3>2. g.items \ (g.items \ {b}) = {b}
        OBVIOUS
      <3>3. QED BY <3>1, <3>2
    <2>3. QED BY <2>1, <2>2
  <1> DEFINE rest == IF items = {} THEN {} ELSE {[items |-> items, saving |-> TRUE]}
  <1>3. /\ \A n \in Master : n # m => running'[n] = running[n]
        /\ running'[m] = (running[m] \ {g}) \cup rest
    BY <1>2 DEF Proceed, TypeOK
  <1>4. \A h \in rest : h.items = items
    OBVIOUS
  <1>5. \A h, k \in rest : h = k
    OBVIOUS
  <1> HIDE DEF rest
  <1>6. HandsApart'
    <2>1. ASSUME NEW n \in Master, NEW k \in running'[n]
          PROVE  /\ k.items \cap pending'[n] = {}
                 /\ \A h \in running'[n] : k # h => k.items \cap h.items = {}
      <3>1. CASE n # m
        BY <1>1, <1>3, <2>1, <3>1 DEF CopiesInv, HandsApart
      <3>2. CASE n = m
        <4>1. /\ g.items \cap pending[m] = {} /\ items \subseteq g.items
              /\ \A h \in running[m] \ {g} : g.items \cap h.items = {}
          BY DEF CopiesInv, HandsApart
        <4>2. CASE k \in running[m] \ {g}
          <5>1. ASSUME NEW h \in running'[m], k # h PROVE k.items \cap h.items = {}
            <6>1. CASE h \in running[m]
              BY <4>2, <5>1, <6>1 DEF CopiesInv, HandsApart
            <6>2. CASE h \in rest
              BY <1>4, <4>1, <4>2, <6>2
            <6>3. QED BY <1>3, <5>1, <6>1, <6>2
          <5>2. QED BY <1>1, <3>2, <4>2, <5>1 DEF CopiesInv, HandsApart
        <4>3. CASE k \in rest
          <5>1. ASSUME NEW h \in running'[m], k # h PROVE k.items \cap h.items = {}
            BY <1>3, <1>4, <1>5, <4>1, <4>3, <5>1
          <5>2. QED BY <1>1, <1>4, <3>2, <4>1, <4>3, <5>1
        <4>4. QED BY <1>3, <2>1, <3>2, <4>2, <4>3
      <3>3. QED BY <3>1, <3>2
    <2>2. QED BY <2>1 DEF HandsApart
  <1>7. \A n \in Master : \A b : b \in InHand(n)' => b \in InHand(n)
    BY <1>1, <1>2, ProceedHand
  <1>8. \A b \in g.items \ items : b \in InHand(m) /\ b \notin InHand(m)'
    <2>1. ASSUME NEW b \in g.items \ items PROVE b \in InHand(m) /\ b \notin InHand(m)'
      <3>1. b \in InHand(m)
        BY InHandMember
      <3>2. b \notin pending'[m]
        BY <1>1 DEF CopiesInv, HandsApart
      <3>3. \A h \in running[m] \ {g} : b \notin h.items
        BY DEF CopiesInv, HandsApart
      <3>4. \A h \in running'[m] : b \notin h.items
        BY <1>3, <1>4, <3>3
      <3>5. QED BY <3>1, <3>2, <3>4, InHandMemberNext
    <2>2. QED BY <2>1
  <1>9. ASSUME NEW b \in Block
        PROVE  rows'[b] + Cardinality(Holders(b)') <= Cardinality(Master) + lost'[b]
    <2>1. Holders(b)' \subseteq Holders(b)
      BY <1>7 DEF Holders
    <2>2. \A set : Inserted(set)[b] = IF b \in set THEN rows[b] + 1 ELSE rows[b]
      BY InsertedType
    <2>3. CASE rows' = rows /\ lost' = lost
      BY <2>1, <2>3, CountKept DEF CopiesInv
    <2>4. CASE rows' = Inserted(blocks) /\ lost' = lost /\ blocks = g.items \ items
      <3>1. CASE b \in g.items \ items
        <4>1. m \in Holders(b) /\ m \notin Holders(b)'
          BY <1>8, <3>1 DEF Holders
        <4>2. rows'[b] = rows[b] + 1
          BY <2>2, <2>4, <3>1
        <4>3. QED BY <2>1, <2>4, <4>1, <4>2, CountKept DEF CopiesInv
      <3>2. CASE b \notin g.items \ items
        <4>1. rows'[b] = rows[b]
          BY <2>2, <2>4, <3>2
        <4>2. QED BY <2>1, <2>4, <4>1, CountKept DEF CopiesInv
      <3>3. QED BY <3>1, <3>2
    <2>5. CASE /\ rows' = Inserted(g.items)
               /\ lost' = [c \in Block |-> IF c \in g.items THEN lost[c] + 1 ELSE lost[c]]
      <3>1. \/ rows'[b] = rows[b] + 1 /\ lost'[b] = lost[b] + 1
            \/ rows'[b] = rows[b] /\ lost'[b] = lost[b]
        BY <2>2, <2>5
      <3>2. QED BY <2>1, <3>1, CountKept DEF CopiesInv
    <2>6. QED BY <1>2, <2>3, <2>4, <2>5
  <1>10. QED BY <1>6, <1>9 DEF CopiesInv, CopiesCounted

\* The other steps give no block to anybody and insert nothing.
LEMMA OtherCopies ==
  ASSUME TypeOK, TypeOK', CopiesInv,
         \/ Advance
         \/ \E m \in Master : GetLatestCheckpoint(m) \/ Return(m) \/ Crash(m)
         \/ UNCHANGED vars
  PROVE  CopiesInv'
  <1>1. UNCHANGED <<rows, lost>>
    BY DEF Advance, GetLatestCheckpoint, Return, Crash, vars
  <1>2. ASSUME NEW n \in Master
        PROVE  pending'[n] \subseteq pending[n] /\ running'[n] \subseteq running[n]
    BY DEF Advance, GetLatestCheckpoint, Return, Crash, vars, TypeOK
  <1>3. HandsApart'
    BY <1>2 DEF CopiesInv, HandsApart
  <1>4. \A n \in Master : \A b : b \in InHand(n)' => b \in InHand(n)
    BY <1>2, InHandMember, InHandMemberNext
  <1>5. \A b \in Block : Holders(b)' \subseteq Holders(b)
    BY <1>4 DEF Holders
  <1>6. QED BY <1>1, <1>3, <1>5, CountKept DEF CopiesInv, CopiesCounted

\* Nothing has been handed out.
LEMMA CopiesInvInit == Init => CopiesInv
  <1> SUFFICES ASSUME Init PROVE CopiesInv
    OBVIOUS
  <1>1. HandsApart
    BY DEF Init, HandsApart
  <1>2. ASSUME NEW b \in Block
        PROVE  rows[b] + Cardinality(Holders(b)) <= Cardinality(Master) + lost[b]
    <2>1. rows[b] = 0 /\ lost[b] = 0
      BY DEF Init
    <2>2. QED BY <2>1, HoldersFinite
  <1>3. QED BY <1>1, <1>2 DEF CopiesInv, CopiesCounted

\* Every step keeps the count.
LEMMA CopiesInvStep == TypeOK /\ TypeOK' /\ CopiesInv /\ [Next]_vars => CopiesInv'
  BY PlanBlocksCopies, StartChunkCopies, SaveChunkCopies, OtherCopies
     DEF Next, FetchCheckpoint, SaveChunk

(***************************************************************************)
(* The model is well typed; a master has blocks in hand only while it      *)
(* saves them.                                                             *)
(***************************************************************************)
THEOREM MasterTypeCorrect == Spec => []TypeOK
  <1>1. MasterInv => TypeOK
    BY DEF MasterInv
  <1>2. QED BY <1>1, MasterInvInit, MasterInvStep, PTL DEF Spec

(***************************************************************************)
(* A hole below the highest saved block is being filled, or it is the      *)
(* trace of a failed Save or of a crash.                                   *)
(***************************************************************************)
THEOREM HolesSafe == Spec => []HolesExplained
  <1>1. MasterInv => HolesExplained
    BY DEF MasterInv, HolesInv, HolesExplained, Reached, Excused
  <1>2. QED BY <1>1, MasterInvInit, MasterInvStep, PTL DEF Spec

(***************************************************************************)
(* No row is saved for a checkpoint less than Delay behind the chain.      *)
(***************************************************************************)
THEOREM DelaySafe == Spec => []DelayKept
  <1>1. MasterInv => DelayKept
    BY DEF MasterInv, DelayInv, DelayKept, Saved, Reached
  <1>2. QED BY <1>1, MasterInvInit, MasterInvStep, PTL DEF Spec

(***************************************************************************)
(* A block has at most one row for each master and each lost answer: what  *)
(* a master crashes out of, retries or resumes it never inserts twice.     *)
(***************************************************************************)
THEOREM CopiesSafe == Spec => []CopiesBounded
  <1>1. TypeOK /\ CopiesInv => CopiesBounded
    <2>1. ASSUME TypeOK, CopiesInv, NEW b \in Block
          PROVE  rows[b] <= Cardinality(Master) + lost[b]
      <3>1. rows[b] \in Nat /\ lost[b] \in Nat
        BY <2>1 DEF TypeOK
      <3>2. rows[b] + Cardinality(Holders(b)) <= Cardinality(Master) + lost[b]
        BY <2>1 DEF CopiesInv, CopiesCounted
      <3>3. QED BY <3>1, <3>2, HoldersFinite
    <2>2. QED BY <2>1 DEF CopiesBounded
  <1>2. QED BY <1>1, MasterTypeCorrect, CopiesInvInit, CopiesInvStep, PTL DEF Spec

=============================================================================

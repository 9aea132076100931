--------------------------- MODULE ServicesProofs ---------------------------
(***************************************************************************)
(* Theorems about the smaller services, for any rows, periods, files,      *)
(* dates, trades, tokens, coins and numbers of faults.                     *)
(***************************************************************************)
EXTENDS MCServices, FiniteSetTheorems, SequenceTheorems, TLAPS

-----------------------------------------------------------------------------
(***************************************************************************)
(* The clock of the reaper (MasterCron).                                   *)
(*                                                                         *)
(* What a row may still age before the next run is at most what is left of *)
(* the period; a run resets the account of those it leaves, and one that   *)
(* is missed adds a period to it.                                          *)
(***************************************************************************)
AgeAccounted ==
  \A r \in Row :
     status[r] = PROCESSING => age[r] + wait <= Threshold + Period * (missed + 1)

CronInv == TypeOK /\ AgeAccounted

\* The bound on ages is a number, and so is what the account allows.
LEMMA CronNumbers ==
  /\ MaxAge \in Nat /\ Threshold <= MaxAge
  /\ \A n \in Nat : /\ Period * n \in Nat
                    /\ Period * (n + 1) = Period * n + Period
  <1>1. \A n \in Nat : Period * n \in Nat /\ Period * (n + 1) = Period * n + Period
    BY CronAssumption
  <1>2. (MaxMissed + 2) * Period \in Nat
    BY CronAssumption
  <1>3. QED BY <1>1, <1>2, CronAssumption DEF MaxAge

\* At the start the clock of the reaper accounts for the age of every row.
LEMMA CronInvInit == Init => CronInv
  BY CronNumbers, CronAssumption
  DEF Init, CronInv, TypeOK, AgeAccounted, Status, NOT_READY, PROCESSING, DONE, FAIL

\* Every step of the cron and of the rows keeps that account.
LEMMA CronStep ==
  ASSUME CronInv, [Next]_vars
  PROVE  CronInv'
  <1> USE CronNumbers, CronAssumption
      DEF CronInv, TypeOK, AgeAccounted, Status, NOT_READY, PROCESSING, DONE, FAIL
  <1>1. CASE Tick
    BY <1>1 DEF Tick, Due
  <1>2. CASE UpdateFailedStatus
    BY <1>2 DEF UpdateFailedStatus, Due, SetStatus, Abandoned, Stale, Touched
  <1>3. CASE Miss
    BY <1>3 DEF Miss, Due
  <1>4. CASE StopMaster \/ StartMaster \/ UNCHANGED vars
    BY <1>4 DEF StopMaster, StartMaster, vars
  <1>5. ASSUME NEW rows \in SUBSET Row, Claim(rows)
        PROVE  CronInv'
    BY <1>5 DEF Claim, SetStatus, Touched
  <1>6. ASSUME NEW r \in Row, EndRow(r)
        PROVE  CronInv'
    BY <1>6 DEF EndRow, SetStatus, Touched
  <1>7. QED BY <1>1, <1>2, <1>3, <1>4, <1>5, <1>6 DEF Next

(***************************************************************************)
(* A row that a dead worker left is put back within the threshold of the   *)
(* query and a period for each run that did not happen (cronjob.go:51,     *)
(* block_status_repo.go), for any table, period and threshold.             *)
(***************************************************************************)
THEOREM ReapSafe == Spec => []ReapedInTime
  <1>1. CronInv => ReapedInTime
    BY CronNumbers, CronAssumption DEF CronInv, TypeOK, AgeAccounted, ReapedInTime
  <1>2. QED BY <1>1, CronInvInit, CronStep, PTL DEF Spec

-----------------------------------------------------------------------------
(***************************************************************************)
(* CompressData (Compression).                                             *)
(*                                                                         *)
(* The rows of a day are in a table at most as often as the day was asked  *)
(* for, and once less as long as a job still has its insert before it.     *)
(* What a job has inserted without a failure is in the table or was        *)
(* inserted blindly; the second is not possible for the daily job, which   *)
(* is alone and has repaired what it inserts from.                         *)
(***************************************************************************)
JobType ==
  [step : {"none", "waiting", "begun", "repair", "insert", "ended"},
   todo : SUBSET Final, failed : BOOLEAN]

CompressTyped ==
  /\ known \subseteq Final \X Date /\ blind \subseteq Final \X Date
  /\ final \in [Final -> [Date -> Nat]]
  /\ covered \in [Date -> Nat]
  /\ job \in [Date -> JobType]
  /\ autoAddPartitions \in BOOLEAN /\ cancelled \in BOOLEAN

\* The job has its insert into the table before it, or has it behind it.
Before(j, t) == j.step \in {"waiting", "begun", "repair"} \/ (j.step = "insert" /\ t \in j.todo)
Behind(j, t) == ~j.failed /\ (j.step = "ended" \/ (j.step = "insert" /\ t \notin j.todo))

AddedOnce ==
  \A d \in Date, t \in Final :
     final[t][d] + (IF Before(job[d], t) THEN 1 ELSE 0) <= covered[d]

BehindInserted ==
  \A d \in Date, t \in Final : Behind(job[d], t) =>
     final[t][d] > 0 \/ (command # "daily" /\ <<t, d>> \in blind)

\* The partition is known: MSCK REPAIR TABLE has run, or something follows it.
Repaired(j, t) == j.step = "insert" \/ (j.step = "repair" /\ ~j.failed /\ t \notin j.todo)

DailyAlone ==
  command = "daily" =>
    /\ autoAddPartitions
    /\ \A d, e \in Date : job[d].step # "none" /\ job[e].step # "none" => d = e
    /\ \A d \in Date, t \in Final : Repaired(job[d], t) => <<t, d>> \in known

DailyKept == \A d \in Date, t \in Final : d \in daily => final[t][d] > 0

OthersKept ==
  \A d \in Date, t \in Final : d \in reported => final[t][d] > 0 \/ <<t, d>> \in blind

ReportsKept == DailyKept /\ OthersKept

CompressInv == CompressTyped /\ AddedOnce /\ BehindInserted /\ DailyAlone /\ ReportsKept

\* The job that is not running, and one that waits, are jobs.
LEMMA NoJobType ==
  /\ NoJob \in JobType /\ NoJob.step = "none" /\ ~NoJob.failed
  /\ [NoJob EXCEPT !.step = "waiting"] \in JobType
  /\ [NoJob EXCEPT !.step = "waiting"].step = "waiting"
  BY DEF NoJob, JobType

\* At the start no day has been compressed or reported.
LEMMA CompressInvInit == CompressInit => CompressInv
  <1> SUFFICES ASSUME CompressInit PROVE CompressInv
    OBVIOUS
  <1>1. CompressTyped
    BY NoJobType DEF CompressInit, CompressTyped
  <1>2. AddedOnce /\ BehindInserted
    BY NoJobType DEF CompressInit, AddedOnce, BehindInserted, Before, Behind
  <1>3. DailyAlone /\ ReportsKept
    BY DEF CompressInit, DailyAlone, ReportsKept, DailyKept, OthersKept
  <1>4. QED BY <1>1, <1>2, <1>3 DEF CompressInv

\* A command begins.
LEMMA CommandStep ==
  ASSUME CompressInv, NEW kind \in {"daily", "single", "range"}, NEW days \in SUBSET Date,
         Compress(kind, days), kind = "daily" => \A d, e \in days : d = e
  PROVE  CompressInv'
  <1> USE DEF CompressInv
  <1>1. /\ job' \in [Date -> JobType]
        /\ \A d \in Date : job'[d].step = IF d \in days THEN "waiting" ELSE "none"
    BY NoJobType DEF Compress
  <1>2. CompressTyped'
    <2>1. autoAddPartitions' \in BOOLEAN
      BY Zenon DEF Compress
    <2>2. cancelled' \in BOOLEAN
      BY DEF Compress
    <2>3. covered' \in [Date -> Nat]
      BY DEF Compress, CompressTyped
    <2>4. QED BY <1>1, <2>1, <2>2, <2>3 DEF Compress, CompressTyped
  <1>3. AddedOnce'
    BY <1>1 DEF Compress, CompressTyped, AddedOnce, Before
  <1>4. BehindInserted'
    BY <1>1 DEF BehindInserted, Behind
  <1>5. command' = "daily" => autoAddPartitions'
    BY DEF Compress
  <1>6. DailyAlone'
    BY <1>1, <1>5 DEF Compress, DailyAlone, Repaired
  <1>7. ReportsKept'
    BY DEF Compress, ReportsKept, DailyKept, OthersKept
  <1>8. QED BY <1>2, <1>3, <1>4, <1>6, <1>7

\* The steps that Job can return: one that is to be done, or the end.
LEMMA JobCases ==
  ASSUME NEW step \in {"repair", "insert"}, CompressTyped
  PROVE  /\ Job(step) \in JobType
         /\ Job(step).step \in {step, "ended"}
         /\ Job(step).step = step => Job(step).todo = Final
         /\ Job(step).step = "ended" => Job(step).failed
  BY DEF Job, JobType, Final

\* The goroutine of a day begins, and goes to its first step.
LEMMA StartStep ==
  ASSUME CompressInv, NEW d \in Date, StartJob(d) \/ EnterJob(d)
  PROVE  CompressInv'
  <1> USE DEF CompressInv
  <1>1. job[d] \in JobType
    BY DEF CompressTyped
  <1>2. autoAddPartitions' \in BOOLEAN /\ (command = "daily" => autoAddPartitions')
    <2>1. autoAddPartitions' \in BOOLEAN
      BY Zenon DEF StartJob, EnterJob, CompressTyped
    <2>2. CASE StartJob(d)
      BY <2>1, <2>2, Zenon DEF StartJob, DailyAlone
    <2>3. CASE EnterJob(d)
      <3>1. command = "daily" => First(d)
        BY <2>3 DEF EnterJob, DailyAlone, First, Date
      <3>2. QED BY <2>1, <2>3, <3>1, Zenon DEF EnterJob, DailyAlone
    <2>4. QED BY <2>2, <2>3
  <1>3. PICK j \in JobType : /\ job' = [job EXCEPT ![d] = j]
                             /\ \A t \in Final : ~Behind(j, t)
                             /\ command = "daily" => \A t \in Final : ~Repaired(j, t)
    <2>1. CASE StartJob(d)
      <3> DEFINE j == [job[d] EXCEPT !.step = "begun"]
      <3>1. j \in JobType /\ j.step = "begun"
        BY <1>1 DEF JobType
      <3>2. job' = [job EXCEPT ![d] = j]
        BY <2>1 DEF StartJob
      <3>3. QED
        BY <3>1, <3>2 DEF Behind, Repaired
    <2>2. CASE EnterJob(d)
      <3>1. command = "daily" => autoAddPartitions'
        BY <1>2, <2>2 DEF EnterJob
      <3> DEFINE j == Job(IF autoAddPartitions' THEN "repair" ELSE "insert")
      <3>2. job' = [job EXCEPT ![d] = j]
        BY <2>2 DEF EnterJob
      <3>3. /\ j \in JobType
            /\ j.step \in {"repair", "insert", "ended"}
            /\ j.step \in {"repair", "insert"} => j.todo = Final
            /\ j.step = "ended" => j.failed
        BY JobCases
      <3>4. command = "daily" => j.step # "insert"
        BY <3>1, JobCases
      <3> HIDE DEF j
      <3>5. QED
        BY <3>2, <3>3, <3>4 DEF Behind, Repaired
    <2>3. QED BY <2>1, <2>2
  <1>4. job[d].step \in {"waiting", "begun"}
    BY DEF StartJob, EnterJob, Waiting
  <1>5. UNCHANGED <<known, final, blind, covered, reported, daily, command, cancelled>>
    BY DEF StartJob, EnterJob
  <1>6. CompressTyped'
    BY <1>2, <1>3, <1>5 DEF CompressTyped
  <1>7. AddedOnce'
    BY <1>3, <1>4, <1>5 DEF CompressTyped, AddedOnce, Before
  <1>8. BehindInserted'
    BY <1>3, <1>5 DEF CompressTyped, BehindInserted
  <1>9. DailyAlone'
    BY <1>2, <1>3, <1>4, <1>5 DEF CompressTyped, DailyAlone
  <1>10. ReportsKept'
    BY <1>5 DEF ReportsKept, DailyKept, OthersKept
  <1>11. QED BY <1>6, <1>7, <1>8, <1>9, <1>10

\* What a query that ends leaves of its job.
LEMMA EndedCases ==
  ASSUME CompressTyped, NEW d \in Date, NEW t \in Final, NEW ok \in BOOLEAN,
         job[d].step \in {"repair", "insert"}, t \in job[d].todo, Ended(d, t, ok)
  PROVE  \E j \in JobType :
           /\ job' = [job EXCEPT ![d] = j]
           /\ j.step \in {"repair", "insert", "ended"}
           /\ ~j.failed => ok /\ ~job[d].failed
           /\ j.step = "repair" => job[d].step = "repair" /\ j.todo = job[d].todo \ {t}
           /\ j.step = "insert" =>
                \/ job[d].step = "insert" /\ j.todo = job[d].todo \ {t}
                \/ /\ job[d].step = "repair" /\ j.todo = Final
                   /\ ok /\ ~job[d].failed /\ job[d].todo = {t}
           /\ j.step = "ended" /\ ~j.failed => job[d].step = "insert" /\ job[d].todo = {t}
  <1> DEFINE r == [job[d] EXCEPT !.todo = @ \ {t}, !.failed = @ \/ ~ok]
             e == [r EXCEPT !.step = "ended"]
             j == IF r.todo # {} THEN r
                  ELSE IF r.step = "repair" /\ ~r.failed THEN Job("insert") ELSE e
  <1>1. job[d] \in JobType
    BY DEF CompressTyped
  <1>2. /\ r \in JobType /\ r.step = job[d].step /\ r.todo = job[d].todo \ {t}
        /\ ~r.failed <=> ok /\ ~job[d].failed
    BY <1>1 DEF JobType
  <1>3. e \in JobType /\ e.step = "ended" /\ (e.failed <=> r.failed)
    BY <1>2 DEF JobType
  <1>4. job' = [job EXCEPT ![d] = j]
    BY DEF Ended
  <1>5. /\ Job("insert") \in JobType
        /\ Job("insert").step \in {"insert", "ended"}
        /\ Job("insert").step = "insert" => Job("insert").todo = Final
        /\ Job("insert").step = "ended" => Job("insert").failed
    BY JobCases
  <1> HIDE DEF r, e
  <1>6. CASE r.todo # {}
    BY <1>2, <1>4, <1>6
  <1>7. CASE r.todo = {} /\ r.step = "repair" /\ ~r.failed
    BY <1>2, <1>4, <1>5, <1>7
  <1>8. CASE r.todo = {} /\ ~(r.step = "repair" /\ ~r.failed)
    BY <1>2, <1>3, <1>4, <1>8
  <1>9. QED BY <1>6, <1>7, <1>8

\* A query ends.  It has done its work, or has failed, or both.
LEMMA QueryStep ==
  ASSUME CompressInv, NEW d \in Date, NEW t \in Final,
         Repair(d, t) \/ Insert(d, t) \/ QueryFails(d, t)
  PROVE  CompressInv'
  <1> USE DEF CompressInv
  <1>1. job[d].step \in {"repair", "insert"} /\ t \in job[d].todo
    BY DEF Repair, Insert, QueryFails
  <1>2. PICK ok \in BOOLEAN :
          /\ Ended(d, t, ok)
          /\ ok /\ job[d].step = "repair" => <<t, d>> \in known'
          /\ ok /\ job[d].step = "insert" => InsertRows(d, t)
    BY DEF Repair, Insert, QueryFails
  <1>3. /\ UNCHANGED <<covered, reported, daily, command, cancelled, autoAddPartitions>>
        /\ known \subseteq known' /\ known' \subseteq Final \X Date
        /\ \/ UNCHANGED <<final, blind>>
           \/ InsertRows(d, t) /\ job[d].step = "insert"
    BY DEF Repair, Insert, QueryFails, CompressTyped
  <1>4. /\ blind \subseteq blind' /\ blind' \subseteq Final \X Date
        /\ final' \in [Final -> [Date -> Nat]]
        /\ \A u \in Final, e \in Date :
             IF u = t /\ e = d /\ job[d].step = "insert"
             THEN final'[u][e] \in final[u][e] .. final[u][e] + 1
             ELSE final'[u][e] = final[u][e]
        /\ InsertRows(d, t) =>
             \/ final'[t][d] > 0
             \/ <<t, d>> \notin known /\ <<t, d>> \in blind'
    BY <1>3 DEF InsertRows, CompressTyped
  <1>5. PICK j \in JobType :
           /\ job' = [job EXCEPT ![d] = j]
           /\ j.step \in {"repair", "insert", "ended"}
           /\ ~j.failed => ok /\ ~job[d].failed
           /\ j.step = "repair" => job[d].step = "repair" /\ j.todo = job[d].todo \ {t}
           /\ j.step = "insert" =>
                \/ job[d].step = "insert" /\ j.todo = job[d].todo \ {t}
                \/ /\ job[d].step = "repair" /\ j.todo = Final
                   /\ ok /\ ~job[d].failed /\ job[d].todo = {t}
           /\ j.step = "ended" /\ ~j.failed => job[d].step = "insert" /\ job[d].todo = {t}
    BY <1>1, <1>2, EndedCases
  <1>6. CompressTyped'
    BY <1>3, <1>4, <1>5 DEF CompressTyped
  <1>7. AddedOnce'
    <2> SUFFICES ASSUME NEW e \in Date, NEW u \in Final
                 PROVE  final'[u][e] + (IF Before(job'[e], u) THEN 1 ELSE 0) <= covered[e]
      BY <1>3 DEF AddedOnce
    <2>1. final[u][e] + (IF Before(job[e], u) THEN 1 ELSE 0) <= covered[e]
          /\ final[u][e] \in Nat /\ final'[u][e] \in Nat /\ covered[e] \in Nat
      BY <1>4 DEF AddedOnce, CompressTyped
    <2>2. CASE e # d
      BY <1>4, <1>5, <2>1, <2>2 DEF CompressTyped
    <2>3. CASE e = d
      <3>1. job'[d] = j
        BY <1>5 DEF CompressTyped
      <3>2. Before(j, u) => Before(job[d], u)
        BY <1>1, <1>5 DEF Before
      <3>3. CASE u = t /\ job[d].step = "insert"
        <4>1. Before(job[d], u) /\ ~Before(j, u)
          BY <1>1, <1>5, <3>3 DEF Before
        <4>2. QED BY <1>4, <2>1, <2>3, <3>1, <3>3, <4>1
      <3>4. QED BY <1>4, <2>1, <2>3, <3>1, <3>2, <3>3
    <2>4. QED BY <2>2, <2>3
  <1>8. DailyAlone'
    <2> SUFFICES ASSUME command = "daily"
                 PROVE  \A e \in Date, u \in Final : Repaired(job'[e], u) => <<u, e>> \in known'
      BY <1>1, <1>3, <1>5 DEF DailyAlone, CompressTyped
    <2> SUFFICES ASSUME NEW e \in Date, NEW u \in Final, Repaired(job'[e], u)
                 PROVE  <<u, e>> \in known'
      OBVIOUS
    <2>1. Repaired(job[e], u) => <<u, e>> \in known'
      BY <1>3 DEF DailyAlone
    <2>2. CASE e # d
      BY <1>5, <2>1, <2>2 DEF CompressTyped
    <2>3. CASE e = d /\ u = t
      BY <1>1, <1>2, <1>5, <2>1, <2>3 DEF CompressTyped, Repaired
    <2>4. CASE e = d /\ u # t
      BY <1>1, <1>5, <2>1, <2>4 DEF CompressTyped, Repaired
    <2>5. QED BY <2>2, <2>3, <2>4
  <1>9. BehindInserted'
    <2> SUFFICES ASSUME NEW e \in Date, NEW u \in Final, Behind(job'[e], u)
                 PROVE  final'[u][e] > 0 \/ (command # "daily" /\ <<u, e>> \in blind')
      BY <1>3 DEF BehindInserted
    <2>1. Behind(job[e], u) => final'[u][e] > 0 \/ (command # "daily" /\ <<u, e>> \in blind')
      BY <1>4 DEF BehindInserted, CompressTyped
    <2>2. CASE e # d
      BY <1>5, <2>1, <2>2 DEF CompressTyped
    <2>3. CASE e = d /\ u # t
      BY <1>1, <1>5, <2>1, <2>3 DEF CompressTyped, Behind
    <2>4. CASE e = d /\ u = t
      <3>1. ok /\ job[d].step = "insert"
        BY <1>5, <2>4 DEF CompressTyped, Behind
      <3>2. command = "daily" => <<t, d>> \in known
        BY <3>1 DEF DailyAlone, Repaired
      <3>3. QED BY <1>2, <1>4, <2>4, <3>1, <3>2
    <2>5. QED BY <2>2, <2>3, <2>4
  <1>10. ReportsKept'
    <2>1. \A e \in Date, u \in Final : final[u][e] > 0 => final'[u][e] > 0
      BY <1>4 DEF CompressTyped
    <2>2. daily' = daily /\ reported' = reported /\ blind \subseteq blind'
      BY <1>3, <1>4
    <2>3. DailyKept'
      BY <2>1, <2>2 DEF ReportsKept, DailyKept
    <2>4. OthersKept'
      BY <2>1, <2>2 DEF ReportsKept, OthersKept
    <2>5. QED BY <2>3, <2>4 DEF ReportsKept
  <1>11. QED BY <1>6, <1>7, <1>8, <1>9, <1>10

\* The command ends, or one of its days makes the others end.
LEMMA EndStep ==
  ASSUME CompressInv, EndCommand \/ \E d \in Date : ReturnError(d)
  PROVE  CompressInv'
  <1> USE DEF CompressInv
  <1>1. CASE \E d \in Date : ReturnError(d)
    BY <1>1 DEF ReturnError, CompressTyped, AddedOnce, BehindInserted, DailyAlone, ReportsKept, DailyKept, OthersKept
  <1>2. CASE EndCommand
    <2>1. /\ job' \in [Date -> JobType]
          /\ \A d \in Date : job'[d].step = "none" /\ ~job'[d].failed
      BY <1>2, NoJobType DEF EndCommand
    <2>2. CompressTyped' /\ AddedOnce' /\ BehindInserted' /\ DailyAlone'
      BY <1>2, <2>1
      DEF EndCommand, CompressTyped, AddedOnce, BehindInserted, DailyAlone, Before, Behind
    <2>3. \A d \in Date :
            ~cancelled /\ job[d].step = "ended" =>
              \A t \in Final : final[t][d] > 0 \/ (command # "daily" /\ <<t, d>> \in blind)
      BY <1>2 DEF EndCommand, BehindInserted, Behind
    <2>4. ReportsKept'
      BY <1>2, <2>3 DEF EndCommand, ReportsKept, DailyKept, OthersKept
    <2>5. QED BY <2>2, <2>4
  <1>3. QED BY <1>1, <1>2

\* Every step of the service keeps its invariant.
LEMMA CompressStep == CompressInv /\ [CompressNext]_compressVars => CompressInv'
  <1> SUFFICES ASSUME CompressInv, [CompressNext]_compressVars PROVE CompressInv'
    OBVIOUS
  <1>1. ASSUME NEW d \in Date, CompressDaily(d) \/ CompressSingle(d)
        PROVE  CompressInv'
    BY <1>1, CommandStep DEF CompressDaily, CompressSingle
  <1>2. ASSUME NEW d \in Date, NEW to \in d + 1 .. Dates + 1, CompressRange(d, to)
        PROVE  CompressInv'
    <2>1. d .. (to - 1) \in SUBSET Date
      BY CompressionAssumption DEF Date
    <2>2. QED BY <1>2, <2>1, CommandStep DEF CompressRange
  <1>3. CASE UNCHANGED compressVars
    BY <1>3 DEF compressVars, CompressInv, CompressTyped, AddedOnce, BehindInserted, DailyAlone,
                ReportsKept, DailyKept, OthersKept
  <1>4. QED BY <1>1, <1>2, <1>3, StartStep, QueryStep, EndStep DEF CompressNext

(***************************************************************************)
(* A day that the daily job reports is in both tables, one that another    *)
(* command reports lacks at most what was inserted before the partition    *)
(* was known, and no command adds a day twice (compression_service.go,     *)
(* app/cli/app.go), for any days, commands, failures and goroutines.       *)
(***************************************************************************)
THEOREM ReportsSafe == CompressSpec => []ReportedMeansCompressed
  <1>1. CompressInv => ReportedMeansCompressed
    <2> SUFFICES ASSUME CompressInv, NEW d \in Date, NEW t \in Final
                 PROVE  /\ d \in daily => final[t][d] > 0
                        /\ d \in reported => final[t][d] > 0 \/ <<t, d>> \in blind
                        /\ final[t][d] <= covered[d]
      BY DEF ReportedMeansCompressed
    <2>1. final[t][d] \in Nat /\ covered[d] \in Nat
      BY DEF CompressInv, CompressTyped
    <2>2. final[t][d] <= covered[d]
      BY <2>1 DEF CompressInv, AddedOnce
    <2>3. QED BY <2>2 DEF CompressInv, ReportsKept, DailyKept, OthersKept
  <1>2. QED BY <1>1, CompressInvInit, CompressStep, PTL DEF CompressSpec

-----------------------------------------------------------------------------
(***************************************************************************)
(* What an account is told (AccountApi).                                   *)
(*                                                                         *)
(* A trade that is alone in its time has one place in any order by time,   *)
(* after the newer ones, and what is saved only moves it away from the     *)
(* offset.  Pages of coins are cut by a cursor, below which every coin     *)
(* that stayed has been listed.                                            *)
(***************************************************************************)
\* A finite set of numbers that is not empty has a greatest element.
LEMMA GreatestExists ==
  ASSUME NEW S \in SUBSET Nat, IsFiniteSet(S), S # {}
  PROVE  \E m \in S : \A k \in S : k <= m
  <1> DEFINE above(k) == {n \in S : k < n}
             order == StrictSubsetOrdering(S)
             all   == {above(k) : k \in S}
  <1>1. IsWellFoundedOn(order, SUBSET S)
    BY FS_StrictSubsetOrderingWellFounded, FS_FiniteSubsetsOfFinite
  <1>2. all \subseteq SUBSET S /\ all # {}
    OBVIOUS
  <1>3. PICK least \in all : \A other \in all : <<other, least>> \notin order
    <2> HIDE DEF all, order
    <2>1. QED BY <1>1, <1>2, WFMin
  <1>4. PICK m \in S : least = above(m)
    OBVIOUS
  <1>5. ASSUME NEW k \in S, ~(k <= m) PROVE FALSE
    <2>1. above(k) \in all /\ above(k) \subseteq S /\ above(m) \subseteq S
      OBVIOUS
    <2>2. k \in above(m) /\ k \notin above(k)
      BY <1>5
    <2>3. above(k) \subseteq above(m)
      <3> SUFFICES ASSUME NEW n \in S, k < n PROVE m < n
        OBVIOUS
      <3>1. QED BY <1>5
    <2> HIDE DEF above
    <2>4. <<above(k), above(m)>> \in order
      BY <2>1, <2>2, <2>3 DEF StrictSubsetOrdering
    <2>5. QED BY <1>3, <1>4, <2>1, <2>4
  <1>6. QED BY <1>5

\* The trades of a set that are newer than one of it.
NewerIn(trades, t) == {u \in trades : TradeTime[u] > TradeTime[t]}

\* A trade alone in its time comes right after the newer ones, in every order.
LEMMA PlaceInOrder ==
  ASSUME NEW trades \in SUBSET DOMAIN TradeTime, NEW l \in LatestFirst(trades), NEW t \in trades,
         \A u \in trades \ {t} : TradeTime[u] # TradeTime[t]
  PROVE  /\ Cardinality(trades) \in Nat /\ Cardinality(NewerIn(trades, t)) \in Nat
         /\ Cardinality(NewerIn(trades, t)) < Cardinality(trades)
         /\ l[Cardinality(NewerIn(trades, t)) + 1] = t
  <1> DEFINE size  == Cardinality(trades)
             newer == NewerIn(trades, t)
  <1>1. IsFiniteSet(trades) /\ size \in Nat
    BY FS_Subset, FS_CardinalityType, AccountAssumption
  <1>2. l \in [1 .. size -> trades]
    BY DEF LatestFirst
  <1>3. \A i, j \in 1 .. size : i < j => l[i] # l[j] /\ TradeTime[l[i]] >= TradeTime[l[j]]
    BY <1>2 DEF LatestFirst
  <1>4. \A u \in trades : TradeTime[u] \in Nat
    BY AccountAssumption
  <1>5. l \in Injection(1 .. size, trades)
    BY <1>1, <1>2, <1>3 DEF Injection, IsInjective
  <1>6. l \in Surjection(1 .. size, trades)
    <2>1. Cardinality(1 .. size) = size
      BY <1>1, FS_Interval
    <2> HIDE DEF size
    <2>2. Cardinality(1 .. size) = Cardinality(trades)
      BY <2>1 DEF size
    <2>3. QED BY <1>1, <1>5, <2>2, FS_Injection
  <1>7. PICK k \in 1 .. size : l[k] = t
    BY <1>6 DEF Surjection
  <1> DEFINE head == [i \in 1 .. k - 1 |-> l[i]]
  <1> HIDE DEF size
  <1>8. head \in [1 .. k - 1 -> newer]
    <2> SUFFICES ASSUME NEW i \in 1 .. k - 1 PROVE l[i] \in newer
      OBVIOUS
    <2>1. i \in 1 .. size /\ i < k /\ l[i] \in trades
      BY <1>1, <1>2
    <2>2. l[i] # t /\ TradeTime[l[i]] >= TradeTime[t]
      BY <1>3, <1>7, <2>1
    <2>3. TradeTime[l[i]] # TradeTime[t]
      BY <2>1, <2>2
    <2>4. QED BY <1>4, <2>1, <2>2, <2>3 DEF NewerIn
  <1>9. head \in Injection(1 .. k - 1, newer)
    BY <1>1, <1>3, <1>8 DEF Injection, IsInjective
  <1>10. head \in Surjection(1 .. k - 1, newer)
    <2> SUFFICES ASSUME NEW u \in newer PROVE \E i \in 1 .. k - 1 : l[i] = u
      BY <1>8 DEF Surjection
    <2>1. u \in trades /\ TradeTime[u] > TradeTime[t]
      BY DEF NewerIn
    <2>2. PICK i \in 1 .. size : l[i] = u
      BY <1>6, <2>1 DEF Surjection
    <2>3. i < k
      BY <1>1, <1>3, <1>4, <1>7, <2>1, <2>2
    <2>4. QED BY <1>1, <2>2, <2>3
  <1>11. ExistsBijection(1 .. k - 1, newer)
    BY <1>9, <1>10 DEF ExistsBijection, Bijection
  <1>12. Cardinality(newer) = k - 1
    <2>1. k - 1 \in Nat
      BY <1>1
    <2>2. QED BY <1>11, <2>1, FS_CountingElements
  <1>13. QED BY <1>1, <1>7, <1>12 DEF size

AccountTyped ==
  /\ account \in [trades : SUBSET DOMAIN TradeTime, tokens : SUBSET Types,
                  coins : SUBSET DOMAIN CoinType, nft : {"wallet", "kiosk"}]
  /\ paging \in [stage : {"paging", "end"}, since : Nat, offset : Nat,
                 got : SUBSET DOMAIN TradeTime, first : SUBSET DOMAIN TradeTime]
  /\ coins \in [stage : {"reading", "end"}, cursor : Nat, first : SUBSET DOMAIN CoinType,
                known : SUBSET Types, moved : SUBSET DOMAIN CoinType,
                named : SUBSET DOMAIN CoinType, times : [DOMAIN CoinType -> Nat]]
  /\ nfts \in [stage : {"objects", "kiosks", "end"}, page : {1, 2}, image : BOOLEAN,
               moved : BOOLEAN, shown : Nat]

TradesSince(trades, since) == {t \in trades : TradeTime[t] >= since}

\* The trade is listed, or comes after the offset.
Pageable(t, trades, p) ==
  \/ t \in p.got
  \/ p.stage = "paging" /\ p.offset <= Cardinality(NewerIn(TradesSince(trades, p.since), t))

PagingKept ==
  /\ paging.first \subseteq account.trades
  /\ \A t \in paging.first :
        TradeTime[t] >= paging.since => Tied(t) \/ Pageable(t, account.trades, paging)

\* A coin that has not moved is there, and was listed if the cursor is past it.
CoinListed(c, q) == q.times[c] = 1 /\ (CoinType[c] \in q.known \ Misspelt => c \in q.named)

CoinKept(c, a, q) ==
  /\ c \in a.coins
  /\ q.stage = "end" \/ c <= q.cursor => CoinListed(c, q)
  /\ q.stage = "reading" /\ q.cursor < c => q.times[c] = 0

CoinsKept ==
  /\ coins.known \subseteq account.tokens
  /\ \A c \in coins.first \ coins.moved : CoinKept(c, account, coins)

\* How often an NFT that stays is shown so far.
NftShown(a, q) ==
  IF q.stage = "objects" \/ (q.stage = "kiosks" /\ a.nft = "kiosk") THEN 0
  ELSE IF a.nft = "kiosk" \/ (q.page = 1 /\ q.image) THEN 1 ELSE 0

NftKept == nfts.moved \/ nfts.shown = NftShown(account, nfts)

AccountInv == AccountTyped /\ PagingKept /\ CoinsKept /\ NftKept

\* At the start no page has been asked for.
LEMMA AccountInvInit == AccountInit => AccountInv
  <1> SUFFICES ASSUME AccountInit PROVE AccountInv
    OBVIOUS
  <1>1. PICK asked \in {"trades", "coins", "nfts"}, trades \in SUBSET DOMAIN TradeTime,
             tokens \in SUBSET Types, owned \in SUBSET DOMAIN CoinType :
       /\ asked # "trades" => trades = {}
       /\ asked # "coins" => tokens = {} /\ owned = {}
       /\ account \in [trades : {trades}, tokens : {tokens}, coins : {owned},
                       nft : IF asked = "nfts" THEN {"wallet", "kiosk"} ELSE {"wallet"}]
       /\ paging \in [stage : {IF asked = "trades" THEN "paging" ELSE "end"},
                      since : IF asked = "trades" THEN {0} \cup {TradeTime[t] : t \in trades} ELSE {0},
                      offset : {0}, got : {{}}, first : {trades}]
       /\ coins = [stage |-> IF asked = "coins" THEN "reading" ELSE "end", cursor |-> 0,
                   first |-> owned, known |-> tokens, moved |-> {}, named |-> {},
                   times |-> [c \in DOMAIN CoinType |-> 0]]
       /\ nfts \in [stage : {IF asked = "nfts" THEN "objects" ELSE "end"}, page : {1, 2},
                    image : BOOLEAN, moved : {asked # "nfts"}, shown : {0}]
    BY Zenon DEF AccountInit
  <1>2. \A t \in DOMAIN TradeTime : TradeTime[t] \in Nat
    BY AccountAssumption
  <1>3. DOMAIN CoinType \subseteq Nat \ {0}
    BY AccountAssumption
  <1>4. AccountTyped
    <2>1. account \in [trades : SUBSET DOMAIN TradeTime, tokens : SUBSET Types,
                  coins : SUBSET DOMAIN CoinType, nft : {"wallet", "kiosk"}]
      BY <1>1
    <2>2. paging \in [stage : {"paging", "end"}, since : Nat, offset : Nat,
                 got : SUBSET DOMAIN TradeTime, first : SUBSET DOMAIN TradeTime]
      BY <1>1, <1>2
    <2>3. coins \in [stage : {"reading", "end"}, cursor : Nat, first : SUBSET DOMAIN CoinType,
                known : SUBSET Types, moved : SUBSET DOMAIN CoinType,
                named : SUBSET DOMAIN CoinType, times : [DOMAIN CoinType -> Nat]]
      BY <1>1
    <2>4. nfts \in [stage : {"objects", "kiosks", "end"}, page : {1, 2}, image : BOOLEAN,
               moved : BOOLEAN, shown : Nat]
      <3> DEFINE still == {asked # "nfts"}
      <3>1. still \subseteq BOOLEAN
        BY Zenon
      <3>2. nfts \in [stage : {IF asked = "nfts" THEN "objects" ELSE "end"}, page : {1, 2},
                     image : BOOLEAN, moved : still, shown : {0}]
        BY <1>1
      <3> HIDE DEF still
      <3>3. QED BY <3>1, <3>2
    <2>5. QED BY <2>1, <2>2, <2>3, <2>4 DEF AccountTyped
  <1>5. PagingKept
    <2> SUFFICES ASSUME NEW t \in paging.first
                 PROVE  t \in account.trades /\ Pageable(t, account.trades, paging)
      BY DEF PagingKept
    <2>1. trades # {} /\ t \in account.trades
      BY <1>1
    <2>2. paging.stage = "paging" /\ paging.offset = 0
      BY <1>1, <2>1
    <2> DEFINE newer == NewerIn(TradesSince(account.trades, paging.since), t)
    <2>3. newer \in SUBSET DOMAIN TradeTime
      BY <1>4 DEF AccountTyped, NewerIn, TradesSince
    <2>4. Cardinality(newer) \in Nat
      <3> HIDE DEF newer
      <3>1. QED BY <2>3, FS_Subset, FS_CardinalityType, AccountAssumption
    <2>5. QED BY <2>1, <2>2, <2>4 DEF Pageable
  <1>6. CoinsKept
    BY <1>1, <1>3 DEF CoinsKept, CoinKept, CoinListed
  <1>7. NftKept
    <2>1. asked # "nfts" => nfts.moved
      BY <1>1, Zenon
    <2>2. asked = "nfts" => nfts.stage = "objects" /\ nfts.shown = 0
      BY <1>1
    <2>3. QED BY <2>1, <2>2 DEF NftKept, NftShown
  <1>8. QED BY <1>4, <1>5, <1>6, <1>7 DEF AccountInv

\* Numbers of trades of a finite set.
LEMMA NewerCount ==
  ASSUME NEW trades \in SUBSET DOMAIN TradeTime, NEW more \in SUBSET DOMAIN TradeTime,
         trades \subseteq more, NEW t
  PROVE  /\ Cardinality(NewerIn(trades, t)) \in Nat
         /\ Cardinality(NewerIn(more, t)) \in Nat
         /\ Cardinality(NewerIn(trades, t)) <= Cardinality(NewerIn(more, t))
  <1>1. NewerIn(more, t) \in SUBSET DOMAIN TradeTime
    BY DEF NewerIn
  <1>2. IsFiniteSet(NewerIn(more, t)) /\ NewerIn(trades, t) \in SUBSET NewerIn(more, t)
    BY <1>1, FS_Subset, AccountAssumption DEF NewerIn
  <1>3. QED BY <1>2, FS_Subset, FS_CardinalityType

\* A trade is saved: it moves no other towards the offset.
LEMMA SavedStep ==
  ASSUME AccountInv, NEW t \in DOMAIN TradeTime, TradeSaved(t)
  PROVE  AccountInv'
  <1>1. /\ account' = [account EXCEPT !.trades = @ \cup {t}]
        /\ UNCHANGED <<paging, coins, nfts>>
    BY DEF TradeSaved
  <1>2. /\ account'.trades = account.trades \cup {t}
        /\ account'.tokens = account.tokens /\ account'.coins = account.coins
        /\ account'.nft = account.nft
    BY <1>1 DEF AccountInv, AccountTyped
  <1>3. AccountTyped'
    BY <1>1 DEF AccountInv, AccountTyped
  <1>4. PagingKept'
    <2> SUFFICES ASSUME NEW u \in paging.first, TradeTime[u] >= paging.since
                 PROVE  Tied(u)' \/ Pageable(u, account'.trades, paging)
      BY <1>1, <1>2 DEF AccountInv, PagingKept
    <2>1. CASE Tied(u)
      BY <1>2, <2>1 DEF Tied
    <2>2. CASE Pageable(u, account.trades, paging)
      <3> DEFINE before == TradesSince(account.trades, paging.since)
                 after  == TradesSince(account'.trades, paging.since)
      <3>1. /\ before \in SUBSET DOMAIN TradeTime /\ after \in SUBSET DOMAIN TradeTime
            /\ before \subseteq after
        BY <1>2 DEF AccountInv, AccountTyped, TradesSince
      <3>2. paging.offset \in Nat
        BY DEF AccountInv, AccountTyped
      <3>3. /\ Cardinality(NewerIn(before, u)) \in Nat
            /\ Cardinality(NewerIn(after, u)) \in Nat
            /\ Cardinality(NewerIn(before, u)) <= Cardinality(NewerIn(after, u))
        BY <3>1, NewerCount
      <3> HIDE DEF before, after
      <3>4. QED BY <2>2, <3>2, <3>3 DEF Pageable, before, after
    <2>3. QED BY <2>1, <2>2 DEF AccountInv, PagingKept
  <1>5. CoinsKept' /\ NftKept'
    BY <1>1, <1>2 DEF AccountInv, CoinsKept, CoinKept, NftKept, NftShown
  <1>6. QED BY <1>3, <1>4, <1>5 DEF AccountInv

\* A page of trades: what stood behind the offset is on it, or behind the next.
LEMMA PageStep ==
  ASSUME AccountInv, GetTrades
  PROVE  AccountInv'
  <1> DEFINE recent == TradesSince(account.trades, paging.since)
             size   == Cardinality(recent)
             offset == paging.offset
             upto   == IF offset + TradeLimit < size THEN offset + TradeLimit ELSE size
  <1>1. PICK l \in LatestFirst(recent) :
          paging' = [paging EXCEPT
            !.got = @ \cup {TradePage(l, offset)[i] : i \in DOMAIN TradePage(l, offset)},
            !.offset = @ + Len(TradePage(l, offset)),
            !.stage = IF Len(TradePage(l, offset)) < TradeLimit THEN "end" ELSE "paging"]
    BY DEF GetTrades, TradesSince
  <1>2. recent \in SUBSET DOMAIN TradeTime /\ offset \in Nat /\ paging.stage = "paging"
    BY DEF AccountInv, AccountTyped, TradesSince, GetTrades
  <1>3. size \in Nat
    BY <1>2, FS_Subset, FS_CardinalityType, AccountAssumption
  <1>4. l \in [1 .. size -> recent]
    BY DEF LatestFirst
  <1> HIDE DEF recent, size, offset
  <1>5. l \in Seq(recent) /\ Len(l) = size
    BY <1>3, <1>4
  <1> DEFINE page == SubSeq(l, offset + 1, upto)
  <1>6. TradePage(l, offset) = page
    BY <1>5 DEF TradePage
  <1>7. TradeLimit \in Nat \ {0}
    BY AccountAssumption
  <1>8. upto \in Nat /\ upto <= size /\ upto <= offset + TradeLimit
        /\ (upto < size => upto = offset + TradeLimit)
    BY <1>2, <1>3, <1>7
  <1> HIDE DEF upto
  <1>9. /\ Len(page) = IF offset + 1 <= upto THEN upto - offset ELSE 0
        /\ DOMAIN page = 1 .. Len(page)
        /\ \A i \in 1 .. Len(page) : page[i] = l[offset + i]
        /\ page \in Seq(recent)
    BY <1>2, <1>3, <1>4, <1>5, <1>8
  <1> DEFINE got == {page[i] : i \in DOMAIN page}
  <1>10. got \subseteq recent
    BY <1>9
  <1> HIDE DEF page
  <1>11. Len(page) \in Nat
    BY <1>2, <1>8, <1>9
  <1>12. /\ paging'.got = paging.got \cup got
         /\ paging'.offset = offset + Len(page)
         /\ paging'.stage = IF Len(page) < TradeLimit THEN "end" ELSE "paging"
         /\ paging'.first = paging.first /\ paging'.since = paging.since
    BY <1>1, <1>6 DEF AccountInv, AccountTyped, offset
  <1>13. UNCHANGED <<account, coins, nfts>>
    BY DEF GetTrades
  <1>14. AccountTyped'
    <2> DEFINE stage == IF Len(page) < TradeLimit THEN "end" ELSE "paging"
               next  == offset + Len(page)
    <2>1. paging' = [paging EXCEPT !.got = @ \cup got, !.offset = next, !.stage = stage]
      BY <1>1, <1>6 DEF offset
    <2>2. stage \in {"paging", "end"} /\ next \in Nat /\ got \subseteq DOMAIN TradeTime
      BY <1>2, <1>10, <1>11
    <2> HIDE DEF stage, next, got
    <2>3. QED BY <1>13, <2>1, <2>2 DEF AccountInv, AccountTyped
  <1>15. PagingKept'
    <2> SUFFICES ASSUME NEW t \in paging.first, TradeTime[t] >= paging.since, ~Tied(t)
                 PROVE  Pageable(t, account.trades, paging')
      BY <1>12, <1>13 DEF AccountInv, PagingKept, Tied
    <2> DEFINE place == Cardinality(NewerIn(recent, t))
    <2>1. t \in recent /\ \A u \in recent \ {t} : TradeTime[u] # TradeTime[t]
      BY DEF AccountInv, PagingKept, TradesSince, recent, Tied
    <2>2. place \in Nat /\ place < size /\ l[place + 1] = t
      BY <1>2, <2>1, PlaceInOrder DEF size
    <2>3. t \in paging.got \/ offset <= place
      BY DEF AccountInv, PagingKept, Pageable, offset, recent
    <2> HIDE DEF place
    <2>4. CASE t \in paging.got
      BY <1>12, <2>4 DEF Pageable
    <2>5. CASE offset <= place /\ place < upto
      <3>1. place + 1 - offset \in 1 .. Len(page)
        BY <1>2, <1>8, <1>9, <2>2, <2>5
      <3>2. page[place + 1 - offset] = l[place + 1]
        BY <1>2, <1>9, <2>2, <3>1
      <3>3. t \in got
        BY <1>9, <2>2, <3>1, <3>2
      <3>4. QED BY <1>12, <3>3 DEF Pageable
    <2>6. CASE offset <= place /\ upto <= place
      <3>1. upto = offset + TradeLimit
        BY <1>3, <1>8, <2>2, <2>6
      <3>2. Len(page) = TradeLimit
        BY <1>2, <1>7, <1>9, <3>1
      <3>3. paging'.stage = "paging" /\ paging'.offset <= place
        BY <1>2, <1>7, <1>12, <2>6, <3>1, <3>2
      <3>4. QED BY <1>12, <3>3 DEF Pageable, place, recent
    <2>7. QED BY <1>8, <2>2, <2>3, <2>4, <2>5, <2>6
  <1>16. CoinsKept' /\ NftKept'
    BY <1>13 DEF AccountInv, CoinsKept, NftKept
  <1>17. QED BY <1>14, <1>15, <1>16 DEF AccountInv

\* A coin, a token or the NFT changes.
LEMMA MoveStep ==
  ASSUME AccountInv,
         \/ \E type \in Types : TokenSaved(type)
         \/ \E c \in DOMAIN CoinType : CoinMoves(c)
         \/ NftMoves
  PROVE  AccountInv'
  <1> USE DEF AccountInv
  <1>1. CASE \E type \in Types : TokenSaved(type)
    <2>1. PICK type \in Types : account' = [account EXCEPT !.tokens = @ \cup {type}]
      BY <1>1 DEF TokenSaved
    <2>2. /\ account'.trades = account.trades /\ account'.coins = account.coins
          /\ account'.nft = account.nft /\ account.tokens \subseteq account'.tokens
          /\ UNCHANGED <<paging, coins, nfts>>
      BY <1>1, <2>1 DEF AccountTyped, TokenSaved
    <2>3. AccountTyped'
      BY <2>1, <2>2 DEF AccountTyped
    <2>4. PagingKept' /\ CoinsKept' /\ NftKept'
      BY <2>2 DEF PagingKept, Tied, CoinsKept, CoinKept, NftKept, NftShown
    <2>5. QED BY <2>3, <2>4
  <1>2. CASE \E c \in DOMAIN CoinType : CoinMoves(c)
    <2>1. PICK c \in DOMAIN CoinType : CoinMoves(c)
      BY <1>2
    <2> DEFINE owned == IF c \in account.coins THEN account.coins \ {c} ELSE account.coins \cup {c}
    <2>2. /\ account' = [account EXCEPT !.coins = owned]
          /\ coins' = [coins EXCEPT !.moved = @ \cup {c}]
          /\ UNCHANGED <<paging, nfts>>
      BY <2>1 DEF CoinMoves
    <2>3. owned \in SUBSET DOMAIN CoinType /\ owned \ {c} = account.coins \ {c}
      BY DEF AccountTyped
    <2> HIDE DEF owned
    <2>4. /\ account'.trades = account.trades /\ account'.coins = owned
          /\ account'.nft = account.nft /\ account'.tokens = account.tokens
      BY <2>2 DEF AccountTyped
    <2>5. /\ coins'.moved = coins.moved \cup {c} /\ coins'.first = coins.first
          /\ coins'.stage = coins.stage /\ coins'.cursor = coins.cursor
          /\ coins'.known = coins.known /\ coins'.named = coins.named
          /\ coins'.times = coins.times
      BY <2>2 DEF AccountTyped
    <2>6. AccountTyped'
      BY <2>2, <2>3 DEF AccountTyped
    <2>7. PagingKept' /\ NftKept'
      BY <2>2, <2>4 DEF PagingKept, Tied, NftKept, NftShown
    <2>8. CoinsKept'
      BY <2>3, <2>4, <2>5 DEF CoinsKept, CoinKept, CoinListed
    <2>9. QED BY <2>6, <2>7, <2>8
  <1>3. CASE NftMoves
    <2> DEFINE other == IF account.nft = "kiosk" THEN "wallet" ELSE "kiosk"
    <2>1. /\ account' = [account EXCEPT !.nft = other]
          /\ nfts' = [nfts EXCEPT !.moved = TRUE]
          /\ UNCHANGED <<paging, coins>>
      BY <1>3 DEF NftMoves
    <2>2. other \in {"wallet", "kiosk"}
      OBVIOUS
    <2> HIDE DEF other
    <2>3. /\ account'.trades = account.trades /\ account'.coins = account.coins
          /\ account'.tokens = account.tokens /\ nfts'.moved
      BY <2>1 DEF AccountTyped
    <2>4. AccountTyped'
      BY <2>1, <2>2 DEF AccountTyped
    <2>5. PagingKept' /\ CoinsKept' /\ NftKept'
      BY <2>1, <2>3 DEF PagingKept, Tied, CoinsKept, CoinKept, NftKept
    <2>6. QED BY <2>4, <2>5
  <1>4. QED BY <1>1, <1>2, <1>3

\* The NFTs are read in two steps.
LEMMA NftStep ==
  ASSUME AccountInv, GetOwnedObjects \/ GetKiosk
  PROVE  AccountInv'
  <1> USE DEF AccountInv
  <1>1. PICK stage \in {"kiosks", "end"}, shown \in Nat :
          /\ nfts' = [nfts EXCEPT !.stage = stage, !.shown = shown]
          /\ nfts.shown = NftShown(account, nfts) => shown =
               IF stage = "kiosks" /\ account.nft = "kiosk" THEN 0
               ELSE IF account.nft = "kiosk" \/ (nfts.page = 1 /\ nfts.image) THEN 1 ELSE 0
    <2>1. nfts.shown \in Nat /\ account.nft \in {"wallet", "kiosk"} /\ nfts.image \in BOOLEAN
      BY DEF AccountTyped
    <2>2. CASE GetOwnedObjects
      <3> DEFINE shown == IF account.nft = "wallet" /\ nfts.page = 1 /\ nfts.image
                          THEN nfts.shown + 1 ELSE nfts.shown
      <3>1. nfts' = [nfts EXCEPT !.stage = "kiosks", !.shown = shown] /\ nfts.stage = "objects"
        BY <2>2 DEF GetOwnedObjects
      <3>2. shown \in Nat /\ (nfts.shown = NftShown(account, nfts) => shown =
               IF account.nft = "kiosk" THEN 0
               ELSE IF account.nft = "kiosk" \/ (nfts.page = 1 /\ nfts.image) THEN 1 ELSE 0)
        BY <2>1, <3>1 DEF NftShown
      <3> HIDE DEF shown
      <3>3. QED BY <3>1, <3>2
    <2>3. CASE GetKiosk
      <3> DEFINE shown == IF account.nft = "kiosk" THEN nfts.shown + 1 ELSE nfts.shown
      <3>1. nfts' = [nfts EXCEPT !.stage = "end", !.shown = shown] /\ nfts.stage = "kiosks"
        BY <2>3 DEF GetKiosk
      <3>2. shown \in Nat /\ (nfts.shown = NftShown(account, nfts) => shown =
               IF account.nft = "kiosk" \/ (nfts.page = 1 /\ nfts.image) THEN 1 ELSE 0)
        BY <2>1, <3>1 DEF NftShown
      <3> HIDE DEF shown
      <3>3. QED BY <3>1, <3>2
    <2>4. QED BY <2>2, <2>3
  <1>2. UNCHANGED <<account, paging, coins>>
    BY DEF GetOwnedObjects, GetKiosk
  <1>3. AccountTyped'
    BY <1>1, <1>2 DEF AccountTyped
  <1>4. nfts'.stage = stage /\ nfts'.shown = shown /\ nfts'.page = nfts.page
        /\ (nfts'.image <=> nfts.image) /\ (nfts'.moved <=> nfts.moved)
    BY <1>1 DEF AccountTyped
  <1>5. NftKept'
    BY <1>1, <1>2, <1>4 DEF NftKept, NftShown
  <1>6. PagingKept' /\ CoinsKept'
    BY <1>2 DEF PagingKept, Tied, CoinsKept
  <1>7. QED BY <1>3, <1>5, <1>6

\* The coins of a page are those after the cursor up to the last of it.
LEMMA PageCut ==
  ASSUME AccountInv, NEW cursor \in Nat
  PROVE  /\ CoinPage(cursor) \subseteq After(cursor) /\ After(cursor) \subseteq DOMAIN CoinType
         /\ CoinPage(cursor) # {} =>
              \E last \in CoinPage(cursor) :
                 /\ last = CHOOSE c \in CoinPage(cursor) : \A d \in CoinPage(cursor) : d <= c
                 /\ cursor < last
                 /\ \A c \in After(cursor) : c \in CoinPage(cursor) <=> c <= last
  <1> DEFINE page == CoinPage(cursor)
             rank(c) == {d \in After(cursor) : d < c}
  <1>1. page \subseteq After(cursor) /\ After(cursor) \subseteq DOMAIN CoinType
        /\ \A c \in After(cursor) : c \in Nat /\ cursor < c
    BY AccountAssumption DEF AccountInv, AccountTyped, CoinPage, After
  <1>2. ASSUME NEW c \in page, NEW d \in After(cursor), d < c PROVE d \in page
    <2>1. rank(d) \subseteq rank(c) /\ rank(c) \in SUBSET DOMAIN CoinType
      BY <1>1, <1>2
    <2>2. /\ Cardinality(rank(d)) <= Cardinality(rank(c))
          /\ Cardinality(rank(c)) \in Nat /\ Cardinality(rank(d)) \in Nat
      <3> HIDE DEF rank
      <3>1. IsFiniteSet(rank(c)) /\ rank(d) \in SUBSET rank(c)
        BY <2>1, FS_Subset, AccountAssumption
      <3>2. QED BY <3>1, FS_Subset, FS_CardinalityType
    <2>3. Cardinality(rank(c)) < CoinLimit
      BY DEF CoinPage
    <2>4. Cardinality(rank(d)) < CoinLimit
      <3> HIDE DEF rank
      <3>1. QED BY <2>2, <2>3, AccountAssumption
    <2>5. QED BY <2>4 DEF CoinPage
  <1> HIDE DEF page
  <1>3. IsFiniteSet(page) /\ page \in SUBSET Nat
    BY <1>1, FS_Subset, AccountAssumption
  <1>4. ASSUME page # {}
        PROVE  \E last \in page :
                 /\ last = CHOOSE c \in page : \A d \in page : d <= c
                 /\ cursor < last
                 /\ \A c \in After(cursor) : c \in page <=> c <= last
    <2> DEFINE last == CHOOSE c \in page : \A d \in page : d <= c
    <2>1. last \in page /\ \A d \in page : d <= last
      BY <1>3, <1>4, GreatestExists
    <2> HIDE DEF last
    <2>2. ASSUME NEW c \in After(cursor), c <= last PROVE c \in page
      <3>1. CASE c = last
        BY <2>1, <3>1
      <3>2. CASE c < last
        BY <1>2, <2>1, <3>2
      <3>3. QED BY <1>1, <2>1, <2>2, <3>1, <3>2
    <2>3. QED BY <1>1, <2>1, <2>2 DEF last
  <1>5. QED BY <1>1, <1>4 DEF page

\* A page of coins: those that stayed are listed up to its last.
LEMMA CoinStep ==
  ASSUME AccountInv, GetAllCoins
  PROVE  AccountInv'
  <1> USE DEF AccountInv
  <1> DEFINE page   == CoinPage(coins.cursor)
             cursor == IF page = {} THEN coins.cursor
                       ELSE CHOOSE c \in page : \A d \in page : d <= c
             stage  == IF page = After(coins.cursor) THEN "end" ELSE "reading"
             times  == [c \in DOMAIN CoinType |->
                          IF c \in page THEN coins.times[c] + 1 ELSE coins.times[c]]
             named  == coins.named \cup {c \in page : Found(c)}
  <1>1. coins.stage = "reading" /\ coins.cursor \in Nat
    BY DEF GetAllCoins, AccountTyped
  <1>2. page \subseteq After(coins.cursor) /\ After(coins.cursor) \subseteq DOMAIN CoinType
        /\ \A c \in After(coins.cursor) : coins.cursor < c /\ c \in account.coins
    BY <1>1, PageCut DEF After
  <1>3. /\ coins' = [coins EXCEPT !.times = times, !.named = named, !.cursor = cursor,
                                  !.stage = stage]
        /\ UNCHANGED <<account, paging, nfts>>
    BY DEF GetAllCoins, CoinsListed, AccountTyped
  <1>4. /\ cursor \in Nat /\ coins.cursor <= cursor
        /\ \A c \in After(coins.cursor) : c <= cursor => c \in page
    <2>1. CASE page = {}
      <3>1. cursor = coins.cursor
        BY <2>1
      <3>2. \A c \in After(coins.cursor) : c \in Nat /\ ~(c <= coins.cursor)
        BY <1>1, <1>2, AccountAssumption
      <3> HIDE DEF page, cursor
      <3>3. QED BY <1>1, <3>1, <3>2
    <2>2. CASE page # {}
      <3>1. PICK last \in page : /\ last = CHOOSE c \in page : \A d \in page : d <= c
                                 /\ coins.cursor < last
                                 /\ \A c \in After(coins.cursor) : c \in page <=> c <= last
        BY <1>1, <2>2, PageCut
      <3>2. cursor = last
        BY <2>2, <3>1
      <3>3. last \in Nat
        BY <1>2, AccountAssumption
      <3> HIDE DEF page, cursor
      <3>4. QED BY <1>1, <3>1, <3>2, <3>3
    <2>3. QED BY <2>1, <2>2
  <1>5. /\ \A c \in page : c \in After(coins.cursor) => c \in DOMAIN CoinType
        /\ page # {} => \A c \in page : c <= cursor
    <2>1. ASSUME page # {} PROVE \A c \in page : c <= cursor
      <3>1. PICK last \in page : /\ last = CHOOSE c \in page : \A d \in page : d <= c
                                 /\ \A c \in After(coins.cursor) : c \in page <=> c <= last
        BY <1>1, <2>1, PageCut
      <3>2. cursor = last
        BY <2>1, <3>1
      <3> HIDE DEF page, cursor
      <3>3. QED BY <1>2, <3>1, <3>2
    <2>2. QED BY <1>2, <2>1
  <1>6. times \in [DOMAIN CoinType -> Nat] /\ named \in SUBSET DOMAIN CoinType
        /\ stage \in {"reading", "end"}
    BY <1>2 DEF AccountTyped
  <1>7. /\ \A c \in DOMAIN CoinType : times[c] = IF c \in page THEN coins.times[c] + 1
                                                              ELSE coins.times[c]
        /\ coins.named \subseteq named /\ \A c \in page : Found(c) => c \in named
        /\ stage = "end" => page = After(coins.cursor)
    OBVIOUS
  <1>8. \A c \in DOMAIN CoinType : c \in Nat
    BY AccountAssumption
  <1> HIDE DEF page, cursor, stage, times, named
  <1>9. /\ coins'.times = times /\ coins'.named = named /\ coins'.cursor = cursor
        /\ coins'.stage = stage /\ coins'.first = coins.first /\ coins'.moved = coins.moved
        /\ coins'.known = coins.known
    BY <1>3 DEF AccountTyped
  <1>10. AccountTyped'
    BY <1>3, <1>4, <1>6 DEF AccountTyped
  <1>11. CoinsKept'
    <2> SUFFICES ASSUME NEW c \in coins.first \ coins.moved
                 PROVE  CoinKept(c, account, coins')
      BY <1>3, <1>9 DEF CoinsKept
    <2>1. /\ c \in account.coins /\ c \in DOMAIN CoinType /\ c \in Nat
          /\ c <= coins.cursor => CoinListed(c, coins)
          /\ coins.cursor < c => coins.times[c] = 0
          /\ coins.known \subseteq account.tokens
      BY <1>1, <1>8 DEF CoinsKept, CoinKept, AccountTyped
    <2>2. CASE c <= coins.cursor
      <3>1. c \notin page
        BY <1>1, <1>2, <2>1, <2>2
      <3>2. CoinListed(c, coins')
        BY <1>7, <1>9, <2>1, <2>2, <3>1 DEF CoinListed
      <3>3. ~(cursor < c)
        BY <1>1, <1>4, <2>1, <2>2
      <3>4. QED BY <1>9, <2>1, <3>2, <3>3 DEF CoinKept
    <2>3. CASE coins.cursor < c /\ c \in page
      <3>1. coins'.times[c] = 1
        BY <1>7, <1>9, <2>1, <2>3
      <3>2. CoinListed(c, coins')
        BY <1>7, <1>9, <2>1, <2>3, <3>1 DEF CoinListed, Found
      <3>3. ~(cursor < c)
        BY <1>4, <1>5, <2>1, <2>3
      <3>4. QED BY <1>9, <2>1, <3>2, <3>3 DEF CoinKept
    <2>4. CASE coins.cursor < c /\ c \notin page
      <3>1. c \in After(coins.cursor)
        BY <2>1, <2>4 DEF After
      <3>2. stage # "end" /\ ~(c <= cursor)
        BY <1>4, <1>7, <2>4, <3>1
      <3>3. coins'.times[c] = 0
        BY <1>7, <1>9, <2>1, <2>4
      <3>4. QED BY <1>9, <2>1, <3>2, <3>3 DEF CoinKept
    <2>5. QED BY <1>1, <2>1, <2>2, <2>3, <2>4
  <1>12. PagingKept' /\ NftKept'
    BY <1>3 DEF PagingKept, Tied, NftKept
  <1>13. QED BY <1>10, <1>11, <1>12

\* Every step of a request keeps its invariant.
LEMMA AccountStep == AccountInv /\ [AccountNext]_accountVars => AccountInv'
  <1> SUFFICES ASSUME AccountInv, [AccountNext]_accountVars PROVE AccountInv'
    OBVIOUS
  <1>1. CASE UNCHANGED accountVars
    BY <1>1 DEF accountVars, AccountInv, AccountTyped, PagingKept, Tied, CoinsKept, NftKept
  <1>2. QED BY <1>1, SavedStep, PageStep, MoveStep, NftStep, CoinStep DEF AccountNext

(***************************************************************************)
(* A client that pages through the trades gets each of those it began      *)
(* with that is alone in its time (trades.ts:157), for any trades, page    *)
(* sizes, and trades saved between its requests.                           *)
(***************************************************************************)
THEOREM PagesSafe == AccountSpec => []TradesPaged
  <1>1. AccountInv => TradesPaged
    BY DEF AccountInv, PagingKept, Pageable, TradesPaged
  <1>2. QED BY <1>1, AccountInvInit, AccountStep, PTL DEF AccountSpec

(***************************************************************************)
(* A coin that stays is listed once, with its name if it was known; an NFT *)
(* that stays is shown once, or not if it has no image or is beyond the    *)
(* first page (holding.ts:243, holding.ts:310), for any coins, page sizes  *)
(* and changes.                                                            *)
(***************************************************************************)
THEOREM HoldingsSafe == AccountSpec => []HoldingsShown
  <1>1. ASSUME AccountInv PROVE HoldingsShown
    <2>1. ASSUME coins.stage = "end", NEW c \in coins.first \ coins.moved
          PROVE  /\ coins.times[c] = 1
                 /\ CoinType[c] \in coins.known \ Misspelt => c \in coins.named
      <3>1. CoinKept(c, account, coins)
        BY <1>1 DEF AccountInv, CoinsKept
      <3>2. CoinListed(c, coins)
        BY <2>1, <3>1 DEF CoinKept
      <3>3. QED BY <3>2 DEF CoinListed
    <2>2. nfts.stage = "end" => nfts.moved \/ nfts.shown = NftExpected
      <3>1. nfts.stage = "end" => NftShown(account, nfts) = NftExpected
        BY DEF NftShown, NftExpected
      <3>2. QED BY <1>1, <3>1 DEF AccountInv, NftKept
    <2>3. QED BY <2>1, <2>2 DEF HoldingsShown
  <1>2. QED BY <1>1, AccountInvInit, AccountStep, PTL DEF AccountSpec


-----------------------------------------------------------------------------
(***************************************************************************)
(* sui-price-feed.                                                         *)
(***************************************************************************)
Sendable == (Metadata \cup {"NULL"}) \X Sinks

FeedTyped ==
  /\ stored \subseteq DOMAIN Swap
  /\ feeding \in {"idle", "fetching", "querying", "sending"}
  /\ feeds \in Seq([swaps : SUBSET DOMAIN Swap, sent : SUBSET Sendable, lost : SUBSET Sendable])

\* Each price of a run is with exactly one of three sets; the sends under way
\* are those of the last run.
RunKept(n, under) ==
  /\ feeds[n].sent \cap feeds[n].lost = {}
  /\ under \cap (feeds[n].sent \cup feeds[n].lost) = {}
  /\ feeds[n].sent \cup feeds[n].lost \cup under = Prices(feeds[n].swaps) \X Sinks

RunsKept ==
  \A n \in 1 .. Len(feeds) :
     RunKept(n, IF feeding = "sending" /\ n = Len(feeds) THEN sends ELSE {})

SendsHaveRun == /\ feeding = "sending" => Len(feeds) > 0
                /\ feeding # "sending" => sends = {}

FeedInv == FeedTyped /\ RunsKept /\ SendsHaveRun

\* Prices are of tokens with metadata, or of those without a name.
LEMMA PricesNamed == \A swaps : Prices(swaps) \X Sinks \subseteq Sendable
BY DEF Prices, Sendable, Group

\* At the start there has been no run.
LEMMA FeedInvInit == FeedInit => FeedInv
BY DEF FeedInit, FeedInv, FeedTyped, RunsKept, SendsHaveRun

\* A price is sent, or is lost.
LEMMA SendStep ==
  ASSUME FeedInv, NEW s \in sends, feeding' = feeding, stored' = stored,
         sends' = sends \ {s},
         \/ feeds' = [feeds EXCEPT ![Len(feeds)].sent = @ \cup {s}]
         \/ feeds' = [feeds EXCEPT ![Len(feeds)].lost = @ \cup {s}]
  PROVE  FeedInv'
<1> DEFINE k == Len(feeds)
<1>1. /\ feeding = "sending" /\ k \in Nat \ {0} /\ k \in 1 .. Len(feeds)
      /\ feeds \in Seq([swaps : SUBSET DOMAIN Swap, sent : SUBSET Sendable, lost : SUBSET Sendable])
  BY DEF FeedInv, FeedTyped, SendsHaveRun
<1>2. RunKept(k, sends)
  BY <1>1 DEF FeedInv, RunsKept
<1>3. s \in Sendable
  BY <1>1, <1>2, PricesNamed DEF RunKept
<1> DEFINE Feed == [swaps : SUBSET DOMAIN Swap, sent : SUBSET Sendable, lost : SUBSET Sendable]
           new == feeds'[k]
<1>12. feeds[k] \in Feed
  <2> HIDE DEF Feed
  <2>1. feeds \in Seq(Feed)
    BY <1>1 DEF Feed
  <2> QED
    BY <1>1, <2>1
<1>4. /\ feeds[k] \in Feed
      /\ \/ feeds' = [feeds EXCEPT ![k] = [feeds[k] EXCEPT !.sent = @ \cup {s}]]
         \/ feeds' = [feeds EXCEPT ![k] = [feeds[k] EXCEPT !.lost = @ \cup {s}]]
  BY <1>1, <1>12
<1>9. /\ new \in Feed
      /\ new.swaps = feeds[k].swaps
      /\ \/ new.sent = feeds[k].sent \cup {s} /\ new.lost = feeds[k].lost
         \/ new.lost = feeds[k].lost \cup {s} /\ new.sent = feeds[k].sent
  BY <1>1, <1>3, <1>4
<1>10. /\ Len(feeds') = k
       /\ \A n \in 1 .. k : n # k => feeds'[n] = feeds[n]
       /\ \E e : feeds' = [feeds EXCEPT ![k] = e]
  BY <1>1, <1>4
<1>11. feeds' \in Seq(Feed)
  <2> HIDE DEF Feed
  <2> PICK e : feeds' = [feeds EXCEPT ![k] = e]
    BY <1>10
  <2> e \in Feed
    BY <1>1, <1>9 DEF Feed
  <2> QED
    BY <1>1, ExceptSeq DEF Feed
<1>5. RunKept(k, sends)'
  BY <1>1, <1>2, <1>9, <1>10 DEF RunKept
<1>6. ASSUME NEW n \in 1 .. k, n # k
      PROVE  RunKept(n, {})'
  BY <1>1, <1>10, <1>6 DEF FeedInv, RunsKept, RunKept
<1>7. RunsKept'
  BY <1>1, <1>10, <1>5, <1>6 DEF RunsKept
<1> QED
  BY <1>1, <1>10, <1>11, <1>7 DEF FeedInv, FeedTyped, SendsHaveRun

\* Every step of the feed keeps its invariant.
LEMMA FeedStep == FeedInv /\ [FeedNext]_feedVars => FeedInv'
<1> SUFFICES ASSUME FeedInv, [FeedNext]_feedVars
             PROVE  FeedInv'
  OBVIOUS
<1> DEFINE Feed == [swaps : SUBSET DOMAIN Swap, sent : SUBSET Sendable, lost : SUBSET Sendable]
<1>1. ASSUME feeding' = feeding \/ (feeding' # "sending" /\ feeding # "sending"),
             feeding' \in {"idle", "fetching", "querying", "sending"},
             feeds' = feeds, sends' = sends, stored' \subseteq DOMAIN Swap
      PROVE  FeedInv'
  BY <1>1 DEF FeedInv, FeedTyped, RunsKept, RunKept, SendsHaveRun
<1>2. CASE NewCheckpoint \/ UNCHANGED feedVars
  BY <1>1, <1>2 DEF FeedInv, FeedTyped, NewCheckpoint, feedVars
<1>3. ASSUME NEW t \in DOMAIN Swap, SaveSwap(t)
      PROVE  FeedInv'
  BY <1>1, <1>3 DEF FeedInv, FeedTyped, SaveSwap
<1>4. CASE GetPriceFeed \/ FetchLatestCheckpoint
  BY <1>1, <1>4 DEF FeedInv, FeedTyped, GetPriceFeed, FetchLatestCheckpoint
<1>5. CASE QueryPrices
  <2>1. CASE sends' = {}/\ feeding' = "idle" /\ feeds' = feeds
    BY <1>5, <2>1, <1>1 DEF FeedInv, FeedTyped, QueryPrices, SendsHaveRun
  <2>2. CASE /\ sends' = Prices(Seen) \X Sinks
             /\ feeds' = Append(feeds, [swaps |-> Seen, sent |-> {}, lost |-> {}])
             /\ feeding' = "sending"
    <3> DEFINE new == [swaps |-> Seen, sent |-> {}, lost |-> {}]
    <3>1. /\ feeds \in Seq(Feed) /\ new \in Feed /\ new.swaps = Seen
          /\ new.sent = {} /\ new.lost = {} /\ feeds' = Append(feeds, new)
          /\ feeding = "querying" /\ stored' = stored
      BY <1>5, <2>2 DEF FeedInv, FeedTyped, QueryPrices, Seen
    <3> HIDE DEF new, Feed
    <3>2. /\ feeds' \in Seq(Feed) /\ Len(feeds') = Len(feeds) + 1 /\ Len(feeds) \in Nat
          /\ feeds'[Len(feeds')] = new
          /\ \A n \in 1 .. Len(feeds) : feeds'[n] = feeds[n]
      BY <3>1
    <3>3. \A n \in 1 .. Len(feeds) : RunKept(n, {})'
      BY <3>1, <3>2 DEF FeedInv, RunsKept, RunKept
    <3>4. RunKept(Len(feeds), sends)'
      BY <3>1, <3>2, <2>2 DEF RunKept
    <3>5. RunsKept'
      BY <3>2, <3>3, <3>4, <2>2 DEF RunsKept
    <3> QED
      BY <3>1, <3>2, <3>5, <2>2 DEF FeedInv, FeedTyped, SendsHaveRun, Feed
  <2>3. feeding = "querying"
    BY <1>5 DEF QueryPrices
  <2> QED
    BY <1>5, <2>1, <2>2, <2>3 DEF QueryPrices, FeedInv, SendsHaveRun
<1>6. CASE WaitSends
  BY <1>6 DEF FeedInv, FeedTyped, RunsKept, RunKept, SendsHaveRun, WaitSends
<1>7. CASE StopFeed
  <2>1. CASE feeding # "sending"
    BY <1>1, <1>7, <2>1 DEF FeedInv, FeedTyped, SendsHaveRun, StopFeed
  <2>2. CASE feeding = "sending"
    <3> HIDE DEF Feed
    <3>1. /\ feeds \in Seq(Feed) /\ Len(feeds) \in Nat \ {0} /\ stored' = stored
          /\ feeds' = SubSeq(feeds, 1, Len(feeds) - 1)
          /\ feeding' = "idle" /\ sends' = {}
      BY <1>7, <2>2 DEF FeedInv, FeedTyped, SendsHaveRun, StopFeed, Feed
    <3>2. /\ feeds' \in Seq(Feed) /\ Len(feeds') = Len(feeds) - 1
          /\ \A n \in 1 .. Len(feeds') : feeds'[n] = feeds[n]
      <4> DEFINE m == Len(feeds) - 1
      <4>1. m \in Nat /\ (1 <= m \/ m = 0)
        <5>1. /\ Len(feeds) \in Nat \ {0}
              /\ \A len \in Nat \ {0} : len - 1 \in Nat /\ (1 <= len - 1 \/ len - 1 = 0)
          BY <3>1
        <5> QED
          BY <5>1
      <4>3. \A i \in 1 .. m : feeds[i] \in Feed
        BY <3>1, <4>1, ElementOfSeq
      <4>2. /\ SubSeq(feeds, 1, m) \in Seq(Feed)
            /\ Len(SubSeq(feeds, 1, m)) = IF 1 <= m THEN m - 1 + 1 ELSE 0
            /\ \A i \in 1 .. m - 1 + 1 : SubSeq(feeds, 1, m)[i] = feeds[1 + i - 1]
        BY <4>1, <4>3, SubSeqProperties
      <4> QED
        BY <3>1, <4>1, <4>2, Z3
    <3>3. RunsKept'
      BY <2>2, <3>1, <3>2 DEF FeedInv, RunsKept, RunKept
    <3> QED
      BY <3>1, <3>2, <3>3 DEF FeedInv, FeedTyped, SendsHaveRun, Feed
  <2> QED
    BY <2>1, <2>2
<1>8. ASSUME NEW s \in sends, Send(s) \/ SendFails(s)
      PROVE  FeedInv'
  BY <1>8, SendStep DEF Send, SendFails
<1> QED
  BY <1>2, <1>3, <1>4, <1>5, <1>6, <1>7, <1>8 DEF FeedNext

(***************************************************************************)
(* A finished run has a price of each token it saw in both sinks, save for *)
(* the sends that failed by themselves, whatever the trades, the tokens    *)
(* and the failures.                                                       *)
(***************************************************************************)
THEOREM FeedsSafe == FeedSpec => []PricedInBothSinks
<1>1. FeedInv => PricedInBothSinks
  BY DEF FeedInv, FeedTyped, RunsKept, RunKept, PricedInBothSinks
<1> QED
  BY <1>1, FeedInvInit, FeedStep, PTL DEF FeedSpec

-----------------------------------------------------------------------------
(***************************************************************************)
(* The CLI: sync-trades.                                                   *)
(***************************************************************************)
\* What the running command has not come to.
Ahead(l) == l[1] > file \/ (l[1] = file /\ l[2] > line)

Pending(l) == syncing /\ (Ahead(l) \/ l \in buffer)

SyncTyped ==
  /\ source \in Sources /\ syncing \in BOOLEAN
  /\ file \in Listing /\ line \in 0 .. Len(source.files[file])
  /\ copies \in [Line -> Nat]
  /\ syncs \in Nat /\ syncsOk \in Nat

\* Where the command stands: it has accepted all lines of this file so far,
\* and stops, locally, only at one it does not accept.
SyncPlace ==
  syncing =>
    /\ buffer \subseteq Reached
    /\ \A n \in 1 .. line : Accepted(<<file, n>>)
    /\ cut /\ source.from = "local" => ~Accepted(NextLine)
    /\ ~cut => \A l \in buffer : ~Ahead(l)

\* What is pending has been copied by the commands before at most.
AtMostOnce ==
  \A l \in Line : copies[l] <= syncs /\ (Pending(l) => copies[l] + 1 <= syncs)

\* What is not has been copied by the running command too.
AtLeastOnce ==
  \A l \in Reached : /\ copies[l] >= syncsOk
                     /\ syncing /\ ~Pending(l) => copies[l] >= syncsOk + 1

NothingBeyond == \A l \in Line \ Reached : copies[l] = 0

SyncInv == SyncTyped /\ SyncPlace /\ AtMostOnce /\ AtLeastOnce /\ NothingBeyond

-----------------------------------------------------------------------------
\* A line is a file and a number in it.
LEMMA LinesPlaced ==
  ASSUME source \in Sources
  PROVE  /\ source.from \in {"local", "s3"}
         /\ Len(source.files) \in Nat \ {0}
         /\ source.from = "local" => Len(source.files) = 1
         /\ \A f \in 1 .. Len(source.files) : Len(source.files[f]) \in Nat
         /\ \A l : l \in Line <=> \E f \in 1 .. Len(source.files) : \E n \in 1 .. Len(source.files[f]) :
                                    l = <<f, n>>
         /\ \A l \in Line : /\ l = <<l[1], l[2]>> /\ l[1] \in 1 .. Len(source.files)
                            /\ l[2] \in 1 .. Len(source.files[l[1]])
<1> DEFINE fs == source.files
<1>1. /\ source.from \in {"local", "s3"}
      /\ fs \in Seq(Seq(LineKinds)) /\ Len(fs) > 0
      /\ source.from = "local" => Len(fs) = 1
  BY SyncAssumption, Zenon
<1>2. DOMAIN fs = 1 .. Len(fs) /\ Len(fs) \in Nat \ {0}
  BY <1>1
<1>3. \A f \in 1 .. Len(fs) : fs[f] \in Seq(LineKinds)
  BY <1>1, <1>2
<1>4. \A f \in 1 .. Len(fs) : DOMAIN fs[f] = 1 .. Len(fs[f]) /\ Len(fs[f]) \in Nat
  BY <1>3
<1>5. \A l : l \in Line <=> \E f \in 1 .. Len(fs) : \E n \in 1 .. Len(fs[f]) : l = <<f, n>>
  <2>1. \A l : l \in Line <=> \E f \in DOMAIN fs : l \in {f} \X DOMAIN fs[f]
    BY DEF Line
  <2>2. \A f, ns, l : l \in {f} \X ns <=> \E n \in ns : l = <<f, n>>
    OBVIOUS
  <2> HIDE DEF fs
  <2> QED
    <3>1. DOMAIN fs = 1 .. Len(fs) /\ \A f \in 1 .. Len(fs) : DOMAIN fs[f] = 1 .. Len(fs[f])
      BY <1>2, <1>4
    <3>2. \A l, f : l \in {f} \X DOMAIN fs[f] <=> \E n \in DOMAIN fs[f] : l = <<f, n>>
      BY <2>2
    <3> QED
      BY <2>1, <3>1, <3>2
<1> HIDE DEF fs
<1>6. \A l \in Line : l = <<l[1], l[2]>> /\ l[1] \in 1 .. Len(fs) /\ l[2] \in 1 .. Len(fs[l[1]])
  BY <1>5
<1> QED
  BY <1>1, <1>2, <1>4, <1>5, <1>6 DEF fs

\* The listing is the first files.
LEMMA ListingFirst ==
  ASSUME source \in Sources
  PROVE  /\ Listing \subseteq 1 .. Len(source.files) /\ 1 \in Listing
         /\ \A f \in Listing, g \in 1 .. Len(source.files) :
               (g <= f => g \in Listing) /\ (f + 1 \notin Listing /\ g \in Listing => g <= f)
         /\ \A f \in Listing : source.from = "local" => f + 1 \notin Listing
<1>1. /\ Len(source.files) \in Nat \ {0} /\ DOMAIN source.files = 1 .. Len(source.files)
      /\ source.from \in {"local", "s3"} /\ source.from = "local" => Len(source.files) = 1
      /\ ListLimit \in Nat \ {0}
  BY SyncAssumption, LinesPlaced
<1> QED
  BY <1>1 DEF Listing

\* At the start nothing is saved and no command runs.
LEMMA SyncInvInit == SyncInit => SyncInv
<1> SUFFICES ASSUME SyncInit
             PROVE  SyncInv
  OBVIOUS
<1>1. /\ source \in Sources /\ file = 1 /\ line = 0 /\ syncing = FALSE
      /\ copies = [l \in Line |-> 0] /\ syncs = 0 /\ syncsOk = 0
  BY DEF SyncInit
<1>2. Reached \subseteq Line
  BY DEF Reached
<1>3. SyncTyped
  <2>1. file \in Listing /\ file \in 1 .. Len(source.files)
    BY <1>1, ListingFirst
  <2>2. Len(source.files[file]) \in Nat
    BY <1>1, <2>1, LinesPlaced
  <2>3. copies \in [Line -> Nat]
    BY <1>1
  <2> QED
    <3>1. line \in 0 .. Len(source.files[file])
      BY <1>1, <2>2
    <3>2. syncing \in BOOLEAN /\ syncs \in Nat /\ syncsOk \in Nat
      BY <1>1
    <3> QED
      BY <1>1, <2>1, <2>3, <3>1, <3>2, Zenon DEF SyncTyped
<1> QED
  BY <1>1, <1>2, <1>3 DEF SyncInv, SyncPlace, AtMostOnce, AtLeastOnce, NothingBeyond, Pending

\* The line a command takes is one a command reaches.
LEMMA NextReached ==
  ASSUME SyncInv, Unread, Accepted(NextLine)
  PROVE  NextLine \in Reached
<1>1. /\ source \in Sources /\ file \in Listing /\ line \in 0 .. Len(source.files[file])
      /\ line < Len(source.files[file]) /\ file \in 1 .. Len(source.files)
      /\ Len(source.files[file]) \in Nat
  BY LinesPlaced, ListingFirst DEF SyncInv, SyncTyped, Unread
<1>2. NextLine \in Line
  BY <1>1, LinesPlaced DEF NextLine
<1>3. NextLine[1] = file /\ NextLine[2] = line + 1
  BY DEF NextLine
<1>4. \A n \in 1 .. line + 1 : Accepted(<<file, n>>)
  <2>1. \A n \in 1 .. line : Accepted(<<file, n>>)
    BY DEF SyncInv, SyncPlace, Unread
  <2>2. Accepted(<<file, line + 1>>)
    BY DEF NextLine
  <2>3. \A n \in 1 .. line + 1 : n \in 1 .. line \/ n = line + 1
    BY <1>1
  <2> QED
    BY <2>1, <2>2, <2>3
<1> QED
  BY <1>1, <1>2, <1>3, <1>4 DEF Reached

\* What a step that leaves the source does not change.
LEMMA SameSource ==
  ASSUME source' = source
  PROVE  /\ Line' = Line /\ Listing' = Listing /\ Reached' = Reached
         /\ \A l : Accepted(l)' = Accepted(l)
<1>1. Line' = Line /\ Listing' = Listing
  BY DEF Line, Listing
<1>2. \A l : Accepted(l)' = Accepted(l)
  BY DEF Accepted, Kind
<1> QED
  BY <1>1, <1>2, Zenon DEF Reached

\* Saving what is pending keeps the table right, whatever becomes of the answer.
LEMMA SavedOnce ==
  ASSUME SyncInv, source' = source, syncs' = syncs,
         NEW full \in SUBSET Reached, \A l \in full : Pending(l),
         InTable(full) \/ copies' = copies
  PROVE  /\ copies' \in [Line -> Nat]
         /\ \A l \in Line : /\ copies'[l] <= syncs /\ copies'[l] >= copies[l]
                            /\ l \notin full => copies'[l] = copies[l]
                            /\ InTable(full) /\ l \in full => copies'[l] = copies[l] + 1
         /\ NothingBeyond'
<1>1. copies \in [Line -> Nat] /\ syncs \in Nat
  BY DEF SyncInv, SyncTyped
<1>2. Reached \subseteq Line /\ full \subseteq Line
  BY DEF Reached
<1>3. \A l \in Line : copies[l] <= syncs /\ (l \in full => copies[l] + 1 <= syncs)
  BY <1>1, <1>2 DEF SyncInv, AtMostOnce
<1>4. /\ copies' \in [Line -> Nat]
      /\ \A l \in Line : copies'[l] = copies[l] \/ (l \in full /\ copies'[l] = copies[l] + 1)
      /\ InTable(full) => \A l \in full : copies'[l] = copies[l] + 1
  BY <1>1, <1>2 DEF InTable
<1>5. NothingBeyond'
  BY <1>4, SameSource DEF SyncInv, NothingBeyond
<1> QED
  BY <1>1, <1>2, <1>3, <1>4, <1>5

\* A command stops with an error.
LEMMA FailStep ==
  ASSUME SyncInv, syncing, EndSync(FALSE),
         source' = source, syncs' = syncs, file' = file,
         line' \in 0 .. Len(source.files[file]),
         NEW full \in SUBSET Reached, \A l \in full : Pending(l),
         InTable(full) \/ copies' = copies
  PROVE  SyncInv'
<1>1. /\ syncing' = FALSE /\ syncsOk' = syncsOk /\ syncs \in Nat /\ syncsOk \in Nat
      /\ file \in Listing /\ source \in Sources /\ copies \in [Line -> Nat]
  BY DEF EndSync, SyncInv, SyncTyped
<1>2. /\ copies' \in [Line -> Nat] /\ NothingBeyond'
      /\ \A l \in Line : copies'[l] <= syncs /\ copies'[l] >= copies[l]
  BY SavedOnce
<1>3. Reached \subseteq Line
  BY DEF Reached
<1>4. SyncTyped'
  BY <1>1, <1>2, SameSource DEF SyncTyped
<1>5. AtMostOnce' /\ SyncPlace'
  BY <1>1, <1>2, SameSource DEF AtMostOnce, Pending, SyncPlace
<1>6. AtLeastOnce'
  <2>1. \A l \in Reached : copies[l] >= syncsOk /\ copies[l] \in Nat /\ copies'[l] \in Nat
    BY <1>1, <1>2, <1>3 DEF SyncInv, AtLeastOnce
  <2>2. \A l \in Reached : copies'[l] >= syncsOk
    BY <1>1, <1>2, <1>3, <2>1
  <2> QED
    BY <1>1, <2>2, SameSource DEF AtLeastOnce
<1> QED
  BY <1>2, <1>4, <1>5, <1>6 DEF SyncInv

\* A command begins: every line is ahead of it.
LEMMA SyncStarts == SyncInv /\ StartSync => SyncInv'
<1> SUFFICES ASSUME SyncInv, StartSync
             PROVE  SyncInv'
  OBVIOUS
<1>1. /\ source' = source /\ copies' = copies /\ syncs' = syncs + 1 /\ syncsOk' = syncsOk
      /\ syncing' = TRUE /\ ~syncing /\ file' = 1 /\ line' = 0 /\ buffer' = {} /\ cut' = FALSE
      /\ syncs \in Nat /\ syncsOk \in Nat /\ source \in Sources /\ copies \in [Line -> Nat]
  BY DEF StartSync, SyncInv, SyncTyped
<1>2. /\ 1 \in Listing /\ 1 \in 1 .. Len(source.files)
      /\ Len(source.files[1]) \in Nat
  BY <1>1, ListingFirst, LinesPlaced
<1>3. SyncTyped'
  <2>1. syncs' \in Nat /\ line' \in 0 .. Len(source.files[1])
    BY <1>1, <1>2
  <2> QED
    BY <1>1, <1>2, <2>1, SameSource DEF SyncTyped
<1>4. SyncPlace'
  BY <1>1 DEF SyncPlace
<1>5. \A l \in Line : Ahead(l)'
  BY <1>1, LinesPlaced DEF Ahead
<1>6. AtMostOnce'
  <2>1. \A l \in Line : copies[l] <= syncs /\ copies[l] \in Nat
    BY <1>1 DEF SyncInv, AtMostOnce
  <2> QED
    BY <1>1, <2>1, SameSource DEF AtMostOnce
<1>7. AtLeastOnce'
  BY <1>1, <1>5, SameSource DEF SyncInv, AtLeastOnce, Pending, Reached
<1>8. NothingBeyond'
  BY <1>1, SameSource DEF SyncInv, NothingBeyond
<1> QED
  BY <1>3, <1>4, <1>6, <1>7, <1>8 DEF SyncInv

\* A line is taken: it waits in the buffer, or is saved with what waits.
LEMMA TakeStep == SyncInv /\ TakeLine => SyncInv'
<1> SUFFICES ASSUME SyncInv, TakeLine
             PROVE  SyncInv'
  OBVIOUS
<1> DEFINE full == buffer \cup {NextLine}
<1>1. /\ source' = source /\ syncs' = syncs /\ file' = file /\ cut' = cut /\ line' = line + 1
      /\ syncing /\ ~cut /\ Accepted(NextLine)
      /\ line \in Nat /\ syncs \in Nat /\ syncsOk \in Nat /\ file \in Listing
      /\ source \in Sources /\ copies \in [Line -> Nat]
  BY ListingFirst, LinesPlaced DEF TakeLine, Unread, SyncInv, SyncTyped
<1>2. line' \in 0 .. Len(source.files[file])
  BY <1>1, ListingFirst, LinesPlaced DEF SyncInv, SyncTyped, TakeLine, Unread
<1>3. NextLine \in Reached
  BY NextReached DEF TakeLine
<1>4. full \subseteq Reached
  BY <1>1, <1>3 DEF SyncInv, SyncPlace
<1>5. NextLine[1] = file /\ NextLine[2] = line + 1
  BY DEF NextLine
<1>6. \A l \in full : Pending(l)
  BY <1>1, <1>5 DEF Pending, Ahead
<1>7. (\A n \in 1 .. line : Accepted(<<file, n>>))'
  <2>1. \A n \in 1 .. line + 1 : n \in 1 .. line \/ n = line + 1
    BY <1>1
  <2>2. \A n \in 1 .. line + 1 : Accepted(<<file, n>>)
    BY <1>1, <2>1 DEF SyncInv, SyncPlace, NextLine
  <2> QED
    BY <1>1, <2>2 DEF Accepted, Kind
<1>8. \A l \in Line : Ahead(l) => Ahead(l)' \/ l = NextLine
  <2>1. \A l \in Line : l = <<l[1], l[2]>> /\ l[2] \in Nat
    BY <1>1, LinesPlaced
  <2> QED
    BY <1>1, <2>1 DEF Ahead, NextLine
<1>9. \A l \in Line : Ahead(l)' => Ahead(l)
  <2>1. \A l \in Line : l[2] \in Nat /\ l[1] \in Nat
    BY <1>1, LinesPlaced
  <2> QED
    BY <1>1, <2>1 DEF Ahead
<1>10. Reached \subseteq Line
  BY DEF Reached
<1>14. \A l \in full : ~Ahead(l)'
  <2>1. file \in Nat
    BY <1>1, ListingFirst, LinesPlaced
  <2>3. \A l : l = NextLine => ~Ahead(l)'
    BY <1>1, <1>5, <2>1 DEF Ahead
  <2>4. \A l \in buffer : l \in Line /\ ~Ahead(l)
    BY <1>1, <1>4, <1>10 DEF SyncInv, SyncPlace
  <2> QED
    BY <1>9, <2>3, <2>4
<1> HIDE DEF full
<1>11. CASE /\ buffer' = full /\ UNCHANGED <<copies, syncing, syncsOk>>
  <2>1. SyncTyped'
    BY <1>1, <1>2, <1>11, SameSource DEF SyncTyped
  <2>2. SyncPlace'
    <3>1. (buffer \subseteq Reached)'
      BY <1>1, <1>4, <1>11, SameSource
    <3>2. (\A l \in buffer : ~Ahead(l))'
      BY <1>11, <1>14
    <3> QED
      BY <1>1, <1>7, <1>11, <3>1, <3>2 DEF SyncPlace
  <2>3. \A l \in Line : Pending(l)' <=> Pending(l)
    BY <1>1, <1>3, <1>6, <1>8, <1>9, <1>11, <1>10 DEF Pending, full
  <2>4. AtMostOnce'
    BY <1>1, <1>11, <2>3, SameSource DEF SyncInv, AtMostOnce
  <2>5. AtLeastOnce'
    BY <1>1, <1>11, <2>3, <1>10, SameSource DEF SyncInv, AtLeastOnce
  <2>6. NothingBeyond'
    BY <1>11, <1>1, SameSource DEF SyncInv, NothingBeyond
  <2> QED
    BY <2>1, <2>2, <2>4, <2>5, <2>6 DEF SyncInv
<1>12. CASE /\ CreateTrades(full) /\ buffer' = {} /\ UNCHANGED <<syncing, syncsOk>>
  <2>1. InTable(full)
    BY <1>12 DEF CreateTrades
  <2>2. /\ copies' \in [Line -> Nat] /\ NothingBeyond'
        /\ \A l \in Line : /\ copies'[l] <= syncs /\ copies'[l] >= copies[l]
                           /\ l \notin full => copies'[l] = copies[l]
                           /\ l \in full => copies'[l] = copies[l] + 1
    BY <1>1, <1>4, <1>6, <2>1, SavedOnce
  <2>3. SyncTyped'
    BY <1>1, <1>2, <1>12, <2>2, SameSource DEF SyncTyped
  <2>4. SyncPlace'
    BY <1>1, <1>7, <1>12 DEF SyncPlace
  <2>5. \A l \in Line : /\ Pending(l)' => Pending(l) /\ l \notin full
                        /\ Pending(l) /\ l \notin full => Pending(l)'
    <3>1. \A l \in Line : Ahead(l)' => l \notin full
      BY <1>14
    <3> QED
      BY <1>1, <1>8, <1>9, <1>12, <3>1 DEF Pending, full
  <2>6. AtMostOnce'
    BY <1>1, <1>12, <2>2, <2>5, SameSource DEF SyncInv, AtMostOnce
  <2>7. AtLeastOnce'
    BY <1>1, <1>12, <2>2, <2>5, <1>10, SameSource DEF SyncInv, AtLeastOnce
  <2> QED
    BY <2>2, <2>3, <2>4, <2>6, <2>7 DEF SyncInv
<1>13. CASE CreateTradesFails(full) /\ EndSync(FALSE)
  BY <1>1, <1>2, <1>4, <1>6, <1>13, FailStep DEF CreateTradesFails
<1> QED
  BY <1>11, <1>12, <1>13 DEF TakeLine, full

\* A line that is not accepted ends the file, or the command.
LEMMA LeaveStep == SyncInv /\ LeaveLine => SyncInv'
<1> SUFFICES ASSUME SyncInv, LeaveLine
             PROVE  SyncInv'
  OBVIOUS
<1>1. /\ source' = source /\ syncs' = syncs /\ file' = file /\ line' = line /\ copies' = copies
      /\ buffer' = buffer /\ syncing /\ ~Accepted(NextLine)
      /\ line \in 0 .. Len(source.files[file])
  BY DEF LeaveLine, Unread, SyncInv, SyncTyped
<1>2. CASE cut' = TRUE /\ UNCHANGED <<syncing, syncsOk>>
  <2>1. SyncTyped' /\ NothingBeyond'
    BY <1>1, <1>2, SameSource DEF SyncInv, SyncTyped, NothingBeyond
  <2>2. \A l : Pending(l)' <=> Pending(l)
    BY <1>1, <1>2 DEF Pending, Ahead
  <2>3. AtMostOnce'
    BY <1>1, <1>2, <2>2, SameSource DEF SyncInv, AtMostOnce
  <2>4. AtLeastOnce'
    BY <1>1, <1>2, <2>2, SameSource DEF SyncInv, AtLeastOnce
  <2>5. SyncPlace'
    <3>1. (~Accepted(NextLine))'
      BY <1>1 DEF Accepted, Kind, NextLine
    <3>2. (\A n \in 1 .. line : Accepted(<<file, n>>))'
      BY <1>1 DEF Accepted, Kind, SyncInv, SyncPlace
    <3> QED
      BY <1>1, <1>2, <3>1, <3>2, SameSource DEF SyncInv, SyncPlace
  <2> QED
    BY <2>1, <2>3, <2>4, <2>5 DEF SyncInv
<1>3. CASE EndSync(FALSE)
  <2>1. {} \in SUBSET Reached /\ \A l \in {} : Pending(l)
    OBVIOUS
  <2> QED
    BY <1>1, <1>3, <2>1, FailStep
<1> QED
  BY <1>2, <1>3 DEF LeaveLine

\* The stream of an object ends early, within a line perhaps.
LEMMA CutStep == SyncInv /\ CutStream => SyncInv'
<1> SUFFICES ASSUME SyncInv, CutStream
             PROVE  SyncInv'
  OBVIOUS
<1>1. /\ source' = source /\ syncs' = syncs /\ file' = file /\ line' = line /\ copies' = copies
      /\ syncing /\ source.from = "s3" /\ line \in 0 .. Len(source.files[file])
      /\ line \in Nat /\ file \in Nat
  BY ListingFirst, LinesPlaced DEF CutStream, Unread, SyncInv, SyncTyped
<1>2. CASE /\ cut' = TRUE /\ UNCHANGED <<syncing, syncsOk>>
           /\ \/ buffer' = buffer
              \/ Accepted(NextLine) /\ buffer' = buffer \cup {NextLine}
  <2>1. SyncTyped' /\ NothingBeyond'
    BY <1>1, <1>2, SameSource DEF SyncInv, SyncTyped, NothingBeyond
  <2>2. \A l : Pending(l)' <=> Pending(l)
    <3>1. Ahead(NextLine)
      BY <1>1 DEF Ahead, NextLine
    <3> QED
      BY <1>1, <1>2, <3>1 DEF Pending, Ahead
  <2>3. AtMostOnce'
    BY <1>1, <1>2, <2>2, SameSource DEF SyncInv, AtMostOnce
  <2>4. AtLeastOnce'
    BY <1>1, <1>2, <2>2, SameSource DEF SyncInv, AtLeastOnce
  <2>5. SyncPlace'
    <3>1. (\A n \in 1 .. line : Accepted(<<file, n>>))'
      BY <1>1 DEF Accepted, Kind, SyncInv, SyncPlace
    <3>2. (buffer \subseteq Reached)'
      BY <1>1, <1>2, NextReached, SameSource DEF SyncInv, SyncPlace, CutStream
    <3> QED
      BY <1>1, <1>2, <3>1, <3>2 DEF SyncPlace
  <2> QED
    BY <2>1, <2>3, <2>4, <2>5 DEF SyncInv
<1>3. CASE EndSync(FALSE)
  <2>1. {} \in SUBSET Reached /\ \A l \in {} : Pending(l)
    OBVIOUS
  <2> QED
    BY <1>1, <1>3, <2>1, FailStep
<1> QED
  BY <1>2, <1>3 DEF CutStream

\* At the end of a file what waits is saved; the command goes on, or ends.
LEMMA FileStep == SyncInv /\ EndOfLines => SyncInv'
<1> SUFFICES ASSUME SyncInv, EndOfLines
             PROVE  SyncInv'
  OBVIOUS
<1>1. /\ source' = source /\ syncs' = syncs /\ cut' = cut /\ buffer' = {} /\ syncing
      /\ cut \/ line = Len(source.files[file])
      /\ line \in 0 .. Len(source.files[file]) /\ Len(source.files[file]) \in Nat
      /\ file \in Listing /\ file \in 1 .. Len(source.files) /\ Len(source.files) \in Nat
      /\ source \in Sources /\ syncs \in Nat /\ syncsOk \in Nat /\ copies \in [Line -> Nat]
  BY ListingFirst, LinesPlaced DEF EndOfLines, SyncInv, SyncTyped
<1>2. buffer \in SUBSET Reached /\ \A l \in buffer : Pending(l)
  BY <1>1 DEF SyncInv, SyncPlace, Pending
<1>3. CASE EndSync(FALSE) /\ UNCHANGED <<file, line>> /\ (InTable(buffer) \/ copies' = copies)
  BY <1>1, <1>2, <1>3, FailStep
<1>4. ASSUME InTable(buffer), ~(cut /\ source.from = "s3")
      PROVE  /\ copies' \in [Line -> Nat] /\ NothingBeyond'
             /\ \A l \in Line : /\ copies'[l] <= syncs /\ copies'[l] >= copies[l]
                                /\ l \notin buffer => copies'[l] = copies[l]
                                /\ l \in buffer => copies'[l] = copies[l] + 1
             /\ \A l \in Reached : l[1] <= file => copies'[l] >= syncsOk + 1
  <2>1. /\ copies' \in [Line -> Nat] /\ NothingBeyond'
        /\ \A l \in Line : /\ copies'[l] <= syncs /\ copies'[l] >= copies[l]
                           /\ l \notin buffer => copies'[l] = copies[l]
                           /\ l \in buffer => copies'[l] = copies[l] + 1
    BY <1>1, <1>2, <1>4, SavedOnce
  <2>2. ASSUME NEW l \in Reached, l[1] <= file
        PROVE  copies'[l] >= syncsOk + 1
    <3>1. /\ l \in Line /\ l[1] \in Nat /\ l[2] \in 1 .. Len(source.files[l[1]])
          /\ \A n \in 1 .. l[2] : Accepted(<<l[1], n>>)
          /\ \A f \in 1 .. Len(source.files) : Len(source.files[f]) \in Nat
          /\ l[1] \in 1 .. Len(source.files) /\ l[2] \in Nat
      BY <1>1, LinesPlaced DEF Reached
    <3>2. ~Ahead(l)
      <4>1. CASE l[1] = file /\ cut
        <5>1. source.from = "local" /\ ~Accepted(<<file, line + 1>>)
          BY <1>1, <1>4, <4>1, LinesPlaced DEF SyncInv, SyncPlace, NextLine
        <5>2. line + 1 \notin 1 .. l[2]
          BY <3>1, <4>1, <5>1
        <5> QED
          BY <1>1, <3>1, <4>1, <5>2 DEF Ahead
      <4>2. CASE l[1] = file /\ ~cut
        BY <1>1, <3>1, <4>2 DEF Ahead
      <4>3. CASE l[1] # file
        BY <1>1, <2>2, <3>1, <4>3 DEF Ahead
      <4> QED
        BY <4>1, <4>2, <4>3
    <3>3. /\ copies[l] >= syncsOk /\ copies[l] \in Nat /\ copies'[l] \in Nat
          /\ l \notin buffer => copies[l] >= syncsOk + 1
      BY <1>1, <2>1, <3>1, <3>2 DEF SyncInv, AtLeastOnce, Pending
    <3> QED
      BY <1>1, <2>1, <3>1, <3>3
  <2> QED
    BY <2>1, <2>2
<1>5. CASE /\ InTable(buffer) /\ ~(cut /\ source.from = "s3")
           /\ file + 1 \in Listing /\ file' = file + 1 /\ line' = 0
           /\ UNCHANGED <<syncing, syncsOk>>
  <2>1. ~cut
    BY <1>1, <1>5, ListingFirst, LinesPlaced
  <2>2. SyncTyped'
    <3>1. Len(source.files[file + 1]) \in Nat
      BY <1>1, <1>5, ListingFirst, LinesPlaced
    <3>2. line' \in 0 .. Len(source.files[file + 1])
      BY <1>5, <3>1
    <3> QED
      BY <1>1, <1>4, <1>5, <3>2, SameSource DEF SyncInv, SyncTyped
  <2>3. SyncPlace'
    BY <1>1, <1>5, <2>1 DEF SyncPlace
  <2>4. \A l \in Line : Pending(l)' => Pending(l) /\ l \notin buffer
    <3>1. \A l \in Line : l[1] \in Nat /\ l[2] \in Nat
      BY <1>1, LinesPlaced
    <3>2. \A l \in Line : Ahead(l)' => Ahead(l)
      BY <1>1, <1>5, <3>1 DEF Ahead
    <3> QED
      BY <1>1, <1>5, <2>1, <3>2 DEF Pending, SyncInv, SyncPlace
  <2>5. AtMostOnce'
    BY <1>1, <1>4, <1>5, <2>4, SameSource DEF SyncInv, AtMostOnce
  <2>6. AtLeastOnce'
    <3>1. ASSUME NEW l \in Reached
          PROVE  copies'[l] >= syncsOk /\ (~Pending(l)' => copies'[l] >= syncsOk + 1)
      <4>1. /\ l \in Line /\ l[1] \in Nat /\ l[2] \in 1 .. Len(source.files[l[1]])
            /\ Len(source.files[l[1]]) \in Nat /\ l[2] \in Nat
        BY <1>1, LinesPlaced DEF Reached
      <4>2. copies'[l] >= syncsOk
        BY <1>1, <1>4, <1>5, <4>1 DEF SyncInv, AtLeastOnce
      <4>3. ~Pending(l)' => l[1] <= file
        BY <1>1, <1>5, <4>1 DEF Pending, Ahead
      <4> QED
        BY <1>4, <1>5, <4>2, <4>3
    <3> QED
      BY <1>1, <1>5, <3>1, SameSource DEF AtLeastOnce
  <2> QED
    BY <1>4, <1>5, <2>2, <2>3, <2>5, <2>6 DEF SyncInv
<1>6. CASE /\ InTable(buffer) /\ ~(cut /\ source.from = "s3")
           /\ file + 1 \notin Listing /\ EndSync(TRUE) /\ UNCHANGED <<file, line>>
  <2>1. syncing' = FALSE /\ syncsOk' = syncsOk + 1
    BY <1>6 DEF EndSync
  <2>2. SyncTyped'
    <3>3. file' = file /\ line' = line /\ source' = source
      BY <1>1, <1>6
    <3>4. (line \in 0 .. Len(source.files[file]))'
      BY <1>1, <3>3, Zenon
    <3>1. (syncing \in BOOLEAN)'
      BY <2>1, Zenon
    <3>5. (syncsOk \in Nat)'
      BY <1>1, <2>1
    <3>2. (copies \in [Line -> Nat])' /\ (file \in Listing)'
      BY <1>1, <1>4, <1>6, SameSource
    <3> QED
      BY <1>1, <3>1, <3>2, <3>4, <3>5, Zenon DEF SyncTyped
  <2>3. SyncPlace' /\ AtMostOnce'
    BY <1>1, <1>4, <1>6, <2>1, SameSource DEF SyncPlace, AtMostOnce, Pending
  <2>4. AtLeastOnce'
    <3>1. \A l \in Reached : l[1] <= file
      BY <1>1, <1>6, ListingFirst, LinesPlaced DEF Reached
    <3> QED
      BY <1>1, <1>4, <1>6, <2>1, <3>1, SameSource DEF AtLeastOnce
  <2> QED
    BY <1>4, <1>6, <2>2, <2>3, <2>4 DEF SyncInv
<1> QED
  BY <1>3, <1>5, <1>6 DEF EndOfLines, CreateTrades, CreateTradesFails

\* Every step of a command keeps the invariant.
LEMMA SyncStep == SyncInv /\ [SyncNext]_syncVars => SyncInv'
<1>1. ASSUME SyncInv, UNCHANGED syncVars
      PROVE  SyncInv'
  <2>1. /\ UNCHANGED <<source, syncing, file, line, buffer, cut, copies, syncs, syncsOk>>
        /\ Line' = Line /\ Listing' = Listing /\ Reached' = Reached
    BY <1>1, SameSource DEF syncVars
  <2>2. \A l : (Ahead(l)' <=> Ahead(l)) /\ (Pending(l)' <=> Pending(l))
    BY <2>1 DEF Pending, Ahead
  <2>3. SyncTyped' /\ AtMostOnce' /\ AtLeastOnce' /\ NothingBeyond'
    BY <1>1, <2>1, <2>2 DEF SyncInv, SyncTyped, AtMostOnce, AtLeastOnce, NothingBeyond
  <2>4. SyncPlace'
    BY <1>1, <2>1, <2>2 DEF SyncInv, SyncPlace, Accepted, Kind, NextLine
  <2> QED
    BY <2>3, <2>4 DEF SyncInv
<1> QED
  BY <1>1, SyncStarts, TakeStep, LeaveStep, CutStep, FileStep DEF SyncNext

(***************************************************************************)
(* Whatever the files, the limits and the failures: no line is copied more *)
(* than once by one command, a line that is not accepted never, and those  *)
(* before the first such line of a listed file are copied by every command *)
(* that returns nil.                                                       *)
(***************************************************************************)
THEOREM SyncSafe == SyncSpec => []LinesSyncedOnce
<1>1. SyncInv => LinesSyncedOnce
  <2> SUFFICES ASSUME SyncInv PROVE LinesSyncedOnce
    OBVIOUS
  <2>1. ASSUME NEW l \in Line
        PROVE  copies[l] <= syncs /\ (~Accepted(l) => copies[l] = 0)
    <3>1. l \in Reached => Accepted(l)
      <4>1. l = <<l[1], l[2]>> /\ l[2] \in 1 .. l[2]
        BY LinesPlaced DEF SyncInv, SyncTyped
      <4> QED
        BY <4>1 DEF Reached
    <3> QED
      BY <3>1 DEF SyncInv, AtMostOnce, NothingBeyond
  <2>2. \A l \in Reached : ~syncing => copies[l] >= syncsOk
    BY DEF SyncInv, AtLeastOnce
  <2> QED
    BY <2>1, <2>2 DEF LinesSyncedOnce
<1> QED
  BY <1>1, SyncInvInit, SyncStep, PTL DEF SyncSpec

-----------------------------------------------------------------------------
(***************************************************************************)
(* sui-api: GET /tokens.                                                   *)
(*                                                                         *)
(* Runs start at multiples of the epoch, and one stamps its prices before  *)
(* the next starts.  So of three runs only two can have stamped in a       *)
(* window of one epoch.                                                    *)
(***************************************************************************)
PriceRun == [due : BOOLEAN, start : Nat, stage : {"idle", "fetching", "storing"},
             stamp : Nat, left : SUBSET Listable]

PriceRow == [token : Listable, stamp : Nat, run : Nat]

ListRow == [token : Listable, supply : {"known", "empty", "asked"}]

ListEntry == [rows : Seq(ListRow), last : SUBSET Listable, stage : {"loop", "answered"}]

TokensTyped ==
  /\ minute \in Nat
  /\ pricing \in PriceRun
  /\ priceRows \subseteq PriceRow /\ IsFiniteSet(priceRows)
  /\ supplied \subseteq Listable
  /\ listings \in Seq(ListEntry)

RunsApart ==
  /\ \A p \in priceRows : p.run % Epoch = 0 /\ p.run <= p.stamp /\ p.stamp <= minute
  /\ \A p, q \in priceRows :
        /\ p.run < q.run => p.stamp < q.run
        /\ p.run = q.run => p.stamp = q.stamp

RunNow ==
  /\ pricing.left # {} => pricing.stage = "storing"
  /\ pricing.due =>
       /\ pricing.stage = "idle" /\ minute % Epoch = 0
       /\ \A p \in priceRows : p.stamp < minute
  /\ pricing.stage # "idle" => pricing.start % Epoch = 0 /\ pricing.start <= minute
  /\ pricing.stage = "fetching" => \A p \in priceRows : p.stamp < pricing.start
  /\ pricing.stage = "storing" =>
       /\ pricing.start <= pricing.stamp /\ pricing.stamp <= minute
       /\ \A p \in priceRows : \/ p.stamp < pricing.start
                               \/ p.run = pricing.start /\ p.stamp = pricing.stamp

TokensInv == TokensTyped /\ RunsApart /\ RunNow /\ TokensListed

\* Epochs do not overlap.
LEMMA EpochsApart ==
  /\ 0 % Epoch = 0
  /\ \A a, b \in Nat : a % Epoch = 0 /\ b % Epoch = 0 /\ a < b => a + Epoch <= b
  /\ \A a \in Nat : /\ a - (a % Epoch) \in Nat /\ a - (a % Epoch) <= a
                    /\ (a - (a % Epoch)) % Epoch = 0
<1>1. Epoch \in Nat /\ Epoch > 0
  BY TokensApiAssumption
<1>2. \A a \in Nat : a % Epoch \in 0 .. Epoch - 1 /\ a = Epoch * (a \div Epoch) + (a % Epoch)
                     /\ a \div Epoch \in Nat
  BY <1>1
<1>3. \A k \in Nat : (Epoch * k) % Epoch = 0
  BY <1>1
<1>4. \A k, l \in Nat : /\ k <= l => Epoch * k <= Epoch * l
                        /\ k < l => Epoch * k + Epoch <= Epoch * l
  <2> SUFFICES ASSUME NEW k \in Nat, NEW l \in Nat
               PROVE  /\ k <= l => Epoch * k <= Epoch * l
                      /\ k < l => Epoch * k + Epoch <= Epoch * l
    OBVIOUS
  <2>1. Epoch * (l - k) = Epoch * l - Epoch * k /\ Epoch * k \in Int /\ Epoch * l \in Int
    BY <1>1
  <2>2. k <= l => Epoch * (l - k) >= 0
    BY <1>1
  <2>3. k < l => Epoch * (l - k) >= Epoch
    BY <1>1
  <2> QED
    BY <1>1, <2>1, <2>2, <2>3
<1>5. 0 % Epoch = 0
  BY <1>1
<1>6. ASSUME NEW a \in Nat, NEW b \in Nat, a % Epoch = 0, b % Epoch = 0, a < b
      PROVE  a + Epoch <= b
  <2> DEFINE k == a \div Epoch  l == b \div Epoch
  <2>1. k \in Nat /\ l \in Nat /\ a = Epoch * k /\ b = Epoch * l
    <3>1. /\ a = Epoch * k + (a % Epoch) /\ k \in Nat
          /\ b = Epoch * l + (b % Epoch) /\ l \in Nat
      BY <1>2
    <3>2. Epoch * k \in Nat /\ Epoch * l \in Nat
      BY <1>1, <3>1
    <3> HIDE DEF k, l
    <3> QED
      BY <1>6, <3>1, <3>2
  <2> HIDE DEF k, l
  <2>2. k < l
    BY <1>1, <1>4, <1>6, <2>1
  <2> QED
    BY <1>4, <2>1, <2>2
<1>7. ASSUME NEW a \in Nat
      PROVE  /\ a - (a % Epoch) \in Nat /\ a - (a % Epoch) <= a
             /\ (a - (a % Epoch)) % Epoch = 0
  <2> DEFINE k == a \div Epoch  m == a % Epoch
  <2>1. k \in Nat /\ m \in Nat /\ a = Epoch * k + m /\ Epoch * k \in Nat
    BY <1>1, <1>2
  <2>2. (Epoch * k) % Epoch = 0
    BY <1>3, <2>1
  <2> HIDE DEF k, m
  <2>3. a - m = Epoch * k
    BY <2>1
  <2>4. a - m \in Nat /\ a - m <= a /\ (a - m) % Epoch = 0
    BY <2>1, <2>2, <2>3
  <2> QED
    BY <2>4 DEF m
<1> QED
  BY <1>5, <1>6, <1>7

\* At the start the first run is due and nothing is stored.
LEMMA TokensInvInit == TokensInit => TokensInv
<1> SUFFICES ASSUME TokensInit
             PROVE  TokensInv
  OBVIOUS
<1>1. TokensTyped
  <2>1. pricing \in PriceRun /\ minute \in Nat
    BY DEF TokensInit, NoRun, PriceRun
  <2>2. IsFiniteSet(priceRows) /\ priceRows \subseteq PriceRow /\ supplied \subseteq Listable
    BY FS_EmptySet DEF TokensInit
  <2>3. listings \in Seq(ListEntry)
    BY DEF TokensInit
  <2> QED
    BY <2>1, <2>2, <2>3 DEF TokensTyped
<1>2. RunsApart /\ RunNow
  BY EpochsApart DEF TokensInit, RunsApart, RunNow, NoRun
<1> QED
  BY <1>1, <1>2 DEF TokensInit, TokensInv, TokensListed

\* A step of the job or of the clock keeps the runs apart.
LEMMA RunStep ==
  ASSUME TokensTyped, RunsApart, RunNow,
         StartRun \/ StampRun \/ MinutePasses \/ \E t \in Listable : StorePrice(t)
  PROVE  TokensTyped' /\ RunsApart' /\ RunNow'
<1>1. CASE StartRun
  <2>1. /\ UNCHANGED <<minute, priceRows, supplied, listings>> /\ pricing.due
        /\ pricing' \in PriceRun /\ ~pricing'.due /\ pricing'.left = {}
        /\ \/ pricing'.stage = "idle"
           \/ pricing'.stage = "fetching" /\ pricing'.start = minute
    <3>1. UNCHANGED <<minute, priceRows, supplied, listings>> /\ pricing.due
      BY <1>1 DEF StartRun
    <3>2. pricing' = [NoRun EXCEPT !.start = minute, !.stage = "fetching"] \/ pricing' = NoRun
      BY <1>1 DEF StartRun
    <3>3. minute \in Nat
      BY DEF TokensTyped
    <3>4. CASE pricing' = NoRun
      BY <3>1, <3>4 DEF NoRun, PriceRun
    <3>5. CASE pricing' = [NoRun EXCEPT !.start = minute, !.stage = "fetching"]
      BY <3>1, <3>3, <3>5 DEF NoRun, PriceRun
    <3> QED
      BY <3>2, <3>4, <3>5
  <2> QED
    BY <2>1 DEF TokensTyped, RunsApart, RunNow
<1>2. CASE StampRun
  <2>1. /\ UNCHANGED <<minute, priceRows, supplied, listings>> /\ pricing.stage = "fetching"
        /\ pricing' \in PriceRun /\ pricing'.due = pricing.due
        /\ pricing'.stage = "storing" /\ pricing'.start = pricing.start /\ pricing'.stamp = minute
    BY <1>2 DEF StampRun, PriceRun, TokensTyped
  <2> QED
    BY <2>1 DEF TokensTyped, RunsApart, RunNow
<1>3. CASE MinutePasses
  <2>1. /\ UNCHANGED <<priceRows, supplied, listings>> /\ ~pricing.due
        /\ minute' = minute + 1 /\ pricing' \in PriceRun
        /\ pricing'.stage = pricing.stage /\ pricing'.start = pricing.start
        /\ pricing'.stamp = pricing.stamp /\ pricing'.left = pricing.left
        /\ pricing'.due => minute' % Epoch = 0 /\ pricing.stage = "idle"
    BY <1>3 DEF MinutePasses, PriceRun, TokensTyped
  <2>2. \A p \in priceRows : p.stamp < minute'
    BY <2>1 DEF RunsApart, TokensTyped, PriceRow
  <2> QED
    BY <2>1, <2>2 DEF TokensTyped, RunsApart, RunNow, PriceRow, PriceRun
<1>4. ASSUME NEW t \in Listable, StorePrice(t)
      PROVE  TokensTyped' /\ RunsApart' /\ RunNow'
  <2> DEFINE new == [token |-> t, stamp |-> pricing.stamp, run |-> pricing.start]
  <2>1. /\ UNCHANGED <<minute, supplied, listings>>
        /\ pricing' \in PriceRun /\ pricing'.due = pricing.due
        /\ pricing'.start = pricing.start /\ pricing'.stamp = pricing.stamp
        /\ (pricing'.stage = "idle" /\ pricing'.left = {}) \/ pricing'.stage = pricing.stage
        /\ priceRows' = priceRows \cup {new} \/ priceRows' = priceRows
        /\ pricing.left # {}
    BY <1>4 DEF StorePrice, PriceRun, TokensTyped
  <2>2. /\ pricing.stage = "storing" /\ ~pricing.due
        /\ new \in PriceRow /\ new.run = pricing.start /\ new.stamp = pricing.stamp
    BY <2>1 DEF RunNow, PriceRow, PriceRun, TokensTyped
  <2> HIDE DEF new
  <2>3. IsFiniteSet(priceRows')
    BY <2>1, FS_AddElement DEF TokensTyped
  <2>4. TokensTyped'
    BY <2>1, <2>2, <2>3 DEF TokensTyped
  <2>5. \A p \in priceRows' : p \in priceRows \/ p = new
    BY <2>1
  <2>6. /\ pricing.start % Epoch = 0 /\ pricing.start <= pricing.stamp /\ pricing.stamp <= minute
        /\ \A p \in priceRows : \/ p.stamp < pricing.start
                                \/ p.run = pricing.start /\ p.stamp = pricing.stamp
    BY <2>2 DEF RunNow
  <2>7. RunNow'
    BY <2>1, <2>2, <2>5, <2>6 DEF RunNow
  <2>8. \A p \in priceRows : p.run \in Nat /\ p.stamp \in Nat /\ p.run <= p.stamp
    BY DEF RunsApart, TokensTyped, PriceRow
  <2>9. pricing.start \in Nat /\ pricing.stamp \in Nat /\ minute \in Nat
    BY DEF TokensTyped, PriceRun
  <2>10. RunsApart'
    <3>1. \A p \in priceRows : /\ p.run < pricing.start => p.stamp < pricing.start
                               /\ ~(pricing.start < p.run)
                               /\ p.run = pricing.start => p.stamp = pricing.stamp
      BY <2>6, <2>8, <2>9
    <3> QED
      BY <2>1, <2>2, <2>5, <2>6, <2>9, <3>1 DEF RunsApart
  <2> QED
    BY <2>4, <2>7, <2>10
<1> QED
  BY <1>1, <1>2, <1>3, <1>4

-----------------------------------------------------------------------------
\* A set without three different elements.
LEMMA TwoAtMost ==
  ASSUME NEW S, IsFiniteSet(S), \A a, b, c \in S : a = b \/ b = c \/ a = c
  PROVE  Cardinality(S) <= 2
<1>1. CASE S = {}
  BY <1>1, FS_EmptySet
<1>2. ASSUME NEW a \in S
      PROVE  Cardinality(S) <= 2
  <2>1. /\ IsFiniteSet(S \ {a}) /\ Cardinality(S) \in Nat
        /\ Cardinality(S \ {a}) = Cardinality(S) - 1
    BY FS_RemoveElement, FS_CardinalityType
  <2>2. CASE S \ {a} = {}
    BY <2>1, <2>2, FS_EmptySet
  <2>3. ASSUME NEW b \in S \ {a}
        PROVE  Cardinality(S) <= 2
    <3> DEFINE T == S \ {a}
               U == T \ {b}
    <3>1. U = {}
      OBVIOUS
    <3>2. b \in T /\ IsFiniteSet(T) /\ Cardinality(T) = Cardinality(S) - 1
      BY <2>1
    <3> HIDE DEF T
    <3>3. Cardinality(U) = Cardinality(T) - 1
      BY <3>2, FS_RemoveElement
    <3> HIDE DEF U
    <3>4. Cardinality(U) = 0
      BY <3>1, FS_EmptySet
    <3> QED
      BY <2>1, <3>2, <3>3, <3>4
  <2> QED
    BY <2>2, <2>3
<1> QED
  BY <1>1, <1>2

\* A token is in a window once for each of two runs, at most.
LEMMA WindowTwice ==
  ASSUME TokensTyped, RunsApart, NEW p \in Window, NEW q \in Window, NEW r \in Window,
         p.token = q.token, q.token = r.token
  PROVE  p = q \/ q = r \/ p = r
<1> DEFINE e == getCurrentEpochStart
<1>1. Epoch \in Nat /\ e \in Nat /\ e % Epoch = 0
  BY EpochsApart, TokensApiAssumption DEF getCurrentEpochStart, TokensTyped
<1> HIDE DEF e
<1>2. \A x \in Window : /\ x \in PriceRow /\ x \in priceRows
                        /\ e - Epoch <= x.stamp /\ x.stamp <= e
  BY DEF Window, TokensTyped, e
<1>3. ASSUME NEW x \in Window, NEW y \in Window, NEW z \in Window, x.run < y.run, y.run < z.run
      PROVE  FALSE
  <2>1. /\ x.run \in Nat /\ y.run \in Nat /\ z.run \in Nat
        /\ x.stamp \in Nat /\ y.stamp \in Nat /\ z.stamp \in Nat
    BY <1>2 DEF PriceRow
  <2>2. x.stamp < y.run /\ z.run <= z.stamp /\ y.run % Epoch = 0 /\ z.run % Epoch = 0
    BY <1>2, <1>3 DEF RunsApart
  <2>3. y.run + Epoch <= z.run
    BY <1>3, <2>1, <2>2, EpochsApart
  <2>4. e - Epoch <= x.stamp /\ z.stamp <= e
    BY <1>2
  <2> QED
    BY <1>1, <2>1, <2>2, <2>3, <2>4
<1>4. ASSUME NEW x \in Window, NEW y \in Window, x.token = y.token, x.run = y.run
      PROVE  x = y
  <2>1. x.stamp = y.stamp
    BY <1>2, <1>4 DEF RunsApart
  <2> QED
    BY <1>2, <1>4, <2>1 DEF PriceRow
<1>5. p.run \in Nat /\ q.run \in Nat /\ r.run \in Nat
  BY <1>2 DEF PriceRow
<1> QED
  BY <1>3, <1>4, <1>5

\* A list as the query makes it.
LEMMA QueryRight ==
  ASSUME TokensTyped, RunsApart, NEW l \in Ordered(Window),
         NEW e,
         e = [rows |-> [i \in 1 .. IF Len(l) < ListingLimit THEN Len(l) ELSE ListingLimit |->
                          [token |-> l[i].token,
                           supply |-> IF l[i].token \in supplied THEN "known" ELSE "empty"]],
              last |-> {p.token : p \in {q \in priceRows :
                          q.run = getCurrentEpochStart - Epoch /\ q.stamp < getCurrentEpochStart}},
              stage |-> "loop"]
  PROVE  e \in ListEntry /\ ListComplete(e)
<1> DEFINE n == Cardinality(Window)
           k == IF Len(l) < ListingLimit THEN Len(l) ELSE ListingLimit
<1>1. IsFiniteSet(Window) /\ Window \subseteq priceRows /\ n \in Nat
  <2>1. Window \subseteq priceRows
    BY DEF Window
  <2> QED
    BY <2>1, FS_Subset, FS_CardinalityType DEF TokensTyped
<1>2. /\ l \in [1 .. n -> Window]
      /\ \A i, j \in 1 .. n : i < j => l[i] # l[j] /\ MarketCap(l[i]) >= MarketCap(l[j])
  BY DEF Ordered
<1> HIDE DEF n
<1>3. Len(l) = n
  BY <1>1, <1>2
<1>4. k \in Nat /\ k <= n /\ k <= ListingLimit /\ (k = n \/ k = ListingLimit)
  BY <1>1, <1>3, TokensApiAssumption
<1>5. \A i \in 1 .. n : l[i] \in Window /\ l[i].token \in Listable
  BY <1>1, <1>2 DEF TokensTyped, PriceRow
<1>6. e.rows = [i \in 1 .. k |->
                  [token |-> l[i].token,
                   supply |-> IF l[i].token \in supplied THEN "known" ELSE "empty"]]
  BY Zenon
<1> HIDE DEF k
<1>7. /\ e.rows \in Seq(ListRow) /\ DOMAIN e.rows = 1 .. k /\ Len(e.rows) = k
  <2> DEFINE row(i) == [token |-> l[i].token,
                        supply |-> IF l[i].token \in supplied THEN "known" ELSE "empty"]
  <2>1. \A i \in 1 .. k : row(i) \in ListRow
    <3> SUFFICES ASSUME NEW i \in 1 .. k
                 PROVE  row(i) \in ListRow
      OBVIOUS
    <3>1. l[i].token \in Listable
      BY <1>1, <1>4, <1>5
    <3> QED
      BY <3>1 DEF ListRow
  <2> HIDE DEF row
  <2>2. e.rows = [i \in 1 .. k |-> row(i)]
    BY <1>6 DEF row
  <2>3. e.rows \in [1 .. k -> ListRow]
    BY <2>1, <2>2
  <2> QED
    <3> DEFINE rows == e.rows
    <3>1. rows \in [1 .. k -> ListRow] /\ k \in Nat
      BY <1>4, <2>3
    <3> HIDE DEF rows
    <3>2. rows \in Seq(ListRow) /\ DOMAIN rows = 1 .. k
      BY <3>1
    <3>3. Len(rows) = k
      BY <3>1, <3>2
    <3> QED
      BY <3>2, <3>3 DEF rows
<1>8. \A i \in 1 .. k : /\ i \in 1 .. n /\ e.rows[i].token = l[i].token
                        /\ e.rows[i].supply = "known" <=> l[i].token \in supplied
  <2> SUFFICES ASSUME NEW i \in 1 .. k
               PROVE  /\ i \in 1 .. n /\ e.rows[i].token = l[i].token
                      /\ e.rows[i].supply = "known" <=> l[i].token \in supplied
    OBVIOUS
  <2>1. i \in 1 .. n
    BY <1>1, <1>4
  <2>2. e.rows[i] = [token |-> l[i].token,
                     supply |-> IF l[i].token \in supplied THEN "known" ELSE "empty"]
    BY <1>6, Zenon
  <2>3. /\ e.rows[i].token = l[i].token
        /\ e.rows[i].supply = IF l[i].token \in supplied THEN "known" ELSE "empty"
    BY <2>2
  <2>4. "known" # "empty"
    OBVIOUS
  <2> QED
    BY <2>1, <2>3, <2>4, Zenon
<1>9. e.last = {p.token : p \in {q \in priceRows :
                  q.run = getCurrentEpochStart - Epoch /\ q.stamp < getCurrentEpochStart}}
  BY Zenon
<1>10. e \in ListEntry
  <2>1. e.last \subseteq Listable
    BY <1>9 DEF TokensTyped, PriceRow
  <2>2. e = [rows |-> e.rows, last |-> e.last, stage |-> "loop"]
    OBVIOUS
  <2> QED
    BY <1>7, <2>1, <2>2 DEF ListEntry
<1>11. ASSUME NEW t \in Listable
       PROVE  Times(e.rows, t) <= 2
  <2> DEFINE S == {i \in 1 .. k : e.rows[i].token = t}
  <2>1. IsFiniteSet(S)
    <3>1. IsFiniteSet(1 .. k) /\ S \subseteq 1 .. k
      BY <1>4, FS_Interval
    <3> QED
      BY <3>1, FS_Subset, Zenon
  <2>2. ASSUME NEW a \in S, NEW b \in S, NEW c \in S
        PROVE  a = b \/ b = c \/ a = c
    <3>1. /\ l[a].token = t /\ l[b].token = t /\ l[c].token = t
          /\ a \in 1 .. n /\ b \in 1 .. n /\ c \in 1 .. n
      BY <1>8
    <3>2. l[a] = l[b] \/ l[b] = l[c] \/ l[a] = l[c]
      BY <1>5, <3>1, WindowTwice
    <3> QED
      BY <1>1, <1>2, <3>1, <3>2
  <2> HIDE DEF S
  <2>3. Cardinality(S) <= 2
    BY <2>1, <2>2, TwoAtMost
  <2> QED
    BY <1>7, <2>3 DEF Times, S
<1>12. ASSUME NEW t \in e.last, k # ListingLimit
       PROVE  Times(e.rows, t) > 0
  <2> DEFINE S == {i \in 1 .. k : e.rows[i].token = t}
  <2>1. k = n
    BY <1>4, <1>12
  <2>2. PICK q \in priceRows : /\ q.token = t /\ q.run = getCurrentEpochStart - Epoch
                               /\ q.stamp < getCurrentEpochStart
    BY <1>9
  <2>3. q \in Window
    <3>1. getCurrentEpochStart \in Nat /\ Epoch \in Nat /\ q.stamp \in Nat /\ q.run \in Nat
      BY EpochsApart, TokensApiAssumption DEF getCurrentEpochStart, TokensTyped, PriceRow
    <3>2. q.run <= q.stamp
      BY DEF RunsApart
    <3> QED
      BY <2>2, <3>1, <3>2 DEF Window
  <2>4. \E i \in 1 .. n : l[i] = q
    <3>0. ASSUME NEW i \in 1 .. n, NEW j \in 1 .. n, l[i] = l[j]
          PROVE  i = j
      BY <1>1, <1>2, <3>0
    <3>1. l \in Injection(1 .. n, Window)
      BY <1>2, <3>0 DEF Injection, IsInjective
    <3>2. Cardinality(1 .. n) = Cardinality(Window)
      BY <1>1, FS_Interval DEF n
    <3>3. l \in Surjection(1 .. n, Window)
      BY <1>1, <3>1, <3>2, FS_Injection
    <3> QED
      BY <2>3, <3>3 DEF Surjection
  <2>5. S # {} /\ IsFiniteSet(S)
    <3>1. IsFiniteSet(1 .. k) /\ S \subseteq 1 .. k
      BY <1>4, FS_Interval
    <3>2. IsFiniteSet(S)
      BY <3>1, FS_Subset, Zenon
    <3>3. PICK i \in 1 .. n : l[i] = q
      BY <2>4
    <3>4. i \in 1 .. k
      BY <2>1
    <3>5. e.rows[i].token = t
      BY <1>8, <2>2, <3>3, <3>4
    <3> QED
      BY <3>2, <3>4, <3>5
  <2> HIDE DEF S
  <2>6. Cardinality(S) > 0
    BY <2>5, FS_EmptySet, FS_CardinalityType
  <2> QED
    BY <1>7, <2>6 DEF Times, S
<1>13. ASSUME NEW i \in 1 .. k, NEW j \in 1 .. k, i < j, e.rows[j].supply = "known"
       PROVE  \/ e.rows[i].supply = "known" /\ Cap[e.rows[i].token] >= Cap[e.rows[j].token]
              \/ Cap[e.rows[j].token] = 0
  <2>1. MarketCap(l[i]) >= MarketCap(l[j]) /\ l[j].token \in supplied
    BY <1>2, <1>8, <1>13
  <2>2. Cap[l[i].token] \in Nat /\ Cap[l[j].token] \in Nat
    BY <1>5, <1>8, TokensApiAssumption
  <2> QED
    BY <1>8, <2>1, <2>2 DEF MarketCap
<1>14. ListComplete(e)
  <2>1. \A t \in e.last : Times(e.rows, t) > 0 \/ Len(e.rows) = ListingLimit
    BY <1>7, <1>12
  <2>2. \A i, j \in DOMAIN e.rows :
          i < j /\ e.rows[j].supply = "known" =>
            \/ e.rows[i].supply = "known" /\ Cap[e.rows[i].token] >= Cap[e.rows[j].token]
            \/ Cap[e.rows[j].token] = 0
    <3> DEFINE places == 1 .. k
    <3>1. DOMAIN e.rows = places
      BY <1>7
    <3>2. \A i, j \in places :
            i < j /\ e.rows[j].supply = "known" =>
              \/ e.rows[i].supply = "known" /\ Cap[e.rows[i].token] >= Cap[e.rows[j].token]
              \/ Cap[e.rows[j].token] = 0
      BY <1>13
    <3> HIDE DEF places
    <3> QED
      BY <3>1, <3>2
  <2> QED
    BY <1>11, <2>1, <2>2, Zenon DEF ListComplete
<1> QED
  BY <1>10, <1>14

\* A request does not touch the runs, and keeps what its list says.
LEMMA ListStep ==
  ASSUME TokensTyped, RunsApart, TokensListed,
         QueryTokens \/ \E n \in DOMAIN listings : FillSupply(n) \/ AnswerTokens(n)
  PROVE  /\ UNCHANGED <<minute, pricing, priceRows>>
         /\ supplied' \subseteq Listable /\ listings' \in Seq(ListEntry) /\ TokensListed'
<1>0. \A x : ListComplete(x)' <=> ListComplete(x)
  BY DEF ListComplete, Times
<1>1. CASE QueryTokens
  <2>1. PICK l \in Ordered(Window) : listings' = Append(listings,
          [rows |-> [i \in 1 .. IF Len(l) < ListingLimit THEN Len(l) ELSE ListingLimit |->
                       [token |-> l[i].token,
                        supply |-> IF l[i].token \in supplied THEN "known" ELSE "empty"]],
           last |-> {p.token : p \in {q \in priceRows :
                       q.run = getCurrentEpochStart - Epoch /\ q.stamp < getCurrentEpochStart}},
           stage |-> "loop"])
    BY <1>1 DEF QueryTokens
  <2> DEFINE e ==
          [rows |-> [i \in 1 .. IF Len(l) < ListingLimit THEN Len(l) ELSE ListingLimit |->
                       [token |-> l[i].token,
                        supply |-> IF l[i].token \in supplied THEN "known" ELSE "empty"]],
           last |-> {p.token : p \in {q \in priceRows :
                       q.run = getCurrentEpochStart - Epoch /\ q.stamp < getCurrentEpochStart}},
           stage |-> "loop"]
  <2>2. e \in ListEntry /\ ListComplete(e)
    BY QueryRight
  <2>3. listings' = Append(listings, e)
    BY <2>1
  <2> HIDE DEF e
  <2>4. /\ listings' \in Seq(ListEntry)
        /\ \A n \in DOMAIN listings' :
              \/ n \in DOMAIN listings /\ listings'[n] = listings[n]
              \/ listings'[n] = e
    BY <2>2, <2>3 DEF TokensTyped
  <2>6. TokensListed'
    BY <2>2, <2>4, <1>0 DEF TokensListed
  <2> QED
    BY <1>1, <2>4, <2>6 DEF QueryTokens, TokensTyped
<1>2. ASSUME NEW n \in DOMAIN listings, FillSupply(n)
      PROVE  /\ UNCHANGED <<minute, pricing, priceRows>>
             /\ supplied' \subseteq Listable /\ listings' \in Seq(ListEntry) /\ TokensListed'
  <2>1. PICK i \in DOMAIN listings[n].rows :
          /\ listings[n].rows[i].supply = "empty"
          /\ listings' = [listings EXCEPT ![n].rows[i].supply = "asked"]
          /\ supplied' \in {supplied} \cup
                           (IF listings[n].rows[i].token \in Minted
                            THEN {supplied \cup {listings[n].rows[i].token}} ELSE {})
    BY <1>2 DEF FillSupply
  <2> DEFINE e == listings[n]
             f == [e EXCEPT !.rows[i].supply = "asked"]
  <2>2. e \in ListEntry /\ listings \in Seq(ListEntry)
    BY DEF TokensTyped
  <2>3. supplied' \subseteq Listable
    BY <2>1, TokensApiAssumption DEF TokensTyped
  <2>4. listings' = [listings EXCEPT ![n] = f]
    BY <2>1
  <2>5. /\ f.last = e.last /\ f.stage = e.stage
        /\ f.rows = [e.rows EXCEPT ![i].supply = "asked"]
    BY <2>2 DEF ListEntry
  <2>6. e.rows \in Seq(ListRow) /\ e.rows[i].supply = "empty"
    BY <2>1, <2>2 DEF ListEntry
  <2> DEFINE row == [e.rows[i] EXCEPT !.supply = "asked"]
  <2>7. i \in DOMAIN e.rows /\ e.rows[i] \in ListRow
    BY <2>6
  <2>8. row \in ListRow /\ row.token = e.rows[i].token /\ row.supply = "asked"
    BY <2>7 DEF ListRow
  <2>9. f.rows = [e.rows EXCEPT ![i] = row]
    BY <2>5
  <2> HIDE DEF row
  <2>10. f.rows \in Seq(ListRow) /\ DOMAIN f.rows = DOMAIN e.rows /\ Len(f.rows) = Len(e.rows)
    BY <2>6, <2>7, <2>8, <2>9
  <2>11. f \in ListEntry
    BY <2>2, <2>5, <2>10 DEF ListEntry
  <2>12. /\ DOMAIN f.rows = DOMAIN e.rows /\ Len(f.rows) = Len(e.rows)
        /\ \A j \in DOMAIN e.rows : /\ f.rows[j].token = e.rows[j].token
                                    /\ f.rows[j].supply = "known" <=> e.rows[j].supply = "known"
    BY <2>6, <2>7, <2>8, <2>9, <2>10
  <2> HIDE DEF f, e
  <2>13. ListComplete(f)
    <3>1. ListComplete(e)
      BY DEF TokensListed, e
    <3>2. \A t : Times(f.rows, t) = Times(e.rows, t)
      BY <2>12 DEF Times
    <3>3. \A j, m \in DOMAIN f.rows :
            j < m /\ f.rows[m].supply = "known" =>
              \/ f.rows[j].supply = "known" /\ Cap[f.rows[j].token] >= Cap[f.rows[m].token]
              \/ Cap[f.rows[m].token] = 0
      BY <2>12, <3>1 DEF ListComplete
    <3> QED
      BY <2>5, <2>12, <3>1, <3>2, <3>3 DEF ListComplete
  <2>14. /\ listings' \in Seq(ListEntry) /\ DOMAIN listings' = DOMAIN listings
         /\ \A m \in DOMAIN listings : listings'[m] = listings[m] \/ listings'[m] = f
    BY <2>2, <2>4, <2>11
  <2>15. TokensListed'
    BY <2>13, <2>14, <1>0 DEF TokensListed
  <2> QED
    BY <1>2, <2>3, <2>14, <2>15 DEF FillSupply
<1>3. ASSUME NEW n \in DOMAIN listings, AnswerTokens(n)
      PROVE  /\ UNCHANGED <<minute, pricing, priceRows>>
             /\ supplied' \subseteq Listable /\ listings' \in Seq(ListEntry) /\ TokensListed'
  <2> DEFINE f == [listings[n] EXCEPT !.stage = "answered"]
  <2>1. /\ UNCHANGED <<minute, pricing, priceRows, supplied>>
        /\ listings' = [listings EXCEPT ![n] = f]
    BY <1>3 DEF AnswerTokens
  <2>2. f \in ListEntry /\ f.rows = listings[n].rows /\ f.last = listings[n].last
    <3>1. listings[n] \in ListEntry
      BY DEF TokensTyped
    <3> QED
      BY <3>1 DEF ListEntry
  <2> HIDE DEF f
  <2>3. ListComplete(f)
    BY <2>2 DEF TokensListed, ListComplete
  <2>4. /\ listings' \in Seq(ListEntry) /\ DOMAIN listings' = DOMAIN listings
        /\ \A m \in DOMAIN listings : listings'[m] = listings[m] \/ listings'[m] = f
    BY <2>1, <2>2 DEF TokensTyped
  <2>5. TokensListed'
    BY <2>3, <2>4, <1>0 DEF TokensListed
  <2> QED
    BY <2>1, <2>4, <2>5 DEF TokensTyped
<1> QED
  BY <1>1, <1>2, <1>3

\* Every step keeps the invariant.
LEMMA TokensStep == TokensInv /\ [TokensNext]_tokensVars => TokensInv'
<1> SUFFICES ASSUME TokensInv, [TokensNext]_tokensVars
             PROVE  TokensInv'
  OBVIOUS
<1>1. CASE StartRun \/ StampRun \/ MinutePasses \/ \E t \in Listable : StorePrice(t)
  <2>1. TokensTyped' /\ RunsApart' /\ RunNow'
    BY <1>1, RunStep DEF TokensInv
  <2>2. listings' = listings
    BY <1>1 DEF StartRun, StampRun, MinutePasses, StorePrice
  <2>3. TokensListed'
    BY <2>2 DEF TokensInv, TokensListed, ListComplete, Times
  <2> QED
    BY <2>1, <2>3 DEF TokensInv
<1>2. CASE QueryTokens \/ \E n \in DOMAIN listings : FillSupply(n) \/ AnswerTokens(n)
  <2>1. /\ UNCHANGED <<minute, pricing, priceRows>>
        /\ supplied' \subseteq Listable /\ listings' \in Seq(ListEntry) /\ TokensListed'
    BY <1>2, ListStep DEF TokensInv
  <2> QED
    BY <2>1 DEF TokensInv, TokensTyped, RunsApart, RunNow
<1>3. CASE UNCHANGED tokensVars
  BY <1>3 DEF tokensVars, TokensInv, TokensTyped, RunsApart, RunNow, TokensListed, ListComplete, Times
<1> QED
  BY <1>1, <1>2, <1>3 DEF TokensNext

\* Whenever it is asked for, the list has every token that the run of the epoch
\* before gave a price, at most twice, unless the limit cuts it off, and those
\* with a supply by market cap.
THEOREM ListSafe == TokensSpec => []TokensListed
<1>1. TokensInv => TokensListed
  BY DEF TokensInv
<1> QED
  BY <1>1, TokensInvInit, TokensStep, PTL DEF TokensSpec

-----------------------------------------------------------------------------
(***************************************************************************)
(* What a swap is worth (PriceHistory).                                    *)
(*                                                                         *)
(* The search ends, since a turn of it leaves less of the window, and in   *)
(* ascending data it ends at a nearest point, since all that is outside of *)
(* the window is farther than the best so far.  What one turn of a fetch   *)
(* asks for has a point near every time of the day before it.  So, the     *)
(* time that a history was fetched for bounds how far from a trade the     *)
(* price is that a call takes from it, as long as it is the history of     *)
(* that call.  The values of the other trades follow from those saved.     *)
(***************************************************************************)
\* Induction, for a set that is given by its members.
LEMMA AllNumbers ==
  ASSUME NEW S, 0 \in S, \A n \in Nat : n \in S => n + 1 \in S
  PROVE  \A n \in Nat : n \in S
  <1> SUFFICES ASSUME NEW n \in Nat, n \notin S PROVE FALSE
    OBVIOUS
  <1> DEFINE T == {k \in 0 .. n : k \in S}
  <1>1. T \in SUBSET Nat /\ T # {}
    OBVIOUS
  <1>2. IsFiniteSet(T)
    <2>1. IsFiniteSet(0 .. n)
      BY FS_Interval
    <2>2. QED BY <2>1, FS_Subset
  <1> HIDE DEF T
  <1>3. PICK m \in T : \A k \in T : k <= m
    BY <1>1, <1>2, GreatestExists
  <1>4. m \in 0 .. n /\ m \in S
    BY <1>3 DEF T
  <1>5. m + 1 \in S /\ m # n
    BY <1>4
  <1>6. m + 1 \in T
    BY <1>4, <1>5 DEF T
  <1>7. QED BY <1>3, <1>4, <1>6

\* A set of numbers that is not empty has a least element.
LEMMA LeastExists ==
  ASSUME NEW S \in SUBSET Nat, S # {}
  PROVE  \E m \in S : \A k \in S : m <= k
  <1> SUFFICES ASSUME \A m \in S : \E k \in S : ~(m <= k) PROVE FALSE
    OBVIOUS
  <1> DEFINE above == {n \in Nat : \A k \in S : n < k}
  <1>1. 0 \in above
    OBVIOUS
  <1>2. ASSUME NEW n \in Nat, n \in above PROVE n + 1 \in above
    <2>1. \A k \in S : k >= n + 1
      BY <1>2
    <2>2. n + 1 \notin S
      BY <2>1
    <2>3. \A k \in S : n + 1 < k
      BY <2>1, <2>2
    <2>4. QED BY <2>3
  <1>3. \A n \in Nat : n \in above
    <2> HIDE DEF above
    <2>1. QED BY <1>1, <1>2, AllNumbers
  <1>4. PICK m \in S : TRUE
    OBVIOUS
  <1>5. m \in Nat /\ m \in above
    BY <1>3
  <1>6. QED BY <1>5

\* One turn of the search leaves less to search.
LEMMA NarrowedWithin ==
  ASSUME NEW time \in Nat, NEW data \in Seq(Nat), NEW w \in SearchWindow(data), w.left <= w.right
  PROVE  LET mid  == Middle(w)
             best == IF w.near = 0 \/ Distance(data[mid], time) < Distance(data[w.near], time)
                     THEN mid ELSE w.near
         IN /\ Len(data) \in Nat /\ w.left \in Nat /\ w.right \in Nat /\ w.near \in Nat
            /\ mid \in w.left .. w.right /\ mid \in 1 .. Len(data)
            /\ data[mid] \in Nat
            /\ Narrowed(w, time, data) \in SearchWindow(data)
            /\ Narrowed(w, time, data) =
                 IF data[mid] < time THEN [left |-> mid + 1, right |-> w.right, near |-> best]
                                     ELSE [left |-> w.left, right |-> mid - 1, near |-> best]
  <1> DEFINE mid  == Middle(w)
             best == IF w.near = 0 \/ Distance(data[mid], time) < Distance(data[w.near], time)
                     THEN mid ELSE w.near
  <1>1. /\ Len(data) \in Nat
        /\ w.left \in 1 .. Len(data) + 1 /\ w.right \in 0 .. Len(data) /\ w.near \in 0 .. Len(data)
        /\ w = [left |-> w.left, right |-> w.right, near |-> w.near]
    BY DEF SearchWindow
  <1>2. mid \in w.left .. w.right /\ mid \in 1 .. Len(data)
    BY <1>1 DEF Middle
  <1>3. data[mid] \in Nat
    BY <1>2
  <1>4. Narrowed(w, time, data) =
                 IF data[mid] < time THEN [left |-> mid + 1, right |-> w.right, near |-> best]
                                     ELSE [left |-> w.left, right |-> mid - 1, near |-> best]
    <2> HIDE DEF mid
    <2>1. Narrowed(w, time, data) = IF data[mid] < time THEN [w EXCEPT !.left = mid + 1, !.near = best]
                         ELSE [w EXCEPT !.right = mid - 1, !.near = best]
      BY Zenon DEF Narrowed, mid
    <2> HIDE DEF best
    <2>2. QED BY <2>1, <1>1
  <1> HIDE DEF mid
  <1>5. best \in 0 .. Len(data)
    BY <1>1, <1>2
  <1> HIDE DEF best
  <1>6. Narrowed(w, time, data) \in SearchWindow(data)
    BY <1>1, <1>2, <1>3, <1>4, <1>5 DEF SearchWindow
  <1>7. Len(data) \in Nat /\ w.left \in Nat /\ w.right \in Nat /\ w.near \in Nat
    BY <1>1
  <1>8. QED
    BY <1>2, <1>3, <1>4, <1>6, <1>7, Zenon DEF mid, best

\* The search is defined, and goes on as the loop of the code does.
LEMMA SearchDefined ==
  ASSUME NEW time \in Nat, NEW data \in Seq(Nat)
  PROVE  \E search :
           /\ FindNearestPoint(time, data) = search[[left |-> 1, right |-> Len(data), near |-> 0]]
           /\ \A w \in SearchWindow(data) :
                search[w] = IF w.left > w.right THEN w.near
                            ELSE IF data[Middle(w)] = time THEN Middle(w)
                            ELSE search[Narrowed(w, time, data)]
  <1> DEFINE D     == SearchWindow(data)
             turn(search, w) == IF w.left > w.right THEN w.near
                             ELSE IF data[Middle(w)] = time THEN Middle(w)
                             ELSE search[Narrowed(w, time, data)]
             stop  == {w \in D : w.left > w.right \/ data[Middle(w)] = time}
             value == [w \in D |-> IF w.left > w.right THEN w.near ELSE Middle(w)]
             next  == [w \in D \ stop |-> Narrowed(w, time, data)]
             size  == [w \in D |-> 1 + Len(data) + w.right - w.left]
  <1>1. \A w \in D : /\ w.left \in 1 .. Len(data) + 1 /\ w.right \in 0 .. Len(data) /\ w.near \in Nat
                     /\ Len(data) \in Nat
                     /\ w.left <= w.right => Middle(w) \in Nat
    BY DEF SearchWindow, Middle
  <1>2. ASSUME NEW w \in D \ stop
        PROVE  /\ next[w] \in D
               /\ 1 + Len(data) + next[w].right - next[w].left < 1 + Len(data) + w.right - w.left
    <2>1. w \in SearchWindow(data) /\ w.left <= w.right /\ next[w] = Narrowed(w, time, data)
      BY <1>1
    <2> DEFINE narrow == Narrowed(w, time, data)
               mid == Middle(w)
    <2>2. narrow \in SearchWindow(data) /\ mid \in w.left .. w.right
      BY <2>1, NarrowedWithin
    <2>3. \/ narrow.left = mid + 1 /\ narrow.right = w.right
          \/ narrow.left = w.left /\ narrow.right = mid - 1
      BY <2>1, NarrowedWithin
    <2> HIDE DEF narrow, mid
    <2>4. 1 + Len(data) + narrow.right - narrow.left < 1 + Len(data) + w.right - w.left
      BY <1>1, <2>1, <2>2, <2>3
    <2>5. QED BY <2>1, <2>2, <2>4 DEF narrow
  <1>3. value \in [D -> Nat] /\ size \in [D -> Nat] /\ next \in [D \ stop -> D] /\ Len(data) \in Nat
    BY <1>1, <1>2
  <1>4. /\ \A w \in D : size[w] <= 2 * Len(data)
        /\ \A w \in D \ stop : size[next[w]] < size[w]
    <2>1. \A w \in D : size[w] <= 2 * Len(data)
      BY <1>1
    <2>2. ASSUME NEW w \in D \ stop PROVE size[next[w]] < size[w]
      <3>1. next[w] \in D /\ w \in D
        BY <1>2
      <3> HIDE DEF next, D, stop
      <3>2. size[next[w]] = 1 + Len(data) + next[w].right - next[w].left
        BY <3>1
      <3>3. size[w] = 1 + Len(data) + w.right - w.left
        BY <3>1
      <3>4. QED BY <3>2, <3>3, <1>2
    <2>3. QED BY <2>1, <2>2
  <1>5. \E f \in [D -> Nat] : \A w \in D : f[w] = IF w \in stop THEN value[w] ELSE f[next[w]]
    <2> DEFINE most == 2 * Len(data)
    <2>0. most \in Nat /\ \A x \in D : size[x] <= most
      BY <1>3, <1>4
    <2> HIDE DEF most, turn, stop, value, next, size
    <2> HIDE DEF D
    <2> DEFINE goes(f, x) == f[x] = IF x \in stop THEN value[x] ELSE f[next[x]]
               upTo(k)    == {f \in [D -> Nat] : \A x \in D : size[x] < k => goes(f, x)}
               S          == {k \in Nat : upTo(k) # {}}
    <2>1. 0 \in S
      <3>1. value \in upTo(0)
        BY <1>3
      <3> HIDE DEF upTo
      <3>2. QED BY <3>1
    <2>2. ASSUME NEW k \in Nat, k \in S PROVE k + 1 \in S
      <3>1. PICK f \in [D -> Nat] : \A x \in D : size[x] < k => goes(f, x)
        BY <2>2
      <3> DEFINE g == [x \in D |-> IF x \in stop THEN value[x] ELSE f[next[x]]]
      <3>2. g \in [D -> Nat]
        BY <1>3, <3>1
      <3>3. ASSUME NEW x \in D, size[x] < k + 1 PROVE goes(g, x)
        <4>1. CASE x \in stop
          BY <4>1
        <4>2. CASE x \notin stop
          <5>1. next[x] \in D /\ size[next[x]] < k
            BY <1>3, <1>4, <4>2, <3>3
          <5>2. f[next[x]] = g[next[x]]
            BY <5>1, <3>1
          <5>3. QED BY <4>2, <5>2
        <4>3. QED BY <4>1, <4>2
      <3> HIDE DEF g
      <3>4. g \in upTo(k + 1)
        BY <3>2, <3>3
      <3> HIDE DEF upTo
      <3>5. QED BY <3>4
    <2> HIDE DEF S
    <2>3. most + 1 \in S
      BY <2>0, <2>1, <2>2, AllNumbers
    <2>4. PICK f \in [D -> Nat] : \A x \in D : size[x] < most + 1 => goes(f, x)
      BY <2>3 DEF S
    <2>5. \A x \in D : size[x] < most + 1
      BY <1>3, <2>0
    <2>6. QED BY <2>4, <2>5
  <1>6. PICK f \in [D -> Nat] : \A w \in D : f[w] = IF w \in stop THEN value[w] ELSE f[next[w]]
    BY <1>5
  <1>7. f = [w \in D |-> turn(f, w)]
    <2>1. \A w \in D : f[w] = turn(f, w)
      BY <1>6, <1>1
    <2>2. QED BY <2>1, <1>6
  <1> DEFINE F == CHOOSE g : g = [w \in D |-> turn(g, w)]
  <1>8. F = [w \in D |-> turn(F, w)]
    BY <1>7, Zenon
  <1>9. FindNearestPoint(time, data) = F[[left |-> 1, right |-> Len(data), near |-> 0]]
    BY Zenon DEF FindNearestPoint
  <1> HIDE DEF F
  <1>10. \A w \in D : F[w] = turn(F, w)
    <2> HIDE DEF turn, D
    <2>1. QED BY <1>8
  <1>11. QED BY <1>9, <1>10, Zenon

\* The search ends at a point, or at none.
LEMMA PointFound ==
  ASSUME NEW time \in Nat, NEW data \in Seq(Nat)
  PROVE  FindNearestPoint(time, data) \in 0 .. Len(data)
  <1>1. PICK search :
           /\ FindNearestPoint(time, data) = search[[left |-> 1, right |-> Len(data), near |-> 0]]
           /\ \A w \in SearchWindow(data) :
                search[w] = IF w.left > w.right THEN w.near
                            ELSE IF data[Middle(w)] = time THEN Middle(w)
                            ELSE search[Narrowed(w, time, data)]
    BY SearchDefined
  <1>2. ASSUME NEW w \in SearchWindow(data)
        PROVE  /\ w.left \in Nat /\ w.right \in Nat /\ w.near \in 0 .. Len(data)
               /\ w.left > w.right => search[w] \in 0 .. Len(data)
    <2>1. w.left \in Nat /\ w.right \in Nat /\ w.near \in 0 .. Len(data)
      BY DEF SearchWindow
    <2>2. QED BY <2>1, <1>1
  <1> DEFINE S == {n \in Nat : \A w \in SearchWindow(data) :
                     1 + w.right - w.left <= n => search[w] \in 0 .. Len(data)}
  <1>3. 0 \in S
    <2> SUFFICES ASSUME NEW w \in SearchWindow(data), 1 + w.right - w.left <= 0 PROVE search[w] \in 0 .. Len(data)
      OBVIOUS
    <2>1. w.left > w.right
      BY <1>2
    <2>2. QED BY <2>1, <1>2
  <1>4. ASSUME NEW n \in Nat, n \in S PROVE n + 1 \in S
    <2> SUFFICES ASSUME NEW w \in SearchWindow(data), 1 + w.right - w.left <= n + 1
                 PROVE  search[w] \in 0 .. Len(data)
      OBVIOUS
    <2>1. CASE w.left > w.right
      BY <2>1, <1>2
    <2>2. CASE w.left <= w.right /\ data[Middle(w)] = time
      <3>1. search[w] = Middle(w)
        BY <1>2, <2>2, <1>1
      <3>2. Middle(w) \in 1 .. Len(data)
        BY <2>2, NarrowedWithin
      <3>3. QED BY <3>1, <3>2
    <2>3. CASE w.left <= w.right /\ data[Middle(w)] # time
      <3> DEFINE v == Narrowed(w, time, data)
      <3>1. search[w] = search[v]
        BY <1>2, <2>3, <1>1
      <3>2. v \in SearchWindow(data)
        BY <2>3, NarrowedWithin
      <3>3. 1 + v.right - v.left <= n
        <4>1. /\ Middle(w) \in w.left .. w.right
              /\ \/ v.left = Middle(w) + 1 /\ v.right = w.right
                 \/ v.left = w.left /\ v.right = Middle(w) - 1
          BY <2>3, NarrowedWithin
        <4> HIDE DEF v
        <4>2. QED BY <4>1, <1>2
      <3> HIDE DEF v
      <3>4. QED BY <3>1, <3>2, <3>3, <1>4
    <2>4. QED BY <1>2, <2>1, <2>2, <2>3
  <1> DEFINE all == [left |-> 1, right |-> Len(data), near |-> 0]
  <1>5. Len(data) \in Nat /\ all \in SearchWindow(data)
    BY DEF SearchWindow
  <1>6. Len(data) \in S
    <2> HIDE DEF S
    <2>1. QED BY <1>3, <1>4, <1>5, AllNumbers
  <1>7. QED BY <1>1, <1>5, <1>6

\* What the search knows of the points outside its window.
Searched(w, time, data) ==
  /\ w.left <= w.right + 1
  /\ \A k \in 1 .. Len(data) : k < w.left => data[k] < time
  /\ \A k \in 1 .. Len(data) : k > w.right => data[k] > time
  /\ w.near = 0 => w.left = 1 /\ w.right = Len(data)
  /\ w.near # 0 => \A k \in 1 .. Len(data) : k < w.left \/ k > w.right =>
                      Distance(data[w.near], time) <= Distance(data[k], time)

\* In the order of their times, as the search needs the points.
Ascending(data) == \A i, j \in 1 .. Len(data) : i < j => data[i] < data[j]

\* A time further away on the same side is not nearer.
LEMMA Distances ==
  ASSUME NEW time \in Nat
  PROVE  /\ \A s \in Nat : Distance(s, time) \in Nat /\ (s = time => Distance(s, time) = 0)
         /\ \A s, t \in Nat : (s <= t /\ t <= time) \/ (s >= t /\ t >= time) =>
              Distance(t, time) <= Distance(s, time)
  BY DEF Distance

\* A turn of the search keeps what is known of the points outside.
LEMMA NarrowedSearched ==
  ASSUME NEW time \in Nat, NEW data \in Seq(Nat), Ascending(data),
         NEW w \in SearchWindow(data), w.left <= w.right, Searched(w, time, data),
         data[Middle(w)] # time
  PROVE  Searched(Narrowed(w, time, data), time, data)
  <1> DEFINE n     == Narrowed(w, time, data)
             mid   == Middle(w)
             best  == IF w.near = 0 \/ Distance(data[mid], time) < Distance(data[w.near], time)
                      THEN mid ELSE w.near
             far(k) == Distance(data[k], time)
  <1>1. /\ Len(data) \in Nat /\ w.left \in Nat /\ w.right \in Nat /\ w.near \in Nat
        /\ mid \in w.left .. w.right /\ mid \in 1 .. Len(data) /\ data[mid] \in Nat
        /\ n = IF data[mid] < time THEN [left |-> mid + 1, right |-> w.right, near |-> best]
                                   ELSE [left |-> w.left, right |-> mid - 1, near |-> best]
    BY NarrowedWithin
  <1>2. w.near \in 0 .. Len(data) /\ \A k \in 1 .. Len(data) : data[k] \in Nat /\ far(k) \in Nat
    <2>1. w.near \in 0 .. Len(data)
      BY DEF SearchWindow
    <2>2. \A k \in 1 .. Len(data) : data[k] \in Nat
      OBVIOUS
    <2>3. \A k \in 1 .. Len(data) : Distance(data[k], time) \in Nat
      BY <2>2, Distances
    <2>4. QED BY <2>1, <2>2, <2>3
  <1>3. /\ best \in 1 .. Len(data) /\ far(best) <= far(mid)
        /\ w.near # 0 => far(best) <= far(w.near)
    <2>1. CASE w.near = 0
      BY <2>1, <1>1, <1>2
    <2>2. CASE w.near # 0
      <3>1. w.near \in 1 .. Len(data) /\ far(w.near) \in Nat /\ far(mid) \in Nat
        BY <1>1, <1>2, <2>2
      <3> HIDE DEF far, mid
      <3>2. best = IF w.near = 0 \/ far(mid) < far(w.near) THEN mid ELSE w.near
        BY DEF far
      <3> HIDE DEF best
      <3>3. QED BY <3>1, <3>2, <1>1
    <2>3. QED BY <2>1, <2>2
  <1>4. \A k \in 1 .. Len(data) : k < w.left \/ k > w.right => far(best) <= far(k)
    <2> SUFFICES ASSUME NEW k \in 1 .. Len(data), k < w.left \/ k > w.right PROVE far(best) <= far(k)
      OBVIOUS
    <2>1. w.near # 0
      BY <1>1 DEF Searched
    <2>2. far(w.near) <= far(k)
      BY <2>1 DEF Searched
    <2>3. w.near \in 1 .. Len(data)
      BY <2>1, <1>2
    <2> HIDE DEF far, best
    <2>4. QED BY <2>1, <2>2, <2>3, <1>2, <1>3
  <1>5. /\ \A k \in 1 .. Len(data) : k < w.left => data[k] < time
        /\ \A k \in 1 .. Len(data) : k > w.right => data[k] > time
    BY DEF Searched
  <1> HIDE DEF best
  <1>6. CASE data[mid] < time
    <2>1. n.left = mid + 1 /\ n.right = w.right /\ n.near = best
      BY <1>1, <1>6
    <2> HIDE DEF n, mid, far
    <2>2. ASSUME NEW k \in 1 .. Len(data), k <= mid PROVE data[k] <= data[mid] /\ far(mid) <= far(k)
      <3>1. data[k] \in Nat /\ data[mid] \in Nat
        BY <1>1, <1>2
      <3>2. data[k] <= data[mid]
        <4>1. CASE k = mid
          BY <3>1, <4>1
        <4>2. CASE k < mid
          BY <1>1, <3>1, <4>2 DEF Ascending
        <4>3. QED BY <2>2, <4>1, <4>2, <1>1
      <3>3. Distance(data[mid], time) <= Distance(data[k], time)
        BY <3>1, <3>2, <1>6 DEF Distance
      <3>4. QED BY <3>2, <3>3 DEF far
    <2>3. \A k \in 1 .. Len(data) : k <= mid => far(mid) <= far(k)
      BY <2>2
    <2>4. ASSUME NEW k \in 1 .. Len(data), k <= mid \/ k > w.right PROVE far(best) <= far(k)
      <3>1. far(k) \in Nat /\ far(mid) \in Nat /\ far(best) \in Nat
        BY <1>1, <1>2, <1>3
      <3>2. far(best) <= far(mid)
        BY <1>3
      <3>3. far(mid) <= far(k) => far(best) <= far(k)
        BY <3>1, <3>2
      <3>4. QED BY <2>3, <2>4, <3>3, <1>4
    <2>5. \A k \in 1 .. Len(data) : k < n.left \/ k > n.right => far(n.near) <= far(k)
      BY <2>1, <2>4, <1>1
    <2>6. \A k \in 1 .. Len(data) : k < n.left => data[k] < time
      BY <1>1, <1>2, <1>6, <2>1, <2>2
    <2>7. n.near # 0 /\ n.left <= n.right + 1
      BY <1>1, <1>3, <2>1
    <2>8. \A k \in 1 .. Len(data) : k > n.right => data[k] > time
      BY <1>5, <2>1
    <2>9. Searched(n, time, data)
      BY <2>5, <2>6, <2>7, <2>8 DEF Searched, far
    <2>10. QED BY <2>9 DEF n
  <1>7. CASE data[mid] > time
    <2>1. n.left = w.left /\ n.right = mid - 1 /\ n.near = best
      BY <1>1, <1>7
    <2> HIDE DEF n, mid, far
    <2>2. ASSUME NEW k \in 1 .. Len(data), k >= mid PROVE data[k] >= data[mid] /\ far(mid) <= far(k)
      <3>1. data[k] \in Nat /\ data[mid] \in Nat
        BY <1>1, <1>2
      <3>2. data[k] >= data[mid]
        <4>1. CASE k = mid
          BY <3>1, <4>1
        <4>2. CASE k > mid
          BY <1>1, <3>1, <4>2 DEF Ascending
        <4>3. QED BY <2>2, <4>1, <4>2, <1>1
      <3>3. Distance(data[mid], time) <= Distance(data[k], time)
        BY <3>1, <3>2, <1>7 DEF Distance
      <3>4. QED BY <3>2, <3>3 DEF far
    <2>3. \A k \in 1 .. Len(data) : k >= mid => far(mid) <= far(k)
      BY <2>2
    <2>4. ASSUME NEW k \in 1 .. Len(data), k < w.left \/ k >= mid PROVE far(best) <= far(k)
      <3>1. far(k) \in Nat /\ far(mid) \in Nat /\ far(best) \in Nat
        BY <1>1, <1>2, <1>3
      <3>2. far(best) <= far(mid)
        BY <1>3
      <3>3. far(mid) <= far(k) => far(best) <= far(k)
        BY <3>1, <3>2
      <3>4. QED BY <2>3, <2>4, <3>3, <1>4
    <2>5. \A k \in 1 .. Len(data) : k < n.left \/ k > n.right => far(n.near) <= far(k)
      BY <2>1, <2>4, <1>1
    <2>6. \A k \in 1 .. Len(data) : k > n.right => data[k] > time
      BY <1>1, <1>2, <1>7, <2>1, <2>2
    <2>7. n.near # 0 /\ n.left <= n.right + 1
      BY <1>1, <1>3, <2>1
    <2>8. \A k \in 1 .. Len(data) : k < n.left => data[k] < time
      BY <1>5, <2>1
    <2>9. Searched(n, time, data)
      BY <2>5, <2>6, <2>7, <2>8 DEF Searched, far
    <2>10. QED BY <2>9 DEF n
  <1>8. QED BY <1>1, <1>6, <1>7

\* In ascending data, a nearest point, if there is any.
Nearest(p, time, data) ==
  /\ p \in 0 .. Len(data)
  /\ p = 0 => Len(data) = 0
  /\ \A k \in 1 .. Len(data) : Distance(data[p], time) <= Distance(data[k], time)

\* It finds one.
LEMMA NearestFound ==
  ASSUME NEW time \in Nat, NEW data \in Seq(Nat), Ascending(data)
  PROVE  Nearest(FindNearestPoint(time, data), time, data)
  <1>1. PICK search :
           /\ FindNearestPoint(time, data) = search[[left |-> 1, right |-> Len(data), near |-> 0]]
           /\ \A w \in SearchWindow(data) :
                search[w] = IF w.left > w.right THEN w.near
                            ELSE IF data[Middle(w)] = time THEN Middle(w)
                            ELSE search[Narrowed(w, time, data)]
    BY SearchDefined
  <1>2. ASSUME NEW w \in SearchWindow(data), Searched(w, time, data), w.left > w.right
        PROVE  Nearest(search[w], time, data)
    <2>1. search[w] = w.near
      BY <1>1, <1>2
    <2>2. /\ w.left \in 1 .. Len(data) + 1 /\ w.right \in 0 .. Len(data) /\ w.near \in 0 .. Len(data)
          /\ Len(data) \in Nat
      BY DEF SearchWindow
    <2>3. w.near = 0 => Len(data) = 0
      BY <1>2, <2>2 DEF Searched
    <2>4. \A k \in 1 .. Len(data) : k < w.left \/ k > w.right
      BY <1>2, <2>2
    <2>5. \A k \in 1 .. Len(data) : Distance(data[w.near], time) <= Distance(data[k], time)
      <3>1. CASE w.near = 0
        BY <3>1, <2>3
      <3>2. CASE w.near # 0
        BY <3>2, <1>2, <2>4 DEF Searched
      <3>3. QED BY <3>1, <3>2
    <2>6. QED BY <2>1, <2>2, <2>3, <2>5 DEF Nearest
  <1> DEFINE S == {n \in Nat : \A w \in SearchWindow(data) :
                     Searched(w, time, data) /\ 1 + w.right - w.left <= n => Nearest(search[w], time, data)}
  <1>3. 0 \in S
    <2> SUFFICES ASSUME NEW w \in SearchWindow(data), Searched(w, time, data), 1 + w.right - w.left <= 0
                 PROVE  Nearest(search[w], time, data)
      OBVIOUS
    <2>1. w.left > w.right
      BY DEF SearchWindow
    <2>2. QED BY <2>1, <1>2
  <1>4. ASSUME NEW n \in Nat, n \in S PROVE n + 1 \in S
    <2> SUFFICES ASSUME NEW w \in SearchWindow(data), Searched(w, time, data), 1 + w.right - w.left <= n + 1
                 PROVE  Nearest(search[w], time, data)
      OBVIOUS
    <2>0. w.left \in Nat /\ w.right \in Nat
      BY DEF SearchWindow
    <2>1. CASE w.left > w.right
      BY <2>1, <1>2
    <2>2. CASE w.left <= w.right /\ data[Middle(w)] = time
      <3>1. search[w] = Middle(w)
        BY <2>0, <2>2, <1>1
      <3>2. Middle(w) \in 1 .. Len(data) /\ Distance(data[Middle(w)], time) = 0
        BY <2>2, NarrowedWithin, Distances
      <3>3. \A k \in 1 .. Len(data) : Distance(data[k], time) \in Nat
        <4>1. \A k \in 1 .. Len(data) : data[k] \in Nat
          OBVIOUS
        <4>2. QED BY <4>1, Distances
      <3>4. Middle(w) \in 0 .. Len(data) /\ Middle(w) # 0
        BY <3>2
      <3>5. \A k \in 1 .. Len(data) : Distance(data[Middle(w)], time) <= Distance(data[k], time)
        BY <3>2, <3>3
      <3>6. QED BY <3>1, <3>4, <3>5 DEF Nearest
    <2>3. CASE w.left <= w.right /\ data[Middle(w)] # time
      <3> DEFINE v == Narrowed(w, time, data)
      <3>1. search[w] = search[v]
        BY <2>0, <2>3, <1>1
      <3>2. v \in SearchWindow(data) /\ Searched(v, time, data)
        BY <2>3, NarrowedWithin, NarrowedSearched
      <3>3. 1 + v.right - v.left <= n
        <4>1. /\ Middle(w) \in w.left .. w.right
              /\ \/ v.left = Middle(w) + 1 /\ v.right = w.right
                 \/ v.left = w.left /\ v.right = Middle(w) - 1
          BY <2>3, NarrowedWithin
        <4> HIDE DEF v
        <4>2. QED BY <4>1, <2>0
      <3> HIDE DEF v
      <3>4. Nearest(search[v], time, data)
        BY <3>2, <3>3, <1>4
      <3>5. QED BY <3>1, <3>4
    <2>4. QED BY <2>0, <2>1, <2>2, <2>3
  <1> DEFINE all == [left |-> 1, right |-> Len(data), near |-> 0]
  <1>5. Len(data) \in Nat /\ all \in SearchWindow(data) /\ Searched(all, time, data)
    BY DEF SearchWindow, Searched
  <1>6. Len(data) \in S
    <2> HIDE DEF S
    <2>1. QED BY <1>3, <1>4, <1>5, AllNumbers
  <1>7. Nearest(search[all], time, data)
    BY <1>5, <1>6
  <1>8. QED BY <1>1, <1>7

\* What comes after a sequence leaves it as it is.
LEMMA LongerBegins ==
  ASSUME NEW s \in Seq(Nat), NEW t \in Seq(Nat)
  PROVE  /\ s \o t \in Seq(Nat)
         /\ Len(s) <= Len(s \o t)
         /\ \A j \in 1 .. Len(s) : (s \o t)[j] = s[j]
  OBVIOUS

\* What one sequence after another begins with.
LEMMA FlattenBegins ==
  ASSUME NEW seqs \in Seq(Seq(Nat)), Len(seqs) > 0
  PROVE  /\ FlattenSeq(seqs) \in Seq(Nat)
         /\ Len(seqs[1]) <= Len(FlattenSeq(seqs))
         /\ \A k \in 1 .. Len(seqs[1]) : FlattenSeq(seqs)[k] = seqs[1][k]
  <1> DEFINE n == Len(seqs)
             D == 1 .. n
             all == Seq(Nat)
             turn(f, i) == IF i = 1 THEN seqs[i] ELSE f[i - 1] \o seqs[i]
             upTo(k)    == {f \in [D -> all] : \A i \in D : i <= k => f[i] = turn(f, i)}
             S          == {k \in Nat : upTo(k) # {}}
  <1>1. n \in Nat /\ n # 0 /\ seqs \in [D -> all] /\ 1 \in D
    OBVIOUS
  <1>2. \A s, t \in all : s \o t \in all
    OBVIOUS
  <1>3. 0 \in S
    <2> HIDE DEF all
    <2>1. seqs \in upTo(0)
      BY <1>1
    <2>2. QED BY <2>1
  <1>4. ASSUME NEW k \in Nat, k \in S PROVE k + 1 \in S
    <2>1. PICK f \in [D -> all] : \A i \in D : i <= k => f[i] = turn(f, i)
      BY <1>4
    <2> HIDE DEF n, all
    <2> DEFINE next == IF k + 1 = 1 THEN seqs[k + 1] ELSE f[k] \o seqs[k + 1]
               g    == [i \in D |-> IF i = k + 1 THEN next ELSE f[i]]
    <2>2. k + 1 \in D => next \in all
      <3>1. CASE k = 0
        BY <1>1, <3>1
      <3>2. CASE k # 0 /\ k + 1 \in D
        <4>1. k \in D /\ f[k] \in all /\ seqs[k + 1] \in all
          BY <1>1, <3>2
        <4>2. QED BY <1>2, <4>1, <3>2
      <3>3. QED BY <3>1, <3>2
    <2> HIDE DEF next
    <2>3. g \in [D -> all]
      BY <2>2
    <2>4. ASSUME NEW i \in D, i <= k + 1 PROVE g[i] = turn(g, i)
      <3>1. CASE i = k + 1
        <4>1. i # 1 => i - 1 \in D /\ i - 1 = k /\ g[i - 1] = f[k]
          BY <3>1, <1>1
        <4>2. g[i] = next
          BY <3>1
        <4> HIDE DEF g
        <4>3. QED BY <4>1, <4>2, <3>1 DEF next
      <3>2. CASE i # k + 1
        <4>1. i <= k /\ g[i] = f[i]
          BY <3>2, <2>4
        <4>2. i # 1 => i - 1 \in D /\ g[i - 1] = f[i - 1]
          BY <4>1, <1>1
        <4> HIDE DEF g
        <4>3. QED BY <4>1, <4>2, <2>1
      <3>3. QED BY <3>1, <3>2
    <2> HIDE DEF g
    <2>5. g \in upTo(k + 1)
      BY <2>3, <2>4
    <2> HIDE DEF upTo
    <2>6. QED BY <2>5
  <1>5. n \in S
    <2> HIDE DEF S
    <2>1. QED BY <1>1, <1>3, <1>4, AllNumbers
  <1>6. PICK f \in [D -> all] : \A i \in D : f[i] = turn(f, i)
    <2>1. PICK f \in [D -> all] : \A i \in D : i <= n => f[i] = turn(f, i)
      BY <1>5
    <2>2. \A i \in D : i <= n
      BY <1>1
    <2>3. QED BY <2>1, <2>2
  <1> DEFINE F == CHOOSE g : g = [i \in D |-> turn(g, i)]
  <1>7. f = [i \in D |-> turn(f, i)]
    <2> HIDE DEF turn, D
    <2>1. QED BY <1>6
  <1>8. F = [i \in D |-> turn(F, i)]
    BY <1>7, Zenon
  <1>9. FlattenSeq(seqs) = F[n]
    BY <1>1, Zenon DEF FlattenSeq
  <1> HIDE DEF F
  <1>10. \A i \in D : F[i] = turn(F, i)
    <2> HIDE DEF turn, D
    <2>1. QED BY <1>8
  <1> DEFINE begins(s) == Len(seqs[1]) <= Len(s) /\ \A k \in 1 .. Len(seqs[1]) : s[k] = seqs[1][k]
             R == {k \in Nat : k + 1 \in D => F[k + 1] \in all /\ begins(F[k + 1])}
  <1>11. 0 \in R
    <2>1. F[1] = seqs[1] /\ seqs[1] \in all
      BY <1>1, <1>10
    <2>2. QED BY <2>1
  <1>12. ASSUME NEW k \in Nat, k \in R PROVE k + 1 \in R
    <2> SUFFICES ASSUME (k + 1) + 1 \in D PROVE F[(k + 1) + 1] \in all /\ begins(F[(k + 1) + 1])
      OBVIOUS
    <2> DEFINE s == F[k + 1]
               t == seqs[(k + 1) + 1]
    <2>1. k + 1 \in D /\ (k + 1) + 1 # 1 /\ ((k + 1) + 1) - 1 = k + 1
      BY <1>1
    <2>2. s \in all /\ begins(s) /\ t \in all
      BY <2>1, <1>12, <1>1
    <2>3. F[(k + 1) + 1] = s \o t
      BY <2>1, <1>10
    <2> HIDE DEF s, t
    <2> DEFINE p == seqs[1]
               u == s \o t
    <2>4. p \in Seq(Nat) /\ Len(p) <= Len(s) /\ \A j \in 1 .. Len(p) : s[j] = p[j]
      BY <1>1, <2>2
    <2>5. u \in Seq(Nat) /\ Len(s) <= Len(u) /\ \A j \in 1 .. Len(s) : u[j] = s[j]
      BY <2>2, LongerBegins
    <2>6. Len(p) \in Nat /\ Len(s) \in Nat /\ Len(u) \in Nat
      BY <2>2, <2>4, <2>5
    <2> HIDE DEF p, u
    <2>7. Len(p) <= Len(u) /\ \A j \in 1 .. Len(p) : u[j] = p[j]
      <3>1. Len(p) <= Len(u)
        BY <2>4, <2>5, <2>6
      <3>2. ASSUME NEW j \in 1 .. Len(p) PROVE u[j] = p[j]
        <4>1. j \in 1 .. Len(s)
          BY <2>4, <2>6
        <4>2. u[j] = s[j] /\ s[j] = p[j]
          BY <4>1, <2>4, <2>5
        <4>3. QED BY <4>2
      <3>3. QED BY <3>1, <3>2
    <2>8. u \in all /\ begins(u)
      BY <2>5, <2>7 DEF p
    <2>9. QED BY <2>3, <2>8 DEF u
  <1>13. n - 1 \in Nat /\ (n - 1) + 1 = n /\ n \in D
    BY <1>1
  <1>14. n - 1 \in R
    <2> HIDE DEF R
    <2>1. QED BY <1>11, <1>12, <1>13, AllNumbers
  <1>15. QED BY <1>9, <1>13, <1>14

\* A multiple of the granule is never far.
LEMMA Multiples ==
  ASSUME NEW t \in Nat
  PROVE  /\ t \div Granule \in Nat
         /\ (t \div Granule) * Granule \in Nat
         /\ (t \div Granule) * Granule <= t
         /\ t < (t \div Granule) * Granule + Granule
         /\ t < (t \div Granule + 1) * Granule
         /\ (t \div Granule + 1) * Granule = (t \div Granule) * Granule + Granule
  <1>1. Granule \in Nat /\ Granule > 0
    BY PriceAssumption
  <1>2. t = Granule * (t \div Granule) + (t % Granule) /\ t % Granule \in 0 .. Granule - 1 /\ t \div Granule \in Nat
    BY <1>1
  <1> DEFINE q == t \div Granule
  <1> HIDE DEF q
  <1>3. q * Granule = Granule * q /\ (q + 1) * Granule = q * Granule + Granule /\ q * Granule \in Nat
    BY <1>1, <1>2 DEF q
  <1>4. QED BY <1>1, <1>2, <1>3 DEF q

\* Multiples of the granule are in the order of their numbers.
LEMMA MultiplesOrdered ==
  /\ \A m \in Nat : m * Granule \in Nat /\ (m + 1) * Granule = m * Granule + Granule
  /\ \A m, n \in Nat : m <= n => m * Granule <= n * Granule
  /\ \A m, n \in Nat : m * Granule < (n + 1) * Granule => m <= n
  <1>1. Granule \in Nat /\ Granule > 0
    BY PriceAssumption
  <1>2. \A m \in Nat : m * Granule \in Nat /\ (m + 1) * Granule = m * Granule + Granule
    BY <1>1
  <1>3. ASSUME NEW m \in Nat, NEW n \in Nat, m <= n
        PROVE  m * Granule <= n * Granule
    <2>1. n - m \in Nat /\ (n - m) * Granule \in Nat /\ n = m + (n - m)
      BY <1>1, <1>3
    <2>2. \A d \in Nat : (m + d) * Granule = m * Granule + d * Granule
      BY <1>1
    <2>3. n * Granule = m * Granule + (n - m) * Granule
      BY <2>1, <2>2
    <2>4. QED BY <2>1, <2>3, <1>2
  <1>4. ASSUME NEW m \in Nat, NEW n \in Nat, m * Granule < (n + 1) * Granule
        PROVE  m <= n
    <2> SUFFICES ASSUME n + 1 <= m PROVE FALSE
      OBVIOUS
    <2>1. (n + 1) * Granule <= m * Granule
      BY <1>3
    <2>2. m * Granule \in Nat /\ (n + 1) * Granule \in Nat
      BY <1>2
    <2>3. QED BY <1>4, <2>1, <2>2
  <1>5. QED BY <1>2, <1>3, <1>4

\* Before which multiple of the granule a turn begins.
Below(now) ==
  LET days  == IF mode.state = "backfill" THEN 10 ELSE 1
      first == now - days * Day - 1
  IN IF first <= 0 THEN 0 ELSE (first - 1) \div Granule

\* The points of a turn are the multiples of the granule after that one.
LEMMA TurnPoints ==
  ASSUME NEW now \in Nat
  PROVE  LET n == now \div Granule - Below(now) IN
         /\ Below(now) \in Nat /\ now \div Granule \in Nat /\ n \in Nat
         /\ Below(now) = 0 \/ Below(now) * Granule < now - Day
         /\ Turn(now) \in Seq(Nat) /\ Len(Turn(now)) = n
         /\ \A k \in 1 .. n : Turn(now)[k] = (Below(now) + k) * Granule
  <1> DEFINE days  == IF mode.state = "backfill" THEN 10 ELSE 1
             first == now - days * Day - 1
             below == Below(now)
             last  == now \div Granule
  <1>1. Granule \in Nat /\ Day \in Nat /\ Day > 0 /\ last \in Nat /\ last * Granule <= now
        /\ now < (last + 1) * Granule
    <2>1. last \in Nat /\ last * Granule <= now /\ now < (last + 1) * Granule
      BY Multiples
    <2> HIDE DEF last
    <2>2. QED BY <2>1, PriceAssumption
  <1>2. first \in Int /\ first + 1 <= now - Day
    BY <1>1
  <1>3. below = IF first <= 0 THEN 0 ELSE (first - 1) \div Granule
    BY DEF Below
  <1> HIDE DEF first, below, last
  <1>4. below \in Nat /\ below <= last /\ (below = 0 \/ below * Granule < now - Day)
    <2>1. CASE first <= 0
      BY <2>1, <1>1, <1>3
    <2>2. CASE first > 0
      <3>1. first - 1 \in Nat /\ below = (first - 1) \div Granule
        BY <2>2, <1>2, <1>3
      <3>2. below \in Nat /\ below * Granule \in Nat /\ below * Granule <= first - 1
        BY <3>1, Multiples
      <3>3. below * Granule < now - Day
        BY <3>2, <1>1, <1>2
      <3>4. (last + 1) * Granule \in Nat
        BY <1>1, MultiplesOrdered
      <3>5. below * Granule < (last + 1) * Granule
        BY <3>2, <3>3, <3>4, <1>1
      <3>6. below <= last
        BY <3>2, <3>5, <1>1, MultiplesOrdered
      <3>7. QED BY <3>2, <3>3, <3>6
    <2>3. QED BY <2>1, <2>2, <1>2
  <1>5. Turn(now) = [k \in 1 .. last - below |-> (below + k) * Granule]
    BY Zenon DEF Turn, below, Below, last
  <1> DEFINE n == last - below
  <1>6. n \in Nat
    BY <1>1, <1>4
  <1>7. \A k \in 1 .. n : (below + k) * Granule \in Nat
    <2>1. \A k \in 1 .. n : below + k \in Nat
      BY <1>4, <1>6
    <2> HIDE DEF n
    <2>2. QED BY <2>1, MultiplesOrdered
  <1> HIDE DEF n
  <1>8. Turn(now) \in Seq(Nat) /\ Len(Turn(now)) = n /\ \A k \in 1 .. n : Turn(now)[k] = (below + k) * Granule
    <2>1. Turn(now) = [k \in 1 .. n |-> (below + k) * Granule]
      BY <1>5 DEF n
    <2>2. QED BY <2>1, <1>6, <1>7
  <1>9. QED BY <1>1, <1>4, <1>6, <1>8 DEF n, last, below

\* Every time of the day before a turn's, and of the cache's time after it, has
\* a point near it.
Covers(data, now) ==
  \A s \in Nat : now - Day <= s /\ s < now + CacheTime =>
    \E k \in 1 .. Len(data) : Distance(data[k], s) < CacheTime + Granule

\* No time is far from a point of its turn.
LEMMA TurnCovers ==
  ASSUME NEW now \in Nat, now >= Granule
  PROVE  Covers(Turn(now), now)
  <1> SUFFICES ASSUME NEW s \in Nat, now - Day <= s, s < now + CacheTime
               PROVE  \E k \in 1 .. Len(Turn(now)) : Distance(Turn(now)[k], s) < CacheTime + Granule
    BY DEF Covers
  <1> DEFINE below == Below(now)
             last  == now \div Granule
             n     == last - below
             at    == s \div Granule
  <1>1. /\ Granule \in Nat /\ Granule > 0 /\ Day \in Nat /\ CacheTime \in Nat /\ CacheTime > 0
        /\ Granule <= Day
    BY PriceAssumption
  <1>2. /\ below \in Nat /\ last \in Nat /\ n \in Nat
        /\ below = 0 \/ below * Granule < now - Day
        /\ Len(Turn(now)) = n
        /\ \A k \in 1 .. n : Turn(now)[k] = (below + k) * Granule
    BY TurnPoints
  <1>3. /\ last * Granule \in Nat /\ last * Granule <= now /\ now < last * Granule + Granule
        /\ now < (last + 1) * Granule
    BY Multiples
  <1>4. at \in Nat /\ at * Granule \in Nat /\ at * Granule <= s /\ s < at * Granule + Granule
    BY Multiples
  <1>5. /\ below * Granule \in Nat /\ (below + 1) * Granule = below * Granule + Granule
        /\ (last + 1) * Granule = last * Granule + Granule
    BY <1>2, MultiplesOrdered
  <1> HIDE DEF below, last, at
  <1>6. below + 1 <= last
    <2>1. (below + 1) * Granule <= now
      <3>1. CASE below = 0
        BY <3>1, <1>1
      <3>2. CASE below * Granule < now - Day
        BY <3>2, <1>1, <1>5
      <3>3. QED BY <3>1, <3>2, <1>2
    <2>2. below + 1 \in Nat /\ (below + 1) * Granule < (last + 1) * Granule
      BY <2>1, <1>2, <1>3, <1>5, <1>1
    <2>3. QED BY <2>2, <1>2, MultiplesOrdered
  <1>7. ASSUME NEW m \in Nat, below < m, m <= last, Distance(m * Granule, s) < CacheTime + Granule
        PROVE  \E k \in 1 .. Len(Turn(now)) : Distance(Turn(now)[k], s) < CacheTime + Granule
    <2>1. m - below \in 1 .. n /\ below + (m - below) = m
      BY <1>2, <1>7
    <2>2. Turn(now)[m - below] = m * Granule
      BY <2>1, <1>2
    <2>3. QED BY <2>1, <2>2, <1>2, <1>7
  <1>8. CASE s >= now
    <2> DEFINE p == last * Granule
    <2> HIDE DEF p
    <2>1. p \in Nat /\ p <= s /\ s - p < CacheTime + Granule
      BY <1>1, <1>3, <1>8 DEF p
    <2>2. Distance(p, s) < CacheTime + Granule
      BY <2>1, <1>1 DEF Distance
    <2>3. QED BY <2>2, <1>2, <1>6, <1>7 DEF p
  <1>9. CASE s < now /\ at > below
    <2> DEFINE p == at * Granule
    <2>1. at <= last
      <3>1. at * Granule < (last + 1) * Granule
        BY <1>1, <1>3, <1>4, <1>5, <1>9
      <3>2. QED BY <3>1, <1>2, <1>4, MultiplesOrdered
    <2> HIDE DEF p
    <2>2. Distance(p, s) < CacheTime + Granule
      BY <1>1, <1>4 DEF Distance, p
    <2>3. QED BY <2>1, <2>2, <1>4, <1>9, <1>7 DEF p
  <1>10. CASE s < now /\ at <= below
    <2> DEFINE p == (below + 1) * Granule
    <2>1. s < (below + 1) * Granule
      <3>1. at * Granule <= below * Granule
        BY <1>2, <1>4, <1>10, MultiplesOrdered
      <3>2. QED BY <3>1, <1>1, <1>4, <1>5
    <2>2. (below + 1) * Granule - s <= Granule
      <3>1. CASE below = 0
        BY <3>1, <1>1
      <3>2. CASE below * Granule < now - Day
        BY <3>2, <1>1, <1>5
      <3>3. QED BY <3>1, <3>2, <1>2
    <2>3. p \in Nat
      BY <1>1, <1>5
    <2> HIDE DEF p
    <2>4. Distance(p, s) < CacheTime + Granule
      BY <2>1, <2>2, <2>3, <1>1 DEF Distance, p
    <2>5. below + 1 \in Nat /\ below < below + 1
      BY <1>2
    <2>6. QED BY <2>4, <2>5, <1>6, <1>7 DEF p
  <1>11. QED BY <1>2, <1>4, <1>8, <1>9, <1>10

\* The points of a call cover what the first turn of the loop asked for.
LEMMA PricingCovers ==
  ASSUME NEW begin \in Nat, NEW end \in Nat, begin <= end, end >= Granule
  PROVE  /\ GetCMCPricing(begin, end) \in Seq(Nat)
         /\ Covers(GetCMCPricing(begin, end), end)
  <1> DEFINE ten   == 10 * Day
             q     == (end - begin) \div ten
             turns == [k \in 1 .. 1 + q |-> Turn(end - (k - 1) * 10 * Day)]
             all   == GetCMCPricing(begin, end)
  <1>1. ten \in Nat /\ ten > 0 /\ end - begin \in Nat
    BY PriceAssumption
  <1>2. q \in Nat /\ ten * q <= end - begin
    <2> HIDE DEF ten
    <2>1. end - begin = ten * q + ((end - begin) % ten) /\ (end - begin) % ten \in Nat /\ q \in Nat
      BY <1>1
    <2> HIDE DEF q
    <2>2. ten * q \in Nat
      BY <1>1, <2>1
    <2>3. QED BY <2>1, <2>2
  <1> HIDE DEF q
  <1>3. ASSUME NEW k \in 1 .. 1 + q PROVE end - (k - 1) * 10 * Day \in Nat
    <2>1. k - 1 \in Nat /\ q - (k - 1) \in Nat
      BY <1>2
    <2>2. (k - 1) * 10 * Day = ten * (k - 1)
      BY <1>1, <2>1, PriceAssumption
    <2> HIDE DEF ten
    <2> DEFINE d == k - 1
               r == q - (k - 1)
    <2>3. q = d + r /\ d \in Nat /\ r \in Nat
      BY <2>1, <1>2
    <2> HIDE DEF d, r
    <2>4. ten * q = ten * d + ten * r /\ ten * d \in Nat /\ ten * r \in Nat
      BY <2>3, <1>1
    <2>5. end - ten * d \in Nat
      BY <2>4, <1>2
    <2>6. QED BY <2>2, <2>5 DEF d
  <1>4. \A k \in 1 .. 1 + q : Turn(end - (k - 1) * 10 * Day) \in Seq(Nat)
    BY <1>3, TurnPoints
  <1>5. turns \in Seq(Seq(Nat)) /\ Len(turns) > 0
    <2> DEFINE seqs == Seq(Nat)
    <2> HIDE DEF seqs
    <2>1. \A k \in 1 .. 1 + q : turns[k] \in seqs
      BY <1>4 DEF seqs
    <2>2. turns \in [1 .. 1 + q -> seqs]
      BY <2>1
    <2> HIDE DEF turns
    <2>3. turns \in Seq(seqs) /\ Len(turns) > 0
      BY <2>2, <1>2
    <2>4. QED BY <2>3 DEF seqs
  <1>6. turns[1] = Turn(end)
    <2>1. 1 \in 1 .. 1 + q
      BY <1>2
    <2>2. turns[1] = Turn(end - (1 - 1) * 10 * Day)
      BY <2>1
    <2>3. end - (1 - 1) * 10 * Day = end
      BY PriceAssumption
    <2>4. QED BY <2>2, <2>3
  <1>7. all = FlattenSeq(turns)
    BY Zenon DEF GetCMCPricing, q, ten
  <1> DEFINE turn == Turn(end)
  <1> HIDE DEF turns, all
  <1>8. turn \in Seq(Nat) /\ Covers(turn, end)
    BY TurnPoints, TurnCovers
  <1>9. /\ all \in Seq(Nat) /\ Len(turn) <= Len(all)
        /\ \A k \in 1 .. Len(turn) : all[k] = turn[k]
    BY <1>5, <1>6, <1>7, FlattenBegins
  <1> HIDE DEF turn
  <1>10. \A k \in 1 .. Len(turn) : k \in 1 .. Len(all)
    BY <1>8, <1>9
  <1>11. Covers(all, end)
    BY <1>8, <1>9, <1>10 DEF Covers
  <1>12. QED BY <1>9, <1>11 DEF all

\* The ends of a call are times of its events.
LEMMA Ends ==
  ASSUME NEW events \in Calls
  PROVE  /\ \A e \in events : e.time \in Nat /\ e.block \in Nat /\ e.time >= CacheTime /\ e.time >= Granule
         /\ Begin(events) \in Nat /\ End(events) \in Nat
         /\ Begin(events) <= End(events)
         /\ End(events) >= Granule
         /\ \A e \in events : e.time <= End(events)
  <1> DEFINE times == {e.time : e \in events}
  <1>1. /\ \A e \in events : e.time \in Nat /\ e.block \in Nat /\ e.time >= CacheTime /\ e.time >= Granule
        /\ events # {} /\ IsFiniteSet(events)
    BY PriceAssumption
  <1>2. times \in SUBSET Nat /\ times # {}
    BY <1>1
  <1>3. IsFiniteSet(times)
    <2> DEFINE time == [e \in events |-> e.time]
    <2>1. time \in Surjection(events, times)
      BY DEF Surjection
    <2>2. QED BY <1>1, <2>1, FS_Surjection
  <1> HIDE DEF times
  <1>4. PICK last \in times : \A t \in times : t <= last
    BY <1>2, <1>3, GreatestExists
  <1>5. PICK first \in times : \A t \in times : first <= t
    BY <1>2, LeastExists
  <1>6. \E t \in times : \A e \in events : t >= e.time
    BY <1>4, <1>2 DEF times
  <1>7. \E t \in times : \A e \in events : t <= e.time
    BY <1>5, <1>2 DEF times
  <1>8. End(events) \in times /\ \A e \in events : End(events) >= e.time
    BY <1>6, Zenon DEF End, times
  <1>9. Begin(events) \in times /\ \A e \in events : Begin(events) <= e.time
    BY <1>7, Zenon DEF Begin, times
  <1> DEFINE b == Begin(events)
             d == End(events)
  <1>10. b \in Nat /\ d \in Nat
    BY <1>2, <1>8, <1>9
  <1>11. PICK e \in events : d = e.time
    BY <1>8 DEF times
  <1> HIDE DEF b, d
  <1>12. b <= d /\ d >= Granule
    BY <1>1, <1>9, <1>11, <1>10, PriceAssumption DEF b
  <1>13. \A x \in events : x.time <= d
    BY <1>1, <1>8, <1>10 DEF d
  <1>14. QED BY <1>1, <1>10, <1>12, <1>13 DEF b, d

\* What PricesJustified says of one trade, and what its fields are.
Justified(t) ==
  /\ /\ {t.from, t.to} \cap Listed # {}
     /\ t.latest = t.prepared /\ t.sorted /\ t.time >= t.latest - Day
     => /\ t.usd
        /\ \A p \in t.at : Distance(p, t.time) < CacheTime + Granule
  /\ \A b \in t.of : b <= t.block
  /\ t.usd <=> t.of # {}

TradeInv(t) ==
  /\ t.block \in Nat /\ t.usd \in BOOLEAN /\ t.at \subseteq Nat /\ t.of \subseteq Nat
  /\ Justified(t)

\* A call with its fields.
IsCall(c) ==
  \E step, todo, done, prepared :
    c = [step |-> step, todo |-> todo, done |-> done, prepared |-> prepared]

\* A call that values has a history that was fetched, for times that are not
\* later than it by more than the cache's.
CallInv(c) ==
  /\ IsCall(c)
  /\ c.step \in {"none", "fetching", "valuing"}
  /\ c.prepared \in Nat
  /\ \E events \in Calls \cup {{}} : c.todo \subseteq events
  /\ c.step = "fetching" => c.todo \in Calls
  /\ c.step = "valuing" => /\ c.prepared > 0
                           /\ \A e \in c.todo : e.time < c.prepared + CacheTime
  /\ \A t \in c.done : TradeInv(t)

\* A history that was fetched covers the day before its end.
HistoryInv ==
  /\ history \in Seq(Nat) /\ lastestPrice \in Nat
  /\ lastestPrice > 0 => Covers(history, lastestPrice)

\* What the prices of the trades follow from.
PriceInv ==
  /\ mode \in Modes
  /\ calls \in 0 .. MaxCalls /\ misses \in 0 .. MaxFailed
  /\ HistoryInv
  /\ DOMAIN call = mode.loops /\ call = [h \in mode.loops |-> call[h]]
  /\ \A h \in mode.loops : CallInv(call[h])
  /\ \A t \in saved : TradeInv(t)

\* An event is valued with the point nearest to it, or with earlier trades.
LEMMA ValuedJustified ==
  ASSUME NEW e, e.time \in Nat, e.block \in Nat, NEW prepared \in Nat, prepared > 0,
         e.time < prepared + CacheTime, HistoryInv, \A t \in saved : TradeInv(t)
  PROVE  TradeInv(Valued(e, prepared))
  <1> DEFINE v      == Valued(e, prepared)
             point  == FindNearestPoint(e.time, history)
             quotes == Quotes(e)
             sorted == IsSorted(history, <)
             trade(usd, at, of) ==
               [time |-> e.time, block |-> e.block, from |-> e.from, to |-> e.to,
                usd |-> usd, at |-> at, of |-> of, latest |-> lastestPrice,
                prepared |-> prepared, sorted |-> sorted]
             listed == {e.from, e.to} \cap Listed # {}
  <1>1. v = IF listed
            THEN IF point = 0 THEN trade(FALSE, {}, {})
                 ELSE trade(TRUE, {history[point]}, {e.block})
            ELSE trade(quotes # {}, {}, UNION {t.of : t \in quotes})
    BY Zenon DEF Valued
  <1>2. sorted <=> Ascending(history)
    BY DEF IsSorted, Ascending
  <1>3. point # 0 => point \in 1 .. Len(history) /\ history[point] \in Nat
    <2> HIDE DEF point
    <2>1. point \in 0 .. Len(history) /\ Len(history) \in Nat /\ history \in Seq(Nat)
      BY PointFound DEF HistoryInv, point
    <2>2. QED BY <2>1
  <1> HIDE DEF v, point, quotes, sorted
  <1>4. CASE listed /\ point # 0
    <2>1. v = trade(TRUE, {history[point]}, {e.block})
      BY <1>1, <1>4
    <2>2. /\ v.time = e.time /\ v.block = e.block /\ v.usd = TRUE /\ v.at = {history[point]}
          /\ v.of = {e.block} /\ v.latest = lastestPrice /\ v.prepared = prepared
          /\ v.sorted = sorted
      BY <2>1
    <2>3. point \in 1 .. Len(history) /\ history[point] \in Nat
      BY <1>4, <1>3
    <2>4. ASSUME v.latest = v.prepared, v.sorted, v.time >= v.latest - Day
          PROVE  Distance(history[point], v.time) < CacheTime + Granule
      <3>1. Ascending(history) /\ lastestPrice = prepared /\ Covers(history, lastestPrice)
        BY <2>2, <2>4, <1>2 DEF HistoryInv
      <3>2. Nearest(point, e.time, history)
        BY <3>1, NearestFound DEF HistoryInv, point
      <3>3. PICK k \in 1 .. Len(history) : Distance(history[k], e.time) < CacheTime + Granule
        BY <2>2, <2>4, <3>1 DEF Covers
      <3>4. Distance(history[point], e.time) <= Distance(history[k], e.time)
        BY <3>2 DEF Nearest
      <3>5. Distance(history[point], e.time) \in Nat /\ Distance(history[k], e.time) \in Nat
        <4>1. history[k] \in Nat
          BY DEF HistoryInv
        <4>2. QED BY <2>3, <4>1 DEF Distance
      <3>6. CacheTime + Granule \in Nat
        BY PriceAssumption
      <3>7. QED BY <2>2, <3>3, <3>4, <3>5, <3>6
    <2> HIDE DEF trade
    <2>5. Justified(v)
      BY <2>2, <2>4 DEF Justified
    <2>6. QED BY <2>2, <2>3, <2>5 DEF TradeInv, v
  <1>5. CASE listed /\ point = 0
    <2>1. v = trade(FALSE, {}, {})
      BY <1>1, <1>5
    <2>2. v.block = e.block /\ v.usd = FALSE /\ v.at = {} /\ v.of = {}
          /\ v.latest = lastestPrice /\ v.prepared = prepared
          /\ v.sorted = sorted /\ v.time = e.time
      BY <2>1
    <2>3. ~(v.latest = v.prepared /\ v.sorted /\ v.time >= v.latest - Day)
      <3> SUFFICES ASSUME v.latest = v.prepared, v.sorted, v.time >= v.latest - Day PROVE FALSE
        OBVIOUS
      <3>1. Ascending(history) /\ lastestPrice = prepared /\ Covers(history, lastestPrice)
        BY <2>2, <1>2 DEF HistoryInv
      <3>2. Nearest(point, e.time, history)
        BY <3>1, NearestFound DEF HistoryInv, point
      <3>3. Len(history) = 0
        BY <3>2, <1>5 DEF Nearest
      <3>4. \E k \in 1 .. Len(history) : Distance(history[k], e.time) < CacheTime + Granule
        BY <2>2, <3>1 DEF Covers
      <3>5. QED BY <3>3, <3>4
    <2> HIDE DEF trade
    <2>4. Justified(v)
      BY <2>2, <2>3 DEF Justified
    <2>5. QED BY <2>2, <2>4 DEF TradeInv, v
  <1>6. CASE ~listed
    <2> DEFINE of == UNION {t.of : t \in quotes}
    <2>1. v = trade(quotes # {}, {}, of)
      BY <1>1, <1>6
    <2>2. v.block = e.block /\ v.usd = (quotes # {}) /\ v.at = {} /\ v.of = of
          /\ v.from = e.from /\ v.to = e.to
      BY <2>1
    <2>3. quotes \subseteq {t \in saved : t.block <= e.block /\ t.usd}
      BY DEF Quotes, Recent, quotes
    <2>4. \A t \in quotes : t.of \subseteq Nat /\ t.of # {} /\ \A b \in t.of : b <= e.block
      <3> SUFFICES ASSUME NEW t \in quotes PROVE t.of \subseteq Nat /\ t.of # {} /\ \A b \in t.of : b <= e.block
        OBVIOUS
      <3>1. TradeInv(t) /\ t.block <= e.block /\ t.usd
        BY <2>3
      <3>2. t.block \in Nat /\ t.of \subseteq Nat /\ (\A b \in t.of : b <= t.block) /\ t.of # {}
        BY <3>1, Zenon DEF TradeInv, Justified
      <3>3. QED BY <3>1, <3>2
    <2>5. of \subseteq Nat /\ (quotes # {} <=> of # {}) /\ \A b \in of : b <= e.block
      BY <2>4
    <2> HIDE DEF trade, of
    <2>6. Justified(v)
      BY <2>2, <2>5, <1>6 DEF Justified
    <2>7. QED BY <2>2, <2>5, <2>6 DEF TradeInv, v
  <1>7. QED BY <1>4, <1>5, <1>6

\* What a call is after the prices were fetched, and after a trade was valued.
LEMMA CallsAfter ==
  ASSUME NEW c, IsCall(c), NEW end, NEW e, NEW v
  PROVE  /\ [c EXCEPT !.step = "valuing", !.prepared = end]
              = [step |-> "valuing", todo |-> c.todo, done |-> c.done, prepared |-> end]
         /\ [c EXCEPT !.todo = @ \ {e}, !.done = @ \cup {v}]
              = [step |-> c.step, todo |-> c.todo \ {e}, done |-> c.done \cup {v},
                 prepared |-> c.prepared]
  <1>1. PICK step, todo, done, prepared :
          c = [step |-> step, todo |-> todo, done |-> done, prepared |-> prepared]
    BY DEF IsCall
  <1>2. c.step = step /\ c.todo = todo /\ c.done = done /\ c.prepared = prepared
    BY <1>1
  <1> DEFINE fetched == [c EXCEPT !.step = "valuing"]
             valued  == [c EXCEPT !.todo = @ \ {e}]
  <1>3. /\ fetched = [step |-> "valuing", todo |-> todo, done |-> done, prepared |-> prepared]
        /\ valued = [step |-> step, todo |-> todo \ {e}, done |-> done, prepared |-> prepared]
    BY <1>1
  <1>4. /\ [c EXCEPT !.step = "valuing", !.prepared = end] = [fetched EXCEPT !.prepared = end]
        /\ [c EXCEPT !.todo = @ \ {e}, !.done = @ \cup {v}] = [valued EXCEPT !.done = done \cup {v}]
    BY <1>2, Zenon DEF fetched, valued
  <1> HIDE DEF fetched, valued
  <1>5. /\ [fetched EXCEPT !.prepared = end]
             = [step |-> "valuing", todo |-> todo, done |-> done, prepared |-> end]
        /\ [valued EXCEPT !.done = done \cup {v}]
             = [step |-> step, todo |-> todo \ {e}, done |-> done \cup {v}, prepared |-> prepared]
    BY <1>3
  <1>6. QED BY <1>2, <1>4, <1>5, Zenon

\* The start of a process, whatever its mode.
LEMMA PriceInvInit == PriceInit => PriceInv
  <1> SUFFICES ASSUME PriceInit PROVE PriceInv
    OBVIOUS
  <1>1. CallInv(NoCall)
    BY DEF CallInv, IsCall, NoCall
  <1>2. /\ call = [h \in mode.loops |-> NoCall] /\ saved = {}
        /\ mode \in Modes /\ history = <<>> /\ lastestPrice = 0 /\ calls = 0 /\ misses = 0
    BY DEF PriceInit
  <1>3. HistoryInv
    BY <1>2 DEF HistoryInv
  <1>4. QED BY <1>1, <1>2, <1>3, PriceAssumption DEF PriceInv

\* Whatever the step, the calls of the loops stay what they are.
LEMMA CallStep ==
  ASSUME PriceInv, NEW h \in mode.loops, NEW c, Calling(h, c), CallInv(c),
         mode' = mode, calls' \in 0 .. MaxCalls, misses' \in 0 .. MaxFailed,
         HistoryInv', \A t \in saved' : TradeInv(t)
  PROVE  PriceInv'
  <1>1. call' = [call EXCEPT ![h] = c]
    BY DEF Calling
  <1>2. /\ DOMAIN call' = mode'.loops /\ call' = [g \in mode'.loops |-> call'[g]]
        /\ \A g \in mode'.loops : CallInv(call'[g])
    <2>1. /\ DOMAIN call = mode.loops /\ call = [g \in mode.loops |-> call[g]]
          /\ \A g \in mode.loops : CallInv(call[g])
      BY DEF PriceInv
    <2>2. QED BY <1>1, <2>1
  <1>3. mode' \in Modes
    BY DEF PriceInv
  <1>4. QED BY <1>2, <1>3 DEF PriceInv

\* Every step of a loop, and a restart, keeps what is known of the prices.
LEMMA PriceStep ==
  ASSUME PriceInv, [PriceNext]_priceVars
  PROVE  PriceInv'
  <1>1. /\ calls \in 0 .. MaxCalls /\ misses \in 0 .. MaxFailed /\ HistoryInv
        /\ \A h \in mode.loops : CallInv(call[h])
        /\ \A t \in saved : TradeInv(t)
        /\ MaxCalls \in Nat /\ MaxFailed \in Nat
    BY PriceAssumption DEF PriceInv
  <1>2. CallInv(NoCall)
    BY DEF CallInv, IsCall, NoCall
  <1>3. ASSUME NEW h \in mode.loops, NEW events \in Calls, PreparePrices(h, events)
        PROVE  PriceInv'
    <2> DEFINE c == [step |-> IF Fresh(End(events)) THEN "valuing" ELSE "fetching",
                     todo |-> events, done |-> {}, prepared |-> lastestPrice]
    <2>1. Calling(h, c) /\ UNCHANGED <<mode, history, lastestPrice, saved, misses>> /\ calls' = calls + 1 /\ calls < MaxCalls
      BY <1>3 DEF PreparePrices
    <2>2. lastestPrice \in Nat /\ CacheTime \in Nat
      BY <1>1, PriceAssumption DEF HistoryInv
    <2>3. ASSUME Fresh(End(events))
          PROVE  lastestPrice > 0 /\ \A e \in events : e.time < lastestPrice + CacheTime
      <3> DEFINE end == End(events)
      <3>1. end \in Nat /\ end - lastestPrice < CacheTime
        BY <2>3, Ends DEF Fresh
      <3>2. \A e \in events : e.time \in Nat /\ e.time >= CacheTime /\ e.time <= end
        BY Ends
      <3>3. PICK e \in events : TRUE
        BY PriceAssumption
      <3> HIDE DEF end
      <3>4. \A x \in events : x.time < lastestPrice + CacheTime
        BY <2>2, <3>1, <3>2
      <3>5. lastestPrice > 0
        BY <2>2, <3>4, <3>2, <3>3
      <3>6. QED BY <3>4, <3>5
    <2>4. CallInv(c)
      BY <2>2, <2>3 DEF CallInv, IsCall
    <2> HIDE DEF c
    <2>5. HistoryInv' /\ \A t \in saved' : TradeInv(t)
      BY <1>1, <2>1 DEF HistoryInv, Covers
    <2>6. calls' \in 0 .. MaxCalls /\ misses' \in 0 .. MaxFailed
      BY <1>1, <2>1
    <2>7. QED BY <2>1, <2>4, <2>5, <2>6, CallStep
  <1>4. ASSUME NEW h \in mode.loops, Prepared(h)
        PROVE  PriceInv'
    <2> DEFINE events == call[h].todo
               end    == End(events)
               c      == [call[h] EXCEPT !.step = "valuing", !.prepared = end]
    <2>1. /\ call[h].step = "fetching"
          /\ history' = GetCMCPricing(Begin(events), end) /\ lastestPrice' = end
          /\ Calling(h, c) /\ UNCHANGED <<mode, saved, calls, misses>>
      BY <1>4 DEF Prepared
    <2>2. CallInv(call[h]) /\ events \in Calls
      BY <1>1, <2>1 DEF CallInv
    <2>3. /\ end \in Nat /\ Begin(events) \in Nat /\ Begin(events) <= end /\ end >= Granule
          /\ \A e \in events : e.time \in Nat /\ e.time <= end
      BY <2>2, Ends
    <2>4. HistoryInv'
      <3>1. history' \in Seq(Nat) /\ Covers(history', lastestPrice')
        BY <2>1, <2>3, PricingCovers
      <3>2. QED BY <2>1, <2>3, <3>1 DEF HistoryInv, Covers
    <2> HIDE DEF end
    <2>5. CallInv(c)
      <3>1. IsCall(call[h]) /\ \A t \in call[h].done : TradeInv(t)
        BY <2>2 DEF CallInv
      <3>2. c = [step |-> "valuing", todo |-> events, done |-> call[h].done, prepared |-> end]
        BY <3>1, CallsAfter, Zenon
      <3>3. end > 0 /\ \A e \in events : e.time < end + CacheTime
        BY <2>3, PriceAssumption
      <3> HIDE DEF events, c
      <3>4. QED BY <3>1, <3>2, <3>3, <2>2, <2>3 DEF CallInv, IsCall
    <2> HIDE DEF c
    <2>6. \A t \in saved' : TradeInv(t)
      BY <1>1, <2>1
    <2>7. QED BY <1>1, <2>1, <2>4, <2>5, <2>6, CallStep
  <1>5. ASSUME NEW h \in mode.loops, NEW e \in call[h].todo, GetTradeValue(h, e)
        PROVE  PriceInv'
    <2> DEFINE old == call[h]
               v   == Valued(e, old.prepared)
               c   == [old EXCEPT !.todo = @ \ {e}, !.done = @ \cup {v}]
    <2>1. old.step = "valuing" /\ Calling(h, c) /\ UNCHANGED <<mode, history, lastestPrice, saved, calls, misses>>
      BY <1>5 DEF GetTradeValue
    <2>2. CallInv(old)
      BY <1>1
    <2>3. /\ old.prepared \in Nat /\ old.prepared > 0 /\ \A x \in old.todo : x.time < old.prepared + CacheTime
          /\ IsCall(old)
      BY <2>1, <2>2 DEF CallInv
    <2>4. PICK events \in Calls \cup {{}} : old.todo \subseteq events
      BY <2>2 DEF CallInv
    <2>5. e.time \in Nat /\ e.block \in Nat
      BY <2>4, Ends
    <2>6. TradeInv(v)
      BY <1>1, <2>3, <2>5, ValuedJustified
    <2> HIDE DEF old, v
    <2>7. c = [step |-> old.step, todo |-> old.todo \ {e}, done |-> old.done \cup {v}, prepared |-> old.prepared]
      BY <2>3, CallsAfter, Zenon
    <2> HIDE DEF c
    <2>8. CallInv(c)
      BY <2>1, <2>2, <2>4, <2>6, <2>7 DEF CallInv, IsCall
    <2>9. HistoryInv' /\ \A t \in saved' : TradeInv(t)
      BY <1>1, <2>1 DEF HistoryInv, Covers
    <2>10. QED BY <1>1, <2>1, <2>8, <2>9, CallStep
  <1>6. ASSUME NEW h \in mode.loops, CreateMany(h)
        PROVE  PriceInv'
    <2>1. /\ saved' = saved \cup call[h].done /\ Calling(h, NoCall)
          /\ UNCHANGED <<mode, history, lastestPrice, calls, misses>>
      BY <1>6 DEF CreateMany
    <2>2. \A t \in call[h].done : TradeInv(t)
      BY <1>1 DEF CallInv
    <2>3. HistoryInv' /\ \A t \in saved' : TradeInv(t)
      BY <1>1, <2>1, <2>2 DEF HistoryInv, Covers
    <2>4. QED BY <1>1, <1>2, <2>1, <2>3, CallStep
  <1>7. ASSUME NEW h \in mode.loops, CallThrows(h)
        PROVE  PriceInv'
    <2>1. /\ misses < MaxFailed /\ misses' = misses + 1 /\ Calling(h, NoCall)
          /\ UNCHANGED <<mode, history, lastestPrice, saved, calls>>
      BY <1>7 DEF CallThrows
    <2>2. HistoryInv' /\ \A t \in saved' : TradeInv(t)
      BY <1>1, <2>1 DEF HistoryInv, Covers
    <2>3. misses' \in 0 .. MaxFailed
      BY <1>1, <2>1
    <2>4. QED BY <1>1, <1>2, <2>1, <2>2, <2>3, CallStep
  <1>8. CASE RestartPrices
    <2>1. /\ misses < MaxFailed /\ misses' = misses + 1 /\ history' = <<>> /\ lastestPrice' = 0
          /\ call' = [h \in mode.loops |-> NoCall] /\ UNCHANGED <<mode, saved, calls>>
      BY <1>8 DEF RestartPrices
    <2>2. HistoryInv'
      BY <2>1 DEF HistoryInv
    <2>3. mode' \in Modes /\ calls' \in 0 .. MaxCalls /\ misses' \in 0 .. MaxFailed
      BY <1>1, <2>1 DEF PriceInv
    <2>4. QED BY <1>1, <1>2, <2>1, <2>2, <2>3 DEF PriceInv
  <1>9. CASE UNCHANGED priceVars
    BY <1>9 DEF priceVars, PriceInv, HistoryInv, Covers
  <1>10. QED BY <1>3, <1>4, <1>5, <1>6, <1>7, <1>8, <1>9 DEF PriceNext

(***************************************************************************)
(* Type correctness of the history and of the trades.                      *)
(***************************************************************************)
THEOREM PriceTyped == PriceSpec => []PriceTypeOK
  <1>1. PriceInv => PriceTypeOK
    <2> SUFFICES ASSUME PriceInv PROVE PriceTypeOK
      OBVIOUS
    <2>1. \A h \in mode.loops : CallInv(call[h])
      BY DEF PriceInv
    <2>2. \A t \in Trades : TradeInv(t)
      BY <2>1 DEF PriceInv, CallInv, Trades
    <2>3. \A h \in mode.loops :
            /\ call[h].step \in {"none", "fetching", "valuing"}
            /\ \E events \in Calls \cup {{}} : call[h].todo \subseteq events
      BY <2>1 DEF CallInv
    <2>4. \A t \in Trades : t.usd \in BOOLEAN /\ t.at \subseteq Nat /\ t.of \subseteq Nat
      BY <2>2 DEF TradeInv
    <2>5. QED BY <2>3, <2>4 DEF PriceInv, HistoryInv, PriceTypeOK
  <1>2. QED BY <1>1, PriceInvInit, PriceStep, PTL DEF PriceSpec

(***************************************************************************)
(* Whatever the loops, their calls and the faults: a trade of a listed     *)
(* token has a price of its own time wherever the code sees to it, and the *)
(* value of any other trade goes back to trades that are not later.        *)
(***************************************************************************)
THEOREM PricesSafe == PriceSpec => []PricesJustified
  <1>1. PriceInv => PricesJustified
    <2> SUFFICES ASSUME PriceInv PROVE PricesJustified
      OBVIOUS
    <2>1. \A t \in Trades : Justified(t)
      BY DEF PriceInv, CallInv, TradeInv, Trades
    <2>2. QED BY <2>1 DEF Justified, PricesJustified, PriceOfItsTime, ValueFromEarlier
  <1>2. QED BY <1>1, PriceInvInit, PriceStep, PTL DEF PriceSpec

-----------------------------------------------------------------------------
(***************************************************************************)
(* Types.  What the invariants above leave open of the type invariants is  *)
(* the bounds: the history of a service never has more than was begun.     *)
(***************************************************************************)
\* The cron job's state, its clock and its rows have their types (MasterCron).
THEOREM CronTyped == Spec => []TypeOK
  <1>1. CronInv => TypeOK
    BY DEF CronInv
  <1>2. QED BY <1>1, CronInvInit, CronStep, PTL DEF Spec

\* No day was asked for more often than there were commands.
CompressCounted ==
  /\ command \in {"none", "daily", "single", "range"}
  /\ commands \in 0 .. MaxCommands /\ failures \in 0 .. MaxQueries
  /\ \A d \in Date : covered[d] <= commands
  /\ daily \subseteq reported /\ reported \subseteq Date

\* Every step keeps the account of the commands.
LEMMA CompressCountedStep ==
  ASSUME CompressTyped, CompressCounted, [CompressNext]_compressVars
  PROVE  CompressCounted'
  <1>0. /\ commands \in Nat /\ failures \in Nat /\ MaxCommands \in Nat /\ MaxQueries \in Nat
        /\ \A d \in Date : covered[d] \in Nat
    BY CompressionAssumption DEF CompressTyped, CompressCounted
  <1>1. ASSUME NEW k \in {"daily", "single", "range"}, NEW days, Compress(k, days)
        PROVE  CompressCounted'
    <2>1. commands' = commands + 1 /\ commands < MaxCommands /\ command' = k
          /\ failures' = failures /\ daily' = daily /\ reported' = reported
          /\ \A d \in Date : covered'[d] \in {covered[d], covered[d] + 1}
      BY <1>1 DEF Compress
    <2>2. \A d \in Date : covered'[d] <= commands'
      BY <1>0, <2>1 DEF CompressCounted
    <2>3. QED BY <1>0, <2>1, <2>2 DEF CompressCounted
  <1>2. ASSUME \/ UNCHANGED compressVars
               \/ \E d \in Date : StartJob(d) \/ EnterJob(d) \/ ReturnError(d)
               \/ \E d \in Date, t \in Final : Repair(d, t) \/ Insert(d, t)
        PROVE  CompressCounted'
    <2>1. UNCHANGED <<command, commands, failures, covered, daily, reported>>
      BY <1>2 DEF compressVars, StartJob, EnterJob, ReturnError, Repair, Insert
    <2>2. QED BY <2>1 DEF CompressCounted
  <1>3. ASSUME NEW d \in Date, NEW t \in Final, QueryFails(d, t)
        PROVE  CompressCounted'
    <2>1. UNCHANGED <<command, commands, covered, daily, reported>>
          /\ failures' \in 0 .. MaxQueries
      BY <1>0, <1>3 DEF QueryFails, CompressCounted
    <2>2. QED BY <2>1 DEF CompressCounted
  <1>4. CASE EndCommand
    BY <1>4 DEF EndCommand, CompressCounted
  <1>5. QED
    BY <1>1, <1>2, <1>3, <1>4 DEF CompressNext, CompressDaily, CompressSingle, CompressRange

\* So does all of the compression's state.
THEOREM CompressTypeCorrect == CompressSpec => []CompressTypeOK
  <1>1. CompressInit => CompressCounted
    BY CompressionAssumption DEF CompressInit, CompressCounted
  <1>2. CompressInv /\ CompressCounted => CompressTypeOK
    <2> SUFFICES ASSUME CompressInv, CompressCounted PROVE CompressTypeOK
      OBVIOUS
    <2>1. CompressTyped
      BY DEF CompressInv
    <2>2. \A d \in Date : covered[d] \in 0 .. MaxCommands
      BY <2>1, CompressionAssumption DEF CompressTyped, CompressCounted
    <2>3. covered \in [Date -> 0 .. MaxCommands]
      BY <2>1, <2>2 DEF CompressTyped
    <2>4. QED BY <2>1, <2>3 DEF CompressTyped, JobType, CompressCounted, CompressTypeOK
  <1>3. CompressInv => CompressTyped
    BY DEF CompressInv
  <1>4. QED BY <1>1, <1>2, <1>3, CompressInvInit, CompressStep, CompressCountedStep, PTL
        DEF CompressSpec

\* A client has no trade that is not saved, the cursor is at a coin, and an NFT is
\* shown once by each of the two stages.
AccountCounted ==
  /\ paging.got \subseteq account.trades
  /\ coins.cursor \in {0} \cup DOMAIN CoinType
  /\ nfts.stage = "objects" => nfts.shown = 0
  /\ nfts.shown <= (IF nfts.stage = "kiosks" THEN 1 ELSE 2)
  /\ changes \in 0 .. MaxChanges

\* A page has trades that are saved.
LEMMA PageSaved ==
  ASSUME AccountTyped, GetTrades
  PROVE  paging'.got \subseteq paging.got \cup account.trades
  <1> DEFINE recent == {t \in account.trades : TradeTime[t] >= paging.since}
             size   == Cardinality(recent)
             offset == paging.offset
             upto   == IF offset + TradeLimit < size THEN offset + TradeLimit ELSE size
  <1>1. PICK l \in LatestFirst(recent) :
          paging' = [paging EXCEPT
            !.got = @ \cup {TradePage(l, offset)[i] : i \in DOMAIN TradePage(l, offset)},
            !.offset = @ + Len(TradePage(l, offset)),
            !.stage = IF Len(TradePage(l, offset)) < TradeLimit THEN "end" ELSE "paging"]
    BY DEF GetTrades
  <1>2. recent \in SUBSET DOMAIN TradeTime /\ offset \in Nat /\ recent \subseteq account.trades
    BY DEF AccountTyped
  <1>3. size \in Nat
    BY <1>2, FS_Subset, FS_CardinalityType, AccountAssumption
  <1>4. l \in [1 .. size -> recent]
    BY DEF LatestFirst
  <1> HIDE DEF recent, size, offset
  <1>5. l \in Seq(recent) /\ Len(l) = size
    BY <1>3, <1>4
  <1>6. TradePage(l, offset) = SubSeq(l, offset + 1, upto)
    BY <1>5 DEF TradePage
  <1>7. upto \in Nat /\ upto <= size
    BY <1>2, <1>3, AccountAssumption
  <1> HIDE DEF upto
  <1>8. TradePage(l, offset) \in Seq(recent)
    BY <1>2, <1>3, <1>4, <1>5, <1>6, <1>7
  <1> DEFINE page == TradePage(l, offset)
             got  == {page[i] : i \in DOMAIN page}
  <1>9. got \subseteq recent
    <2> HIDE DEF page
    <2>1. page \in Seq(recent)
      BY <1>8 DEF page
    <2>2. QED BY <2>1
  <1>10. paging'.got = paging.got \cup got
    BY <1>1 DEF AccountTyped
  <1>11. QED BY <1>2, <1>9, <1>10

\* A cursor is at the last coin of a page.
LEMMA CursorPlaced ==
  ASSUME AccountTyped, GetAllCoins
  PROVE  coins'.cursor \in {coins.cursor} \cup DOMAIN CoinType
  <1> DEFINE page   == CoinPage(coins.cursor)
             cursor == IF page = {} THEN coins.cursor
                       ELSE CHOOSE c \in page : \A d \in page : d <= c
  <1>1. coins.cursor \in Nat
    BY DEF AccountTyped
  <1>2. coins'.cursor = cursor
    BY DEF GetAllCoins, CoinsListed, AccountTyped
  <1>3. CASE page = {}
    BY <1>2, <1>3
  <1>4. CASE page # {}
    <2>1. PICK last \in page : last = CHOOSE c \in page : \A d \in page : d <= c
      BY <1>1, <1>4, PageCut
    <2>2. last \in DOMAIN CoinType
      BY <1>1, PageCut DEF CoinPage, After, AccountTyped
    <2>3. cursor = last
      BY <1>4, <2>1
    <2>4. QED BY <1>2, <2>2, <2>3
  <1>5. QED BY <1>3, <1>4

\* Every step keeps what a client has to what is saved.
LEMMA AccountCountedStep ==
  ASSUME AccountTyped, AccountCounted, [AccountNext]_accountVars
  PROVE  AccountCounted'
  <1>0. /\ changes \in Nat /\ MaxChanges \in Nat /\ nfts.shown \in Nat
        /\ paging.got \subseteq account.trades /\ coins.cursor \in {0} \cup DOMAIN CoinType
    BY AccountAssumption DEF AccountTyped, AccountCounted
  <1>1. ASSUME UNCHANGED <<coins, nfts, changes>>, account' = account,
               paging'.got \subseteq account.trades
        PROVE  AccountCounted'
    BY <1>1 DEF AccountCounted
  <1>2. CASE GetTrades
    BY <1>0, <1>1, <1>2, PageSaved DEF GetTrades
  <1>3. CASE GetAllCoins
    BY <1>0, <1>3, CursorPlaced DEF GetAllCoins, AccountCounted
  <1>4. CASE GetOwnedObjects \/ GetKiosk
    <2>1. /\ UNCHANGED <<account, paging, coins, changes>>
          /\ \/ nfts.stage = "objects" /\ nfts'.stage = "kiosks"
             \/ nfts.stage = "kiosks" /\ nfts'.stage = "end"
          /\ nfts'.shown \in {nfts.shown, nfts.shown + 1}
      BY <1>4 DEF GetOwnedObjects, GetKiosk, AccountTyped
    <2>2. QED BY <1>0, <2>1 DEF AccountCounted
  <1>5. CASE NftMoves
    <2>1. /\ UNCHANGED <<paging, coins>> /\ changes' = changes + 1 /\ changes < MaxChanges
          /\ nfts'.stage = nfts.stage /\ nfts'.shown = nfts.shown
          /\ account'.trades = account.trades
      BY <1>5 DEF NftMoves, Change, AccountTyped
    <2>2. QED BY <1>0, <2>1 DEF AccountCounted
  <1>6. ASSUME NEW t \in DOMAIN TradeTime, TradeSaved(t) PROVE AccountCounted'
    <2>1. /\ UNCHANGED <<paging, coins, nfts>> /\ changes' = changes + 1 /\ changes < MaxChanges
          /\ account'.trades = account.trades \cup {t}
      BY <1>6 DEF TradeSaved, Change, AccountTyped
    <2>2. QED BY <1>0, <2>1 DEF AccountCounted
  <1>7. ASSUME NEW c \in DOMAIN CoinType, CoinMoves(c) PROVE AccountCounted'
    <2>1. /\ UNCHANGED <<paging, nfts>> /\ changes' = changes + 1 /\ changes < MaxChanges
          /\ account'.trades = account.trades /\ coins'.cursor = coins.cursor
      BY <1>7 DEF CoinMoves, Change, AccountTyped
    <2>2. QED BY <1>0, <2>1 DEF AccountCounted
  <1>8. ASSUME NEW type \in Types, TokenSaved(type) PROVE AccountCounted'
    <2>1. /\ UNCHANGED <<paging, coins, nfts>> /\ changes' = changes + 1 /\ changes < MaxChanges
          /\ account'.trades = account.trades
      BY <1>8 DEF TokenSaved, Change, AccountTyped
    <2>2. QED BY <1>0, <2>1 DEF AccountCounted
  <1>9. CASE UNCHANGED accountVars
    BY <1>9 DEF accountVars, AccountCounted
  <1>10. QED BY <1>2, <1>3, <1>4, <1>5, <1>6, <1>7, <1>8, <1>9 DEF AccountNext

\* What an account is told, and how far its requests are, has its type.
THEOREM AccountTypeCorrect == AccountSpec => []AccountTypeOK
  <1>1. AccountInit => AccountCounted
    <2> SUFFICES ASSUME AccountInit PROVE AccountCounted
      OBVIOUS
    <2>1. PICK asked \in {"trades", "coins", "nfts"}, trades \in SUBSET DOMAIN TradeTime,
             tokens \in SUBSET Types, owned \in SUBSET DOMAIN CoinType :
       /\ asked # "trades" => trades = {}
       /\ asked # "coins" => tokens = {} /\ owned = {}
       /\ account \in [trades : {trades}, tokens : {tokens}, coins : {owned},
                       nft : IF asked = "nfts" THEN {"wallet", "kiosk"} ELSE {"wallet"}]
       /\ paging \in [stage : {IF asked = "trades" THEN "paging" ELSE "end"},
                      since : IF asked = "trades" THEN {0} \cup {TradeTime[t] : t \in trades} ELSE {0},
                      offset : {0}, got : {{}}, first : {trades}]
       /\ coins = [stage |-> IF asked = "coins" THEN "reading" ELSE "end", cursor |-> 0,
                   first |-> owned, known |-> tokens, moved |-> {}, named |-> {},
                   times |-> [c \in DOMAIN CoinType |-> 0]]
       /\ nfts \in [stage : {IF asked = "nfts" THEN "objects" ELSE "end"}, page : {1, 2},
                    image : BOOLEAN, moved : {asked # "nfts"}, shown : {0}]
      BY Zenon DEF AccountInit
    <2>2. paging.got = {} /\ coins.cursor = 0 /\ nfts.shown = 0 /\ changes = 0
      BY <2>1 DEF AccountInit
    <2>3. QED BY <2>2, AccountAssumption DEF AccountCounted
  <1>2. AccountInv /\ AccountCounted => AccountTypeOK
    <2> SUFFICES ASSUME AccountInv, AccountCounted PROVE AccountTypeOK
      OBVIOUS
    <2>1. AccountTyped /\ paging.first \subseteq account.trades
      BY DEF AccountInv, PagingKept
    <2>2. QED BY <2>1 DEF AccountTyped, AccountCounted, AccountTypeOK
  <1>3. AccountInv => AccountTyped
    BY DEF AccountInv
  <1>4. QED BY <1>1, <1>2, <1>3, AccountInvInit, AccountStep, AccountCountedStep, PTL
        DEF AccountSpec

\* A run that fetches or queries has no prices yet, and attempts left.
FeedCounted ==
  /\ latest \in Nat /\ latest <= MaxCheckpoint
  /\ checkpoint \in Nat /\ checkpoint <= latest
  /\ attempt \in Nat /\ attempt <= Attempts /\ (feeding = "fetching" => attempt < Attempts)
  /\ sends \subseteq Sendable
  /\ runs \in Nat /\ runs <= MaxFeeds
  /\ Len(feeds) \in Nat /\ Len(feeds) <= runs
  /\ feeding \in {"fetching", "querying"} => Len(feeds) < runs
  /\ refused \in Nat /\ refused <= MaxRefused

\* Every step keeps the account of the runs.
LEMMA FeedCountedStep == FeedInv /\ FeedCounted /\ [FeedNext]_feedVars => FeedCounted'
<1> SUFFICES ASSUME FeedInv, FeedCounted, [FeedNext]_feedVars
             PROVE  FeedCounted'
  OBVIOUS
<1> DEFINE Feed == [swaps : SUBSET DOMAIN Swap, sent : SUBSET Sendable, lost : SUBSET Sendable]
<1>0. /\ {MaxCheckpoint, MaxFeeds, MaxRefused, Attempts} \subseteq Nat /\ Attempts > 0
      /\ feeds \in Seq(Feed) /\ (feeding = "sending" => Len(feeds) > 0)
  BY FeedAssumption DEF FeedInv, FeedTyped, SendsHaveRun
<1> HIDE DEF Feed
<1>1. CASE NewCheckpoint
  BY <1>0, <1>1 DEF NewCheckpoint, FeedCounted
<1>2. CASE \E t \in DOMAIN Swap : SaveSwap(t)
  BY <1>2 DEF SaveSwap, FeedCounted
<1>3. CASE GetPriceFeed
  BY <1>0, <1>3 DEF GetPriceFeed, FeedCounted
<1>4. CASE FetchLatestCheckpoint
  BY <1>0, <1>4 DEF FetchLatestCheckpoint, Refuse, FeedCounted
<1>5. CASE QueryPrices
  <2>1. CASE /\ sends' = Prices(Seen) \X Sinks /\ refused' = refused /\ feeding' = "sending"
             /\ feeds' = Append(feeds, [swaps |-> Seen, sent |-> {}, lost |-> {}])
    <3> DEFINE new == [swaps |-> Seen, sent |-> {}, lost |-> {}]
    <3>1. new \in Feed
      BY DEF Seen, FeedInv, FeedTyped, Feed
    <3>2. feeds' = Append(feeds, new)
      BY <2>1
    <3> HIDE DEF new
    <3>3. Len(feeds') = Len(feeds) + 1
      BY <1>0, <3>1, <3>2
    <3>4. sends' \subseteq Sendable
      BY <2>1, PricesNamed
    <3> QED
      BY <1>5, <2>1, <3>3, <3>4 DEF QueryPrices, FeedCounted
  <2>2. CASE /\ refused' = refused \/ Refuse
             /\ feeding' = "idle" /\ UNCHANGED <<sends, feeds>>
    BY <1>0, <1>5, <2>2 DEF QueryPrices, Refuse, FeedCounted
  <2> QED
    BY <1>5, <2>1, <2>2 DEF QueryPrices
<1>6. CASE WaitSends
  BY <1>6 DEF WaitSends, FeedCounted
<1>7. CASE StopFeed
  <2>1. Len(feeds') \in Nat /\ Len(feeds') <= Len(feeds)
    <3>1. CASE feeding # "sending"
      BY <1>7, <3>1 DEF StopFeed, FeedCounted
    <3>2. CASE feeding = "sending"
      BY <1>0, <1>7, <3>2 DEF StopFeed, FeedCounted
    <3> QED
      BY <3>1, <3>2
  <2> QED
    BY <1>0, <1>7, <2>1 DEF StopFeed, Refuse, FeedCounted
<1>8. ASSUME NEW s \in sends, Send(s) \/ SendFails(s)
      PROVE  FeedCounted'
  <2>1. /\ UNCHANGED <<latest, attempt, checkpoint, runs, feeding>> /\ sends' \subseteq sends
        /\ refused' = refused \/ Refuse
        /\ \/ feeds' = [feeds EXCEPT ![Len(feeds)].sent = @ \cup {s}]
           \/ feeds' = [feeds EXCEPT ![Len(feeds)].lost = @ \cup {s}]
    BY <1>8 DEF Send, SendFails
  <2>2. Len(feeds') = Len(feeds)
    <3>1. DOMAIN feeds' = DOMAIN feeds
      BY <2>1, Zenon
    <3>2. DOMAIN feeds' = 1 .. Len(feeds)
      BY <1>0, <3>1
    <3>3. feeds' \in Seq(Feed)
      BY <1>0, FeedStep DEF FeedInv, FeedTyped, Feed
    <3> QED
      BY <1>0, <3>2, <3>3
  <2> QED
    BY <1>0, <2>1, <2>2 DEF Refuse, FeedCounted
<1>9. CASE UNCHANGED feedVars
  BY <1>9 DEF feedVars, FeedCounted
<1> QED
  BY <1>1, <1>2, <1>3, <1>4, <1>5, <1>6, <1>7, <1>8, <1>9 DEF FeedNext

\* The job's state has its type: it never attempts more often than it may, and has
\* no more price lists than runs.
THEOREM FeedTypeCorrect == FeedSpec => []FeedTypeOK
<1>1. FeedInit => FeedCounted
  BY FeedAssumption DEF FeedInit, FeedCounted
<1>2. FeedInv /\ FeedCounted => FeedTypeOK
  BY FeedAssumption DEF FeedInv, FeedTyped, FeedCounted, FeedTypeOK, Sendable
<1> QED
  BY <1>1, <1>2, FeedInvInit, FeedStep, FeedCountedStep, PTL DEF FeedSpec

\* A command that runs has not returned nil yet; what waits and what was cut short
\* are lines of the source.
SyncCounted ==
  /\ counter \in Nat
  /\ buffer \subseteq Line /\ garbled \subseteq Line
  /\ syncs <= MaxSyncs /\ syncsOk <= syncs /\ (syncing => syncsOk < syncs)
  /\ breaks \in Nat /\ breaks <= MaxBreaks

\* Every step keeps the account of the commands.
LEMMA SyncCountedStep == SyncInv /\ SyncCounted /\ [SyncNext]_syncVars => SyncCounted'
<1> SUFFICES ASSUME SyncInv, SyncCounted, [SyncNext]_syncVars
             PROVE  SyncCounted'
  OBVIOUS
<1>0. /\ MaxSyncs \in Nat /\ MaxBreaks \in Nat /\ syncs \in Nat /\ syncsOk \in Nat
      /\ counter \in Nat /\ breaks \in Nat /\ breaks <= MaxBreaks
  BY SyncAssumption DEF SyncInv, SyncTyped, SyncCounted
<1>1. source' = source
  BY DEF SyncNext, StartSync, TakeLine, LeaveLine, CutStream, EndOfLines, syncVars
<1>2. Line' = Line
  BY <1>1, SameSource
<1>3. Unread => NextLine \in Line
  <2> SUFFICES ASSUME Unread PROVE NextLine \in Line
    OBVIOUS
  <2>1. file \in 1 .. Len(source.files) /\ line \in Nat /\ line + 1 \in DOMAIN source.files[file]
        /\ file \in DOMAIN source.files
    BY ListingFirst, LinesPlaced DEF Unread, SyncInv, SyncTyped
  <2> QED
    BY <2>1 DEF Line, NextLine
<1>10. ASSUME syncing, syncs' = syncs,
              UNCHANGED <<syncing, syncsOk>> \/ EndSync(FALSE) \/ EndSync(TRUE),
              breaks' = breaks \/ Break, counter' \in Nat,
              buffer' \subseteq Line, garbled' \subseteq Line
       PROVE  SyncCounted'
  <2>1. breaks' \in Nat /\ breaks' <= MaxBreaks
    BY <1>0, <1>10 DEF Break
  <2>2. syncsOk' <= syncs /\ (syncing' => syncsOk' < syncs)
    <3>1. CASE UNCHANGED <<syncing, syncsOk>>
      BY <1>0, <1>10, <3>1 DEF SyncCounted
    <3>2. CASE EndSync(FALSE) \/ EndSync(TRUE)
      <4>1. syncing' = FALSE /\ (syncsOk' = syncsOk \/ syncsOk' = syncsOk + 1)
        BY <3>2, Zenon DEF EndSync
      <4> QED
        BY <1>0, <1>10, <4>1 DEF SyncCounted
    <3> QED
      BY <1>10, <3>1, <3>2
  <2> QED
    BY <1>2, <1>10, <2>1, <2>2 DEF SyncCounted
<1>4. CASE StartSync
  BY <1>0, <1>2, <1>4 DEF StartSync, SyncCounted
<1>5. CASE TakeLine
  <2>1. /\ UNCHANGED <<garbled, syncs>> /\ syncing
        /\ buffer' \in {buffer, {}, buffer \cup {NextLine}}
        /\ counter' \in {counter, counter + 1}
        /\ breaks' = breaks \/ Break
        /\ UNCHANGED <<syncing, syncsOk>> \/ EndSync(FALSE)
    BY <1>5 DEF TakeLine, Unread, CreateTradesFails
  <2>2. buffer' \subseteq Line
    BY <1>3, <1>5, <2>1 DEF TakeLine, SyncCounted
  <2> QED
    <3>1. counter' \in Nat /\ garbled' \subseteq Line
      BY <1>0, <2>1 DEF SyncCounted
    <3> QED
      BY <1>10, <2>1, <2>2, <3>1, Zenon
<1>6. CASE LeaveLine
  <2>1. /\ UNCHANGED <<counter, buffer, garbled, syncs, breaks>> /\ syncing
        /\ UNCHANGED <<syncing, syncsOk>> \/ EndSync(FALSE)
    BY <1>6 DEF LeaveLine, Unread
  <2> QED
    BY <1>0, <1>10, <2>1 DEF SyncCounted
<1>7. CASE CutStream
  <2>1. /\ UNCHANGED <<counter, syncs>> /\ syncing /\ Break
        /\ buffer' \in {buffer, buffer \cup {NextLine}}
        /\ garbled' \in {garbled, garbled \cup {NextLine}}
        /\ UNCHANGED <<syncing, syncsOk>> \/ EndSync(FALSE)
    BY <1>7 DEF CutStream, Unread
  <2>2. buffer' \subseteq Line /\ garbled' \subseteq Line
    BY <1>3, <1>7, <2>1 DEF CutStream, SyncCounted
  <2> QED
    BY <1>0, <1>10, <2>1, <2>2 DEF SyncCounted
<1>8. CASE EndOfLines
  <2>1. /\ UNCHANGED <<garbled, syncs>> /\ syncing /\ buffer' = {}
        /\ counter' \in {counter, 0}
        /\ breaks' = breaks \/ Break
        /\ UNCHANGED <<syncing, syncsOk>> \/ EndSync(FALSE) \/ EndSync(TRUE)
    BY <1>8 DEF EndOfLines, CreateTradesFails
  <2> QED
    <3>1. counter' \in Nat /\ garbled' \subseteq Line /\ buffer' \subseteq Line
      BY <1>0, <2>1 DEF SyncCounted
    <3> QED
      BY <1>10, <2>1, <3>1, Zenon
<1>9. CASE UNCHANGED syncVars
  BY <1>2, <1>9 DEF syncVars, SyncCounted
<1> QED
  BY <1>4, <1>5, <1>6, <1>7, <1>8, <1>9 DEF SyncNext

\* The command's state has its type: it is within a file, and no more commands
\* return nil than start.
THEOREM SyncTypeCorrect == SyncSpec => []SyncTypeOK
<1>1. SyncInit => SyncCounted /\ cut \in BOOLEAN
  <2>1. SyncInit => SyncCounted
    BY SyncAssumption DEF SyncInit, SyncCounted
  <2>2. SyncInit => cut \in BOOLEAN
    BY DEF SyncInit
  <2> QED
    BY <2>1, <2>2
<1>2. SyncInv /\ SyncCounted /\ cut \in BOOLEAN => SyncTypeOK
  <2> SUFFICES ASSUME SyncInv, SyncCounted, cut \in BOOLEAN PROVE SyncTypeOK
    OBVIOUS
  <2>1. file \in DOMAIN source.files
    BY ListingFirst, LinesPlaced DEF SyncInv, SyncTyped
  <2>2. syncs \in 0 .. MaxSyncs /\ syncsOk \in 0 .. syncs /\ breaks \in 0 .. MaxBreaks
    BY SyncAssumption DEF SyncInv, SyncTyped, SyncCounted
  <2> QED
    <3>1. /\ source \in Sources /\ line \in 0 .. Len(source.files[file])
          /\ copies \in [Line -> Nat] /\ syncing \in BOOLEAN
      BY DEF SyncInv, SyncTyped
    <3>2. counter \in Nat /\ buffer \subseteq Line /\ garbled \subseteq Line
      BY DEF SyncCounted
    <3> QED
      BY <2>1, <2>2, <3>1, <3>2, Zenon DEF SyncTypeOK
<1>3. cut \in BOOLEAN /\ [SyncNext]_syncVars => (cut \in BOOLEAN)'
  <2> SUFFICES ASSUME cut \in BOOLEAN, [SyncNext]_syncVars PROVE cut' \in BOOLEAN
    OBVIOUS
  <2>1. cut' \in {cut, TRUE, FALSE}
    BY Zenon DEF SyncNext, StartSync, TakeLine, LeaveLine, CutStream, EndOfLines, syncVars
  <2> QED
    BY <2>1, Zenon
<1> QED
  BY <1>1, <1>2, <1>3, SyncInvInit, SyncStep, SyncCountedStep, PTL DEF SyncSpec

\* A run starts and stamps in the past, only what was minted has a supply, and no
\* list is longer than the limit.
Limited(e) == Len(e.rows) \in Nat /\ Len(e.rows) <= ListingLimit

TokensCounted ==
  /\ minute <= MaxMinute /\ pricing.start <= minute /\ pricing.stamp <= minute
  /\ supplied \subseteq Minted
  /\ \A n \in DOMAIN listings : Limited(listings[n])
  /\ unpriced \in Nat /\ unpriced <= MaxUnpriced

\* What a request makes of the lists.
LEMMA ListLimited ==
  ASSUME TokensInv, TokensCounted, 
         QueryTokens \/ \E n \in DOMAIN listings : FillSupply(n) \/ AnswerTokens(n)
  PROVE  /\ supplied' \subseteq Minted
         /\ \A n \in DOMAIN listings' : Limited(listings'[n])
<1>0. listings \in Seq(ListEntry) /\ supplied \subseteq Minted
      /\ \A n \in DOMAIN listings : listings[n] \in ListEntry /\ Limited(listings[n])
  BY DEF TokensInv, TokensTyped, TokensCounted
<1>1. CASE QueryTokens
  <2>1. PICK l \in Ordered(Window) : listings' = Append(listings,
          [rows |-> [i \in 1 .. IF Len(l) < ListingLimit THEN Len(l) ELSE ListingLimit |->
                       [token |-> l[i].token,
                        supply |-> IF l[i].token \in supplied THEN "known" ELSE "empty"]],
           last |-> {p.token : p \in {q \in priceRows :
                       q.run = getCurrentEpochStart - Epoch /\ q.stamp < getCurrentEpochStart}},
           stage |-> "loop"])
    BY <1>1 DEF QueryTokens
  <2> DEFINE size == IF Len(l) < ListingLimit THEN Len(l) ELSE ListingLimit
             rows == [i \in 1 .. size |->
                       [token |-> l[i].token,
                        supply |-> IF l[i].token \in supplied THEN "known" ELSE "empty"]]
             e ==
          [rows |-> rows,
           last |-> {p.token : p \in {q \in priceRows :
                       q.run = getCurrentEpochStart - Epoch /\ q.stamp < getCurrentEpochStart}},
           stage |-> "loop"]
  <2>2. e \in ListEntry
    BY QueryRight DEF TokensInv
  <2>3. Cardinality(Window) \in Nat
    <3>1. IsFiniteSet(Window)
      BY FS_Subset DEF Window, TokensInv, TokensTyped
    <3> QED
      BY <3>1, FS_CardinalityType
  <2>4. Len(l) \in Nat
    BY <2>3 DEF Ordered
  <2>5. size \in Nat /\ size <= ListingLimit
    BY <2>4, TokensApiAssumption
  <2>6. e.rows = rows /\ listings' = Append(listings, e)
    BY <2>1
  <2>7. Limited(e)
    <3>1. Len(rows) = size
      <4> HIDE DEF size
      <4> QED
        BY <2>5
    <3> HIDE DEF rows, e, size
    <3> QED
      BY <2>5, <2>6, <3>1 DEF Limited
  <2> HIDE DEF e
  <2>8. \A n \in DOMAIN listings' : (n \in DOMAIN listings /\ listings'[n] = listings[n]) \/ listings'[n] = e
    BY <1>0, <2>2, <2>6
  <2> QED
    BY <1>0, <1>1, <2>7, <2>8 DEF QueryTokens
<1>2. ASSUME NEW n \in DOMAIN listings, FillSupply(n)
      PROVE  /\ supplied' \subseteq Minted
             /\ \A m \in DOMAIN listings' : Limited(listings'[m])
  <2>1. PICK i \in DOMAIN listings[n].rows :
          /\ listings' = [listings EXCEPT ![n].rows[i].supply = "asked"]
          /\ supplied' \in {supplied} \cup
                           (IF listings[n].rows[i].token \in Minted
                            THEN {supplied \cup {listings[n].rows[i].token}} ELSE {})
    BY <1>2 DEF FillSupply
  <2> DEFINE e == listings[n]
             row == [e.rows[i] EXCEPT !.supply = "asked"]
             rows == [e.rows EXCEPT ![i] = row]
             f == [e EXCEPT !.rows = rows]
  <2>2. e \in ListEntry /\ Limited(e)
    BY <1>0
  <2>3. e.rows \in Seq(ListRow)
    BY <2>2 DEF ListEntry
  <2>4. row \in ListRow
    <3>1. e.rows[i] \in ListRow
      BY <2>1, <2>3
    <3> HIDE DEF e
    <3> QED
      BY <3>1 DEF ListRow
  <2>5. listings' = [listings EXCEPT ![n] = f]
    BY <2>1
  <2>6. Len(rows) = Len(e.rows)
    <3> HIDE DEF row, e
    <3> QED
      BY <2>1, <2>3, <2>4
  <2>7. f.rows = rows
    BY <2>2 DEF ListEntry
  <2> HIDE DEF f, rows, row
  <2>8. Limited(f)
    BY <2>2, <2>6, <2>7 DEF Limited
  <2>9. DOMAIN listings' = DOMAIN listings
        /\ \A m \in DOMAIN listings : listings'[m] = listings[m] \/ listings'[m] = f
    BY <1>0, <2>5
  <2>10. supplied' \subseteq Minted
    BY <1>0, <2>1
  <2> QED
    BY <1>0, <2>8, <2>9, <2>10
<1>3. ASSUME NEW n \in DOMAIN listings, AnswerTokens(n)
      PROVE  /\ supplied' \subseteq Minted
             /\ \A m \in DOMAIN listings' : Limited(listings'[m])
  <2> DEFINE f == [listings[n] EXCEPT !.stage = "answered"]
  <2>1. supplied' = supplied /\ listings' = [listings EXCEPT ![n] = f]
    BY <1>3 DEF AnswerTokens
  <2>2. f.rows = listings[n].rows
    BY <1>0 DEF ListEntry
  <2> HIDE DEF f
  <2>3. Limited(f)
    BY <1>0, <2>2 DEF Limited
  <2>4. DOMAIN listings' = DOMAIN listings
        /\ \A m \in DOMAIN listings : listings'[m] = listings[m] \/ listings'[m] = f
    BY <1>0, <2>1
  <2> QED
    BY <1>0, <2>1, <2>3, <2>4
<1> QED
  BY <1>1, <1>2, <1>3

\* Every step keeps them.
LEMMA TokensCountedStep == TokensInv /\ TokensCounted /\ [TokensNext]_tokensVars => TokensCounted'
<1> SUFFICES ASSUME TokensInv, TokensCounted, [TokensNext]_tokensVars
             PROVE  TokensCounted'
  OBVIOUS
<1>0. /\ minute \in Nat /\ pricing \in PriceRun /\ MaxMinute \in Nat /\ MaxUnpriced \in Nat
      /\ unpriced \in Nat
  BY TokensApiAssumption DEF TokensInv, TokensTyped, TokensCounted
<1>1. CASE StartRun \/ StampRun \/ MinutePasses \/ \E t \in Listable : StorePrice(t)
  <2>1. /\ UNCHANGED <<supplied, listings>> /\ (unpriced' = unpriced \/ LosePrice)
        /\ minute' = minute \/ (minute < MaxMinute /\ minute' = minute + 1)
    BY <1>1 DEF StartRun, StampRun, MinutePasses, StorePrice
  <2>2. pricing'.start \in {pricing.start, minute, 0} /\ pricing'.stamp \in {pricing.stamp, minute, 0}
    <3>1. CASE StartRun
      <4>1. pricing' = [NoRun EXCEPT !.start = minute, !.stage = "fetching"] \/ pricing' = NoRun
        BY <3>1 DEF StartRun
      <4>2. CASE pricing' = NoRun
        BY <4>2 DEF NoRun
      <4>3. CASE pricing' = [NoRun EXCEPT !.start = minute, !.stage = "fetching"]
        BY <4>3 DEF NoRun
      <4> QED
        BY <4>1, <4>2, <4>3
    <3>2. CASE StampRun \/ MinutePasses \/ \E t \in Listable : StorePrice(t)
      BY <1>0, <3>2 DEF StampRun, MinutePasses, StorePrice, PriceRun
    <3> QED
      BY <1>1, <3>1, <3>2
  <2>3. pricing'.start <= minute' /\ pricing'.stamp <= minute' /\ minute' <= MaxMinute
    BY <1>0, <2>1, <2>2 DEF TokensCounted, PriceRun
  <2>4. unpriced' \in Nat /\ unpriced' <= MaxUnpriced
    BY <1>0, <2>1 DEF LosePrice, TokensCounted
  <2>5. \A n \in DOMAIN listings' : Limited(listings'[n])
    BY <2>1 DEF TokensCounted
  <2>6. supplied' \subseteq Minted
    BY <2>1 DEF TokensCounted
  <2> QED
    BY <2>3, <2>4, <2>5, <2>6, Zenon DEF TokensCounted
<1>2. CASE QueryTokens \/ \E n \in DOMAIN listings : FillSupply(n) \/ AnswerTokens(n)
  <2>1. UNCHANGED <<minute, pricing, unpriced>>
    BY <1>2 DEF QueryTokens, FillSupply, AnswerTokens
  <2> QED
    BY <1>2, <2>1, ListLimited DEF TokensCounted
<1>3. CASE UNCHANGED tokensVars
  BY <1>3 DEF tokensVars, TokensCounted
<1> QED
  BY <1>1, <1>2, <1>3 DEF TokensNext

\* The job's runs, the rows and the lists have their types.
THEOREM TokensTypeCorrect == TokensSpec => []TokensTypeOK
<1>1. TokensInit => TokensCounted
  BY TokensApiAssumption DEF TokensInit, NoRun, TokensCounted
<1>2. TokensInv /\ TokensCounted => TokensTypeOK
  <2> SUFFICES ASSUME TokensInv, TokensCounted PROVE TokensTypeOK
    OBVIOUS
  <2>1. minute \in 0 .. MaxMinute /\ unpriced \in 0 .. MaxUnpriced
    BY TokensApiAssumption DEF TokensInv, TokensTyped, TokensCounted
  <2>2. pricing \in [due : BOOLEAN, start : 0 .. MaxMinute, stage : {"idle", "fetching", "storing"},
                     stamp : 0 .. MaxMinute, left : SUBSET Listable]
    <3>1. pricing.start \in 0 .. MaxMinute /\ pricing.stamp \in 0 .. MaxMinute
      <4>1. /\ pricing.start \in Nat /\ pricing.stamp \in Nat
            /\ pricing.start <= minute /\ pricing.stamp <= minute
        BY DEF TokensInv, TokensTyped, TokensCounted, PriceRun
      <4> QED
        BY <2>1, <4>1, TokensApiAssumption
    <3> QED
      BY <3>1 DEF TokensInv, TokensTyped, PriceRun
  <2>3. priceRows \subseteq [token : Listable, stamp : 0 .. MaxMinute, run : 0 .. MaxMinute]
    <3> SUFFICES ASSUME NEW p \in priceRows
                 PROVE  p \in [token : Listable, stamp : 0 .. MaxMinute, run : 0 .. MaxMinute]
      OBVIOUS
    <3>1. p \in PriceRow /\ p.run <= p.stamp /\ p.stamp <= minute
      BY DEF TokensInv, TokensTyped, RunsApart
    <3>2. p.stamp \in 0 .. MaxMinute /\ p.run \in 0 .. MaxMinute
      <4>1. p.stamp \in Nat /\ p.run \in Nat
        BY <3>1 DEF PriceRow
      <4> QED
        BY <2>1, <3>1, <4>1, TokensApiAssumption
    <3> QED
      BY <3>1, <3>2 DEF PriceRow
  <2>4. ASSUME NEW n \in DOMAIN listings
        PROVE  /\ Len(listings[n].rows) <= ListingLimit
               /\ \A i \in DOMAIN listings[n].rows :
                     listings[n].rows[i] \in [token : Listable, supply : {"known", "empty", "asked"}]
    <3>1. listings[n] \in ListEntry
      BY <2>4 DEF TokensInv, TokensTyped
    <3>2. listings[n].rows \in Seq(ListRow)
      BY <3>1 DEF ListEntry
    <3> QED
      <4>1. Len(listings[n].rows) <= ListingLimit
        BY <2>4 DEF TokensCounted, Limited
      <4>2. \A i \in DOMAIN listings[n].rows : listings[n].rows[i] \in ListRow
        BY <3>2
      <4> QED
        BY <4>1, <4>2 DEF ListRow
  <2> QED
    BY <2>1, <2>2, <2>3, <2>4 DEF TokensTypeOK, TokensCounted
<1> QED
  BY <1>1, <1>2, TokensInvInit, TokensStep, TokensCountedStep, PTL DEF TokensSpec

(***************************************************************************)
(* Whichever service a behaviour of MCServices is about, all of them keep  *)
(* their types: the specification restricts each service's own.            *)
(***************************************************************************)
THEOREM ServicesTypeCorrect == MCSpec => []ServicesTypeOK
<1>1. MCInit => /\ Init /\ SyncInit /\ CompressInit /\ PriceInit
                /\ FeedInit /\ TokensInit /\ AccountInit
  BY Zenon DEF MCInit
<1>2. [MCNext /\ part' = part]_mcVars =>
        /\ [Next]_vars /\ [SyncNext]_syncVars /\ [CompressNext]_compressVars
        /\ [PriceNext]_priceVars /\ [FeedNext]_feedVars
        /\ [TokensNext]_tokensVars /\ [AccountNext]_accountVars
  BY Zenon DEF MCNext, mcVars
<1>3. MCSpec => /\ Spec /\ SyncSpec /\ CompressSpec /\ PriceSpec
                /\ FeedSpec /\ TokensSpec /\ AccountSpec
  BY <1>1, <1>2, PTL
     DEF MCSpec, Spec, SyncSpec, CompressSpec, PriceSpec, FeedSpec, TokensSpec, AccountSpec
<1> QED
  BY <1>3, CronTyped, SyncTypeCorrect, CompressTypeCorrect, PriceTyped, FeedTypeCorrect,
     TokensTypeCorrect, AccountTypeCorrect, PTL DEF ServicesTypeOK

=============================================================================

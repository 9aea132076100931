---------------------------- MODULE Compression ----------------------------
(***************************************************************************)
(* CompressData (sui-indexer/internal/service/compression_service.go): the *)
(* rows of a day are copied from the two raw tables in Athena to the two   *)
(* final ones.  sui-master runs it every day for the day before            *)
(* (app/sui-master/cronjob.go), the CLI for a day or for a range of days   *)
(* (app/cli/app.go).                                                       *)
(*                                                                         *)
(* A raw table yields the rows of a day only once MSCK REPAIR TABLE has    *)
(* made the day's partition known; the data of all days are in S3.         *)
(***************************************************************************)
EXTENDS Integers, FiniteSets

CONSTANTS
  Dates,       \* how many days there are
  JobLimit,    \* goroutines of a range, eg.SetLimit
  MaxCommands, \* bound: commands run
  MaxQueries   \* bound: queries that fail by themselves

ASSUME CompressionAssumption ==
  /\ {Dates, MaxCommands, MaxQueries} \subseteq Nat
  /\ JobLimit \in Nat \ {0}

Date  == 1 .. Dates
Final == {"checkpoints", "txs"}

VARIABLES
  known,    \* the partitions of the raw tables that Athena knows
  final,    \* how often a day's rows are in a final table
  command,  \* what runs: "daily", "single" or "range", or "none"
  job,      \* CompressData, for each day of the command
  autoAddPartitions, \* the variable the goroutines of a range share
  cancelled,         \* the context of the range
  blind,    \* history: inserts that ran before the partition was known
  covered,  \* history: how many commands were asked for each day
  reported, \* history: days that a command has returned nil for
  daily,    \* history: those among them that the daily job has
  commands, failures \* the bounds' counters

compressVars == <<known, final, command, job, autoAddPartitions, cancelled, blind,
                  covered, reported, daily, commands, failures>>

-----------------------------------------------------------------------------
NoJob == [step |-> "none", todo |-> {}, failed |-> FALSE]

\* Both queries of a step begin, or fail at once when the context is cancelled.
Job(step) ==
  IF cancelled THEN [step |-> "ended", todo |-> {}, failed |-> TRUE]
  ELSE [step |-> step, todo |-> Final, failed |-> FALSE]

Running == {d \in Date : job[d].step \in {"begun", "repair", "insert"}}

\* The days of the command whose goroutine has not been started.
Waiting == {d \in Date : job[d].step = "waiting"}

Compress(kind, days) ==
  /\ command = "none" /\ commands < MaxCommands
  /\ command' = kind /\ commands' = commands + 1
  /\ covered' = [d \in Date |-> IF d \in days THEN covered[d] + 1 ELSE covered[d]]
  /\ cancelled' = FALSE
  /\ autoAddPartitions' = (kind # "single")
  /\ job' = [d \in Date |-> IF d \in days THEN [NoJob EXCEPT !.step = "waiting"] ELSE NoJob]
  /\ UNCHANGED <<known, final, blind, reported, daily, failures>>

\* The job compress_sui_data, and the CLI with one date.
CompressDaily(d)  == Compress("daily", {d})
CompressSingle(d) == Compress("single", {d})

\* The CLI with two dates: the second one is not compressed.
CompressRange(from, to) == Compress("range", from .. (to - 1))

\* eg.Go, in the order of the days and as the limit allows.
StartJob(d) ==
  /\ d \in Waiting /\ \A e \in Waiting : d <= e
  /\ Cardinality(Running) < JobLimit
  /\ job' = [job EXCEPT ![d].step = "begun"]
  /\ UNCHANGED <<known, final, command, autoAddPartitions, cancelled, blind, covered,
                 reported, daily, commands, failures>>

\* "if i != 0 && autoAddPartitions": every goroutine but the first clears the
\* variable, which the first may not have read by then.
First(d) == \A e \in Date : job[e].step # "none" => d <= e

EnterJob(d) ==
  /\ job[d].step = "begun"
  /\ autoAddPartitions' = (autoAddPartitions /\ First(d))
  /\ job' = [job EXCEPT ![d] = Job(IF autoAddPartitions' THEN "repair" ELSE "insert")]
  /\ UNCHANGED <<known, final, command, cancelled, blind, covered, reported, daily,
                 commands, failures>>

\* Variant: the inserts do not wait for the second table's repair.
EndedEarly(d, t, ok) ==
  LET j == [job[d] EXCEPT !.todo = @ \ {t}, !.failed = @ \/ ~ok]
  IN job' = [job EXCEPT ![d] =
       IF j.step = "repair" /\ ok THEN Job("insert")
       ELSE IF j.todo # {} THEN j
       ELSE [j EXCEPT !.step = "ended"]]

\* A query ends; the last one of a pair ends the step.  eg1.Wait is followed
\* by the inserts, unless a repair has failed.
Ended(d, t, ok) ==
  LET j == [job[d] EXCEPT !.todo = @ \ {t}, !.failed = @ \/ ~ok]
  IN job' = [job EXCEPT ![d] =
       IF j.todo # {} THEN j
       ELSE IF j.step = "repair" /\ ~j.failed THEN Job("insert")
       ELSE [j EXCEPT !.step = "ended"]]

\* MSCK REPAIR TABLE finds the partitions of all days.
Repair(d, t) ==
  /\ job[d].step = "repair" /\ t \in job[d].todo
  /\ known' = known \cup ({t} \X Date)
  /\ Ended(d, t, TRUE)
  /\ UNCHANGED <<final, command, autoAddPartitions, cancelled, blind, covered, reported,
                 daily, commands, failures>>

InsertRows(d, t) ==
  IF <<t, d>> \in known
  THEN final' = [final EXCEPT ![t][d] = @ + 1] /\ UNCHANGED blind
  ELSE blind' = blind \cup {<<t, d>>} /\ UNCHANGED final

Insert(d, t) ==
  /\ job[d].step = "insert" /\ t \in job[d].todo
  /\ InsertRows(d, t)
  /\ Ended(d, t, TRUE)
  /\ UNCHANGED <<known, command, autoAddPartitions, cancelled, covered, reported, daily,
                 commands, failures>>

\* The failure of another query has cancelled the context of this one.  The
\* repair of the second table has the context of the range only.
Doomed(d, t) ==
  cancelled \/ (job[d].failed /\ (job[d].step = "insert" \/ t = "checkpoints"))

\* A query fails; Athena may have run it all the same.
QueryFails(d, t) ==
  /\ job[d].step \in {"repair", "insert"} /\ t \in job[d].todo
  /\ IF Doomed(d, t) THEN UNCHANGED failures
     ELSE failures < MaxQueries /\ failures' = failures + 1
  /\ \/ UNCHANGED <<known, final, blind>>
     \/ /\ job[d].step = "repair" /\ known' = known \cup ({t} \X Date)
        /\ UNCHANGED <<final, blind>>
     \/ job[d].step = "insert" /\ InsertRows(d, t) /\ UNCHANGED known
  /\ Ended(d, t, FALSE)
  /\ UNCHANGED <<command, autoAddPartitions, cancelled, covered, reported, daily, commands>>

\* CompressData of one day returns its error, which cancels the others.
ReturnError(d) ==
  /\ job[d].step = "ended" /\ job[d].failed /\ ~cancelled
  /\ cancelled' = TRUE
  /\ UNCHANGED <<known, final, command, job, autoAddPartitions, blind, covered, reported,
                 daily, commands, failures>>

\* The command returns, with an error if any of its days has one.
EndCommand ==
  /\ command # "none"
  /\ \A d \in Date : /\ job[d].step \in {"none", "ended"}
                     /\ job[d].failed => cancelled
  /\ LET days == IF cancelled THEN {} ELSE {d \in Date : job[d].step = "ended"}
     IN /\ reported' = reported \cup days
        /\ daily' = IF command = "daily" THEN daily \cup days ELSE daily
  /\ command' = "none"
  /\ job' = [d \in Date |-> NoJob]
  /\ UNCHANGED <<known, final, autoAddPartitions, cancelled, blind, covered, commands,
                 failures>>

-----------------------------------------------------------------------------
CompressInit ==
  /\ known = {} /\ final = [t \in Final |-> [d \in Date |-> 0]]
  /\ command = "none" /\ job = [d \in Date |-> NoJob]
  /\ autoAddPartitions = TRUE /\ cancelled = FALSE
  /\ blind = {} /\ covered = [d \in Date |-> 0] /\ reported = {} /\ daily = {}
  /\ commands = 0 /\ failures = 0

CompressNext ==
  \/ \E d \in Date :
       \/ CompressDaily(d) \/ CompressSingle(d)
       \/ \E to \in d + 1 .. Dates + 1 : CompressRange(d, to)
       \/ StartJob(d) \/ EnterJob(d) \/ ReturnError(d)
       \/ \E t \in Final : Repair(d, t) \/ Insert(d, t) \/ QueryFails(d, t)
  \/ EndCommand

CompressSpec == CompressInit /\ [][CompressNext]_compressVars

-----------------------------------------------------------------------------
(***************************************************************************)
(* Properties.                                                             *)
(***************************************************************************)
CompressTypeOK ==
  /\ known \subseteq Final \X Date /\ blind \subseteq Final \X Date
  /\ final \in [Final -> [Date -> Nat]]
  /\ command \in {"none", "daily", "single", "range"}
  /\ \A d \in Date : /\ job[d].step \in {"none", "waiting", "begun", "repair", "insert", "ended"}
                     /\ job[d].todo \subseteq Final /\ job[d].failed \in BOOLEAN
  /\ {autoAddPartitions, cancelled} \subseteq BOOLEAN
  /\ covered \in [Date -> 0 .. MaxCommands] /\ daily \subseteq reported
  /\ reported \subseteq Date /\ commands \in 0 .. MaxCommands /\ failures \in 0 .. MaxQueries

(***************************************************************************)
(* A day that the daily job has reported as compressed is in both final    *)
(* tables.  A day that another command has reported may lack one, but only *)
(* because its insert ran before the partition was known: with one date    *)
(* nothing is repaired, and in a range the inserts of the other days do    *)
(* not wait for the first day's repair.  No command adds a day twice to a  *)
(* table, but each of them adds it again.                                  *)
(***************************************************************************)
ReportedMeansCompressed ==
  \A d \in Date, t \in Final :
     /\ d \in daily => final[t][d] > 0
     /\ d \in reported => final[t][d] > 0 \/ <<t, d>> \in blind
     /\ final[t][d] <= covered[d]

=============================================================================

----------------------------- MODULE SyncTrades -----------------------------
(***************************************************************************)
(* The command sync-trades of the CLI, which copies csv files into the     *)
(* table trade (sui-indexer/internal/service/sync_trade_service.go, with   *)
(* CreateMany of internal/repo/gorm/trade_repo.go and app/cli/app.go).     *)
(*                                                                         *)
(* "local" reads a file and "s3" the objects below a prefix, each of them  *)
(* through S3 Select, whose stream a goroutine copies into a pipe.  A line *)
(* is what the csv reader makes of it: "good"; "long" or "short", with too *)
(* many or too few fields; "broken" beyond reading.                        *)
(***************************************************************************)
EXTENDS Integers, Sequences, FiniteSets

CONSTANTS
  Sources,    \* [from |-> "local" or "s3", files |-> sequences of lines]
  SaveEvery,  \* 1000
  ListLimit,  \* how many objects one ListObjects answers
  MaxSyncs,   \* bound: commands run
  MaxBreaks   \* bound: errors of the table and of streams

LineKinds == {"good", "long", "short", "broken"}

\* "local" reads one file.
ASSUME SyncAssumption ==
  /\ {SaveEvery, ListLimit} \subseteq Nat \ {0}
  /\ {MaxSyncs, MaxBreaks} \subseteq Nat
  /\ \A s \in Sources :
        /\ s.from \in {"local", "s3"}
        /\ s.files \in Seq(Seq(LineKinds)) /\ Len(s.files) > 0
        /\ s.from = "local" => Len(s.files) = 1

VARIABLES
  source,   \* what is synced, command after command
  syncing,  \* a command runs
  file,     \* the file it is at
  line,     \* the lines it has read of it
  counter,  \* i
  buffer,   \* trades: the lines not saved yet
  cut,      \* the stream of this object has ended early
  copies,   \* how often each line is in the table
  garbled,  \* history: lines saved with a value cut short
  syncs, syncsOk, \* history: commands started, and those that returned nil
  breaks    \* the bound's counter

syncVars == <<source, syncing, file, line, counter, buffer, cut, copies, garbled,
              syncs, syncsOk, breaks>>

-----------------------------------------------------------------------------
Line == UNION {{f} \X DOMAIN source.files[f] : f \in DOMAIN source.files}

Kind(l) == source.files[l[1]][l[2]]

\* The files a command gets to: a listing is not continued.
Listing == IF source.from = "s3" THEN {f \in DOMAIN source.files : f <= ListLimit}
           ELSE DOMAIN source.files

Break == breaks < MaxBreaks /\ breaks' = breaks + 1

EndSync(ok) == /\ syncing' = FALSE
               /\ syncsOk' = IF ok THEN syncsOk + 1 ELSE syncsOk

InTable(lines) == copies' = [l \in Line |-> IF l \in lines THEN copies[l] + 1 ELSE copies[l]]

\* CreateInBatches, one transaction: all or nothing, but the answer to the
\* commit can be lost.  Ids are fresh, so that nothing is a duplicate.
CreateTrades(lines) == InTable(lines)

CreateTradesFails(lines) == Break /\ (InTable(lines) \/ UNCHANGED copies)

-----------------------------------------------------------------------------
StartSync ==
  /\ ~syncing /\ syncs < MaxSyncs
  /\ syncing' = TRUE /\ syncs' = syncs + 1
  /\ file' = 1 /\ line' = 0 /\ counter' = 0 /\ buffer' = {} /\ cut' = FALSE
  /\ UNCHANGED <<source, copies, garbled, syncsOk, breaks>>

Unread == /\ syncing /\ ~cut /\ line < Len(source.files[file])

NextLine == <<file, line + 1>>

\* Which lines become trades.  The test for csv.ErrFieldCount never holds,
\* since the reader wraps it: locally, a line of the wrong length ends the
\* file.  From S3 only the end of the stream is looked for, and a line with
\* too many fields is as good as any.
Accepted(l) == Kind(l) = "good" \/ (source.from = "s3" /\ Kind(l) = "long")

\* Variant: the buffer is not emptied when it has been saved.
TakeLineKept ==
  /\ Unread /\ Accepted(NextLine)
  /\ line' = line + 1
  /\ LET full == buffer \cup {NextLine}
     IN IF counter % SaveEvery # 0
        THEN /\ buffer' = full /\ counter' = counter + 1
             /\ UNCHANGED <<copies, syncing, syncsOk, breaks>>
        ELSE /\ CreateTrades(full) /\ buffer' = full /\ counter' = counter + 1
             /\ UNCHANGED <<syncing, syncsOk, breaks>>
  /\ UNCHANGED <<source, file, cut, garbled, syncs>>

\* A trade is appended, and saved with the others every SaveEvery lines; the
\* first of a file is saved alone.
TakeLine ==
  /\ Unread /\ Accepted(NextLine)
  /\ line' = line + 1
  /\ LET full == buffer \cup {NextLine}
     IN IF counter % SaveEvery # 0
        THEN /\ buffer' = full /\ counter' = counter + 1
             /\ UNCHANGED <<copies, syncing, syncsOk, breaks>>
        ELSE \/ /\ CreateTrades(full) /\ buffer' = {} /\ counter' = counter + 1
                /\ UNCHANGED <<syncing, syncsOk, breaks>>
             \/ /\ CreateTradesFails(full) /\ EndSync(FALSE)
                /\ UNCHANGED <<buffer, counter>>
  /\ UNCHANGED <<source, file, cut, garbled, syncs>>

\* Locally the loop ends at any other line, as if the file did; from S3,
\* getRecordValue then indexes a field that is not there, and the command
\* panics.
LeaveLine ==
  /\ Unread /\ ~Accepted(NextLine)
  /\ IF source.from = "local"
     THEN /\ cut' = TRUE /\ UNCHANGED <<syncing, syncsOk>>
     ELSE /\ EndSync(FALSE) /\ UNCHANGED cut
  /\ UNCHANGED <<source, file, line, counter, buffer, copies, garbled, syncs, breaks>>

\* The stream of an object fails: the goroutine closes the pipe, which looks
\* like the end of the object.  A line can be cut as well: within its last
\* field, and is a trade then, or before it.
CutStream ==
  /\ Unread /\ source.from = "s3" /\ Break
  /\ \/ /\ cut' = TRUE
        /\ \/ UNCHANGED <<buffer, garbled>>
           \/ /\ Accepted(NextLine)
              /\ buffer' = buffer \cup {NextLine} /\ garbled' = garbled \cup {NextLine}
        /\ UNCHANGED <<syncing, syncsOk>>
     \/ EndSync(FALSE) /\ UNCHANGED <<cut, buffer, garbled>>
  /\ UNCHANGED <<source, file, line, counter, copies, syncs>>

\* After the loop: the rest is saved, and only then the stream's error shows.
EndOfLines ==
  /\ syncing /\ (cut \/ line = Len(source.files[file]))
  /\ \/ /\ CreateTrades(buffer) /\ UNCHANGED breaks
        /\ IF cut /\ source.from = "s3" THEN EndSync(FALSE) /\ UNCHANGED <<file, line, counter>>
           ELSE IF file + 1 \in Listing
           THEN /\ file' = file + 1 /\ line' = 0 /\ counter' = 0
                /\ UNCHANGED <<syncing, syncsOk>>
           ELSE EndSync(TRUE) /\ UNCHANGED <<file, line, counter>>
     \/ /\ CreateTradesFails(buffer) /\ EndSync(FALSE)
        /\ UNCHANGED <<file, line, counter>>
  /\ buffer' = {}
  /\ UNCHANGED <<source, cut, garbled, syncs>>

-----------------------------------------------------------------------------
SyncInit ==
  /\ source \in Sources
  /\ syncing = FALSE /\ file = 1 /\ line = 0 /\ counter = 0 /\ buffer = {}
  /\ cut = FALSE /\ garbled = {}
  /\ copies = [l \in Line |-> 0]
  /\ syncs = 0 /\ syncsOk = 0 /\ breaks = 0

SyncNext == StartSync \/ TakeLine \/ LeaveLine \/ CutStream \/ EndOfLines

SyncSpec == SyncInit /\ [][SyncNext]_syncVars

-----------------------------------------------------------------------------
(***************************************************************************)
(* Properties.                                                             *)
(***************************************************************************)
SyncTypeOK ==
  /\ source \in Sources
  /\ syncing \in BOOLEAN /\ cut \in BOOLEAN
  /\ file \in DOMAIN source.files /\ line \in 0 .. Len(source.files[file])
  /\ counter \in Nat
  /\ buffer \subseteq Line /\ garbled \subseteq Line
  /\ copies \in [Line -> Nat]
  /\ syncs \in 0 .. MaxSyncs /\ syncsOk \in 0 .. syncs /\ breaks \in 0 .. MaxBreaks

\* The lines before the first one of a file that is not accepted.
Reached == {l \in Line : l[1] \in Listing /\ \A n \in 1 .. l[2] : Accepted(<<l[1], n>>)}

(***************************************************************************)
(* Nothing is copied twice by one command, whichever batches were saved    *)
(* before it failed, although a command that is run again copies           *)
(* everything again; what cannot be read is never copied; and a command    *)
(* that returns nil has copied, of each file that was listed, at least the *)
(* lines before the first one that it does not accept.                     *)
(***************************************************************************)
LinesSyncedOnce ==
  /\ \A l \in Line : copies[l] <= syncs /\ (~Accepted(l) => copies[l] = 0)
  /\ \A l \in Reached : ~syncing => copies[l] >= syncsOk

(***************************************************************************)
(* "Skip malformed line" (sync_trade_service.go:75): a local command that  *)
(* returns nil has copied all good lines, those after a line with too many *)
(* or too few fields, too.  The code does not do so: see Accepted.         *)
(***************************************************************************)
MalformedSkipped ==
  \A l \in Line :
     /\ source.from = "local" /\ ~syncing
     /\ Kind(l) = "good" /\ \A n \in 1 .. l[2] : Kind(<<l[1], n>>) # "broken"
     => copies[l] >= syncsOk

=============================================================================

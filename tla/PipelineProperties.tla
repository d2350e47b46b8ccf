-------------------------- MODULE PipelineProperties --------------------------
(***************************************************************************)
(* What the pipeline of module Pipeline must and must not do.              *)
(***************************************************************************)
EXTENDS Pipeline

Terminal(f)  == db[f].status \in TerminalStatuses
Processed(f) == db[f].status \in {"PROCESSED_CLEAN", "PROCESSED_W_QUARANTINE"}
Failed(f)    == db[f].status \in {"FAILURE_SCHEMA", "REJECTED"}

Message == Command \cup Event \cup {NoMsg}

\* A command names a batch the file really has, when it is read as the command's type.
CommandFits(c) ==
  c.msg \in {"ValidateDataCommand", "SaveValidatedDataCommand"} =>
    c.batch_number \in DOMAIN ReadAs(c.assumed_type).batches

TablesOK ==
  /\ content \in [Files -> Shapes]
  /\ db \in [Files -> FileRow]
  /\ entities \in [Files -> SUBSET (Types \X (Nat \ {0}))]
  /\ quarantine \in [Rows -> Files \cup {NoFile}]
  /\ disk \in [Files -> Directories]
  /\ locks \subseteq {"data/incoming", "/incoming"}
  /\ mishaps \in [outages : 0..MaxOutages, errors : 0..MaxErrors, crashes : 0..MaxCrashes]

ThreadOK ==
  /\ file \in Files \cup {NoFile}
  /\ cur \in Message
  /\ step \in 1..3
  /\ attempt \in 1..3
  /\ commands \in Seq(Command)
  /\ events \in Seq(Event)
  /\ ~Idle => file \in Files
  /\ CommandFits(cur)
  /\ \A k \in DOMAIN commands : CommandFits(commands[k])

\* The variables have their types, and the messages of a run speak of its file.
TypeOK == TablesOK /\ ThreadOK

-------------------------------------------------------------------------------
\* dispatch_pending_files looks for busy files and claims a pending one: whatever
\* crashes and is left busy, no second file is ever busy beside it.
OneBusy == \A f, g \in Files : Busy(f) /\ Busy(g) => f = g

\* The rows that reading f as type t turns away, by payload hash and by number.
Rejects(f, t) ==
  LET r == content[f].readings[t]
  IN  r.hashes \cup UNION {r.batches[k].hashes : k \in DOMAIN r.batches}

RejectCount(f, t) ==
  LET r == content[f].readings[t]
  IN  r.incomplete + SumFunction([k \in DOMAIN r.batches |-> r.batches[k].invalid])

\* Everything of f that reading it as t accepts is in the tables, and nothing else of f.
StoredAs(f, t) == entities[f] = {t} \X DOMAIN content[f].readings[t].batches

\* check_file_completion ends a file when the batches it counted are the expected
\* ones: then every batch was persisted, all as one type, and every row that was
\* turned away is in the quarantine table (as this file's or an equal row of another).
ProcessedIsComplete ==
  \A f \in Files : Processed(f) =>
    \E t \in content[f].types :
      /\ StoredAs(f, t)
      /\ \A h \in Rejects(f, t) : quarantine[h] # NoFile
      /\ db[f].status = "PROCESSED_CLEAN" => Rejects(f, t) = {}

\* The 20% threshold is tested on the audit's rows and then per batch on a running
\* total: no interleaving of retries lets a file through with more than a fifth of
\* its rows turned away.
ThresholdKept ==
  \A f \in Files : Processed(f) =>
    \E t \in content[f].types :
      StoredAs(f, t) /\ 5 * RejectCount(f, t) <= content[f].readings[t].rows

\* The bus is first in first out, so every batch of a file is validated before any
\* is persisted: when a file fails there are no entities to roll back.
\* (The sales repository's delete_by_source_file could not delete them.)
NothingToRollBack ==
  cur.msg \in {"SchemaDriftDetected", "FileProcessingAborted"} =>
    \A f \in Files : f = file => entities[f] = {}

\* A file that failed keeps no entity, no quarantined row and no count, whatever
\* crash or exception came between the move, the purge and the status.
FailedLeavesNothing ==
  \A f \in Files : Failed(f) =>
    /\ entities[f] = {}
    /\ \A h \in Rows : quarantine[h] # f
    /\ db[f].quarantined_rows = 0 /\ db[f].total_processed_rows = 0

\* The directory of a file that is settled is the one its status says, although
\* every handler moves the file and commits the status separately.
SettledIsLocated ==
  \A f \in Files :
    /\ db[f].status = "PENDING"                => disk[f] = "processing"
    /\ db[f].status = "PROCESSED_CLEAN"        => disk[f] = "archive"
    /\ db[f].status = "PROCESSED_W_QUARANTINE" => disk[f] = "quarantine"
    /\ db[f].status = "FAILURE_SCHEMA"         => disk[f] = "schema_failure"
    /\ db[f].status = "REJECTED"               => disk[f] = "rejected"

\* The counts of the row, kept by three handlers over many transactions, never
\* exceed the rows of the file and are exact when it is processed.
CountsAddUp ==
  \A f \in Files :
    /\ db[f].total_processed_rows <= db[f].total_rows
    /\ Processed(f) =>
         \E t \in content[f].types :
           /\ StoredAs(f, t)
           /\ db[f].quarantined_rows = RejectCount(f, t)
           /\ db[f].total_processed_rows = content[f].readings[t].rows

\* A settled status is final: the commands still queued for a file that failed
\* change nothing.  (A retry of audit_csv passes through FAILURE_SCHEMA.)
SettledForGood ==
  [][\A f \in Files :
       Terminal(f) /\ db'[f].status # db[f].status => f = file /\ cur.msg = "AuditCSVCommand"]_vars

NoMishap == mishaps = [outages |-> 0, errors |-> 0, crashes |-> 0]

\* Every registered file is settled in the end, as long as nothing goes wrong (and
\* no file is of the kinds that stall the pipeline, see PendingFileIsFed).
EveryFileSettles ==
  \A f \in Files : db[f].status = "PENDING" ~> (Terminal(f) \/ ~NoMishap)

-------------------------------------------------------------------------------
(***************************************************************************)
(* What the repository says of the program and the program does not do.    *)
(***************************************************************************)

\* apscheduler_runner.py:117, "Runs on a timer via APScheduler to drip-feed files
\* into the pipeline": a registered file is fed to the pipeline.
PendingFileIsFed == \A f \in Files : db[f].status = "PENDING" ~> db[f].status # "PENDING"

\* domain.py:141, a file fails "if the schema drift threshold is reached": a file
\* with FAILURE_SCHEMA has too many bad rows, or a header that does not fit, under
\* every type it may have.
OnlyDriftFails ==
  \A f \in Files : db[f].status = "FAILURE_SCHEMA" =>
    \A t \in content[f].types :
      LET reading == content[f].readings[t]
      IN  reading.header # "readable" \/ OverThreshold(RejectCount(f, t), reading.rows)

\* safety_wrappers.py:62, "DB failed after {max_retries} attempts": no handler gives
\* up, and no file is moved to system_failure, before two operations were refused.
OneOutageIsRetried ==
  mishaps.errors = 0 /\ mishaps.outages < 2 => \A f \in Files : disk[f] # "system_failure"

\* domain.py:143, "The file is marked as a schema failure": when the bus has come to
\* rest, a file in the directory schema_failure has that status.
DriftIsMarked ==
  Idle /\ mishaps.crashes = 0 =>
    \A f \in Files : disk[f] = "schema_failure" => db[f].status = "FAILURE_SCHEMA"

-------------------------------------------------------------------------------
(***************************************************************************)
(* The pipeline implements FileImport.  A file whose audit is running is   *)
(* busy even when a retry of audit_csv has put FAILURE_SCHEMA in its row.  *)
(***************************************************************************)
PhaseOf(f) ==
  CASE db[f].status = "ABSENT"                                -> "unknown"
    [] db[f].status = "PENDING"                               -> "pending"
    [] Busy(f) \/ (f = file /\ cur.msg = "AuditCSVCommand")   -> "busy"
    [] Processed(f)                                           -> "done"
    [] OTHER                                                  -> "failed"

BatchNumbers == UNION {DOMAIN s.readings[t].batches : s \in Shapes, t \in Types}

AbstractFiles ==
  INSTANCE FileImport WITH
    Parts    <- Types \X BatchNumbers,
    whole    <- [f \in Files |-> {{t} \X DOMAIN content[f].readings[t].batches :
                                    t \in content[f].types}],
    phase    <- [f \in Files |-> PhaseOf(f)],
    imported <- entities

\* Whatever goes wrong, a file is imported as FileImport allows.
ImplementsFileImport == AbstractFiles!Spec
===============================================================================

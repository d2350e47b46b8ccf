------------------------------- MODULE Pipeline -------------------------------
(***************************************************************************)
(* The path of a staged CSV file through Custos: it is registered, and the *)
(* scheduler job dispatch_pending_files audits, validates and persists one *)
(* file at a time by handing a command to the message bus and running the  *)
(* bus until both of its queues are empty.                                 *)
(*                                                                         *)
(* A handler is cut at its external effects: a transaction that commits,   *)
(* or a move of the file on disk, is one action, and "step" says which     *)
(* comes next.  Between two effects the other thread may register a file,  *)
(* the process may crash, the database may refuse an operation             *)
(* (SQLAlchemy's OperationalError, which the wrapper                       *)
(* with_infrastructure_safety answers by running the whole handler again)  *)
(* or anything else may be raised (which it turns into a                   *)
(* CustosSystemError).                                                     *)
(*                                                                         *)
(* A definition under a comment "Slip: ..." is a plausible mistake in the  *)
(* definition that follows it, kept to show that a property would notice;  *)
(* the specification uses none of them.                                    *)
(***************************************************************************)
EXTENDS FileEntity, Sequences, FiniteSets, FiniteSetsExt

CONSTANTS
  Files,          \* the staged files, told apart by the hash of their content
  NoFile,         \* not a file
  Types,          \* the types of the registry ("leads", "sales")
  Misregistered,  \* the types whose registry entry does not fit their repository or their data
  Rows,           \* hashes of row payloads
  Shapes,         \* the contents a file may have
  MaxOutages,     \* bound on the operations the database refuses
  MaxErrors,      \* bound on the other exceptions
  MaxCrashes      \* bound on the crashes of the process

(***************************************************************************)
(* What a file holds, as far as a handler can tell: the types its header   *)
(* matches, and what reading it as a type gives.  "incomplete" rows lack a *)
(* required field and never leave audit_csv; the others are cut into       *)
(* batches of which pydantic accepts some rows ("valid") and not others.   *)
(* "hashes" are the payload hashes of the rows that are not accepted: two  *)
(* rows, of one file or of two, may be equal and then share one hash.      *)
(***************************************************************************)
Batch == [valid : Nat, invalid : Nat, hashes : SUBSET Rows]

Reading ==
  [header : {"readable", "columns_missing", "timestamps_wrong"},
   rows : Nat, incomplete : Nat, hashes : SUBSET Rows, batches : Seq(Batch)]

Shape == [types : SUBSET Types, assumed_type : Types, readings : [Types -> Reading]]

ASSUME FilesAssumption == IsFiniteSet(Files) /\ NoFile \notin Files

ASSUME RowsAssumption == IsFiniteSet(Rows)

ASSUME ShapesAssumption == Shapes \subseteq Shape

\* A reading accounts for every row, an accepted header has no empty batch, and
\* rows that are turned away have at least one hash and at most one each.
ASSUME ReadingsAssumption ==
  \A s \in Shapes : \A t \in Types :
    LET r == s.readings[t]
    IN  /\ s.assumed_type \in s.types
        /\ r.rows = r.incomplete + SumFunction([k \in DOMAIN r.batches |->
                                               r.batches[k].valid + r.batches[k].invalid])
        /\ \A b \in {r.batches[k] : k \in DOMAIN r.batches} :
             /\ b.valid + b.invalid > 0
             /\ Cardinality(b.hashes) <= b.invalid
             /\ b.hashes = {} => b.invalid = 0
        /\ Cardinality(r.hashes) <= r.incomplete
        /\ r.hashes = {} => r.incomplete = 0

ASSUME BoundsAssumption == MaxOutages \in Nat /\ MaxErrors \in Nat /\ MaxCrashes \in Nat

-------------------------------------------------------------------------------
VARIABLES
  content,     \* the shape of each file, fixed
  db,          \* the row of each file in the table "files"
  entities,    \* the batches of each file whose rows are in the leads or sales tables
  quarantine,  \* the owner of each row of the table "quarantined_rows": payload_hash is unique
  disk,        \* the directory each file is in
  locks,       \* the directories that hold a SYSTEM_HALTED.lock
  file,        \* the file of the bus's run: every message of the run carries its id
  cur,         \* the message being handled
  step,        \* the effect of its handler that comes next
  attempt,     \* the attempt of with_infrastructure_safety
  commands,    \* the bus's queues
  events,
  mishaps      \* how many faults of each kind there were

tables == <<db, entities, quarantine>>
thread == <<file, cur, step, attempt, commands, events>>
vars   == <<content, tables, disk, locks, thread, mishaps>>

Directories ==
  {"processing", "archive", "quarantine", "schema_failure", "rejected", "system_failure"}

(***************************************************************************)
(* The messages of a run.  "numbered" is whether the rows in the payload   *)
(* of a ValidateDataCommand still have their csv_line_number: validate_data*)
(* pops it from the dictionaries of the command itself.                    *)
(***************************************************************************)
Command ==
  [msg : {"AuditCSVCommand"}, assumed_type : Types,
   potential_types : SUBSET Types, attempted_types : SUBSET Types]
  \cup [msg : {"ValidateDataCommand"}, assumed_type : Types, batch_number : Nat \ {0},
        numbered : BOOLEAN]
  \cup [msg : {"SaveValidatedDataCommand"}, assumed_type : Types, batch_number : Nat \ {0}]

Event ==
  [msg : {"PandasAuditFailed"}, assumed_type : Types,
   potential_types : SUBSET Types, attempted_types : SUBSET Types]
  \cup [msg : {"BatchValidated", "BatchProcessed"}, batch_number : Nat \ {0}]
  \cup [msg : {"PydanticAuditFailed", "SchemaDriftDetected", "FileProcessingAborted",
               "FileSuccessfullyProcessed", "SystemFaultEvent"}]

NoMsg == [msg |-> "NoMsg"]
Signal(name) == [msg |-> name]
CommandNames == {"AuditCSVCommand", "ValidateDataCommand", "SaveValidatedDataCommand"}

AuditCSV(type, potential, attempted) ==
  [msg |-> "AuditCSVCommand", assumed_type |-> type,
   potential_types |-> potential, attempted_types |-> attempted]

Idle == cur = NoMsg /\ commands = << >> /\ events = << >>
Busy(f) == db[f].status \in BusyStatuses

Init ==
  /\ content \in [Files -> Shapes]
  /\ db = [f \in Files |-> AbsentFile]
  /\ entities = [f \in Files |-> {}]
  /\ quarantine = [h \in Rows |-> NoFile]
  /\ disk = [f \in Files |-> "processing"]
  /\ locks = {}
  /\ file = NoFile
  /\ cur = NoMsg
  /\ step = 1
  /\ attempt = 1
  /\ commands = << >>
  /\ events = << >>
  /\ mishaps = [outages |-> 0, errors |-> 0, crashes |-> 0]

-------------------------------------------------------------------------------
(***************************************************************************)
(* The message bus: a handler runs to its end and its results are queued   *)
(* behind what waits; every event goes before any command.                 *)
(***************************************************************************)
Handling(name, n) == cur.msg = name /\ step = n

Continue(n) == step' = n /\ UNCHANGED <<file, cur, attempt, commands, events>>

\* Slip: results are put before what waits.
Reply_last_in_first_out(new_commands, new_events) ==
  /\ cur' = NoMsg
  /\ step' = 1
  /\ attempt' = 1
  /\ commands' = new_commands \o commands
  /\ events' = new_events \o events
  /\ UNCHANGED file

Reply(new_commands, new_events) ==
  /\ cur' = NoMsg
  /\ step' = 1
  /\ attempt' = 1
  /\ commands' = commands \o new_commands
  /\ events' = events \o new_events
  /\ UNCHANGED file

\* After a SystemFaultEvent every message with its file_id is dropped, and in a
\* run that is every message.
ReplyAndPurge ==
  /\ cur' = NoMsg
  /\ step' = 1
  /\ attempt' = 1
  /\ commands' = << >>
  /\ events' = << >>
  /\ UNCHANGED file

handle_next_event ==
  /\ cur = NoMsg
  /\ events # << >>
  /\ cur' = Head(events)
  /\ events' = Tail(events)
  /\ UNCHANGED <<tables, disk, locks, file, step, attempt, commands, mishaps>>

handle_next_command ==
  /\ cur = NoMsg
  /\ events = << >>
  /\ commands # << >>
  /\ cur' = Head(commands)
  /\ commands' = Tail(commands)
  /\ UNCHANGED <<tables, disk, locks, file, step, attempt, events, mishaps>>

\* Nothing subscribes to BatchValidated.
no_handler ==
  /\ Handling("BatchValidated", 1)
  /\ Reply(<< >>, << >>)
  /\ UNCHANGED <<tables, disk, locks, mishaps>>

-------------------------------------------------------------------------------
(***************************************************************************)
(* Transactions.  A handler commits the row it has read and changed; no    *)
(* other thread writes the row of the file of the run.                     *)
(***************************************************************************)
Commit(row) == db' = [db EXCEPT ![file] = row]

SetAside(hashes) ==
  quarantine' = [h \in Rows |-> IF h \in hashes /\ quarantine[h] = NoFile
                                THEN file ELSE quarantine[h]]

Move(directory) ==
  /\ disk[file] = "processing"
  /\ disk' = [disk EXCEPT ![file] = directory]

ReadAs(type) == content[file].readings[type]

(***************************************************************************)
(* file_staged_handler, on the thread that watches a directory or in the   *)
(* job that polls the other one: registers a file whose hash the table     *)
(* does not hold yet.  Names are distinct, as hashes are.                  *)
(***************************************************************************)
file_staged_handler(f) ==
  /\ db[f].status = "ABSENT"
  /\ disk[f] = "processing"
  /\ db' = [db EXCEPT ![f] =
              NewFile(1 + Cardinality({g \in Files : db[g].status # "ABSENT"}))]
  /\ UNCHANGED <<entities, quarantine, disk, locks, thread, mishaps>>

(***************************************************************************)
(* dispatch_pending_files, a job of the scheduler (max_instances = 1).     *)
(* system_halt_check looks for "/incoming/SYSTEM_HALTED.lock".             *)
(***************************************************************************)
system_halt_check == "/incoming" \notin locks

\* Slip: FINISHING is left out of busy_statuses.
check_for_busy_files_but_finishing ==
  \E f \in Files : db[f].status \in BusyStatuses \ {"FINISHING"}

check_for_busy_files == \E f \in Files : Busy(f)

oldest_pending(f) ==
  /\ db[f].status = "PENDING"
  /\ \A g \in Files : db[g].status = "PENDING" => db[f].created_at <= db[g].created_at

dispatch_pending_files(f) ==
  /\ Idle
  /\ system_halt_check
  /\ ~check_for_busy_files
  /\ oldest_pending(f)
  /\ db' = [db EXCEPT ![f] = start_auditing(@)]
  /\ file' = f
  /\ commands' = << AuditCSV(content[f].assumed_type, content[f].types, {}) >>
  /\ UNCHANGED <<entities, quarantine, disk, locks, cur, step, attempt, events, mishaps>>

-------------------------------------------------------------------------------
(***************************************************************************)
(* audit_csv: reads the file as the assumed type (step 1), commits the     *)
(* count and the incomplete rows (step 2), then the expected batches and   *)
(* the status (step 3).                                                    *)
(***************************************************************************)
PassesAudit(r) == r.header = "readable" /\ ~OverThreshold(r.incomplete, r.rows)

audit_csv_fails ==
  /\ Handling("AuditCSVCommand", 1)
  /\ ~PassesAudit(ReadAs(cur.assumed_type))
  /\ Reply(<< >>, << IF ReadAs(cur.assumed_type).header = "timestamps_wrong"
                     THEN Signal("SchemaDriftDetected")
                     ELSE [cur EXCEPT !.msg = "PandasAuditFailed"] >>)
  /\ UNCHANGED <<tables, disk, locks, mishaps>>

audit_csv_passes ==
  /\ Handling("AuditCSVCommand", 1)
  /\ PassesAudit(ReadAs(cur.assumed_type))
  /\ Continue(2)
  /\ UNCHANGED <<tables, disk, locks, mishaps>>

audit_csv_counts ==
  /\ Handling("AuditCSVCommand", 2)
  /\ LET r == ReadAs(cur.assumed_type)
         row == [db[file] EXCEPT !.total_rows = r.rows]
     IN  /\ Commit(IF r.incomplete > 0 THEN add_quarantined_row(row, r.incomplete) ELSE row)
         /\ SetAside(r.hashes)
  /\ Continue(3)
  /\ UNCHANGED <<entities, disk, locks, mishaps>>

\* Slip: batches are numbered from the index.
ValidateData_from_zero(type, k) ==
  [msg |-> "ValidateDataCommand", assumed_type |-> type, batch_number |-> k - 1,
   numbered |-> TRUE]

ValidateData(type, k) ==
  [msg |-> "ValidateDataCommand", assumed_type |-> type, batch_number |-> k, numbered |-> TRUE]

audit_csv_chunks ==
  /\ Handling("AuditCSVCommand", 3)
  /\ LET batches == DOMAIN ReadAs(cur.assumed_type).batches
     IN  /\ Commit(validate([db[file] EXCEPT !.expected_batches = @ \cup batches]))
         /\ Reply([k \in batches |-> ValidateData(cur.assumed_type, k)], << >>)
  /\ UNCHANGED <<entities, quarantine, disk, locks, mishaps>>

(***************************************************************************)
(* attempt_retry: a file whose header matches several types is audited     *)
(* again as one it was not tried as, any of them (a loop over a set).      *)
(***************************************************************************)
IsAmbiguous(f) == content[f].types # {content[f].assumed_type}

NewTypes ==
  IF IsAmbiguous(file)
  THEN cur.potential_types \ (cur.attempted_types \cup {cur.assumed_type})
  ELSE {}

attempt_retry ==
  /\ Handling("PandasAuditFailed", 1)
  /\ \E new_assumed_type \in NewTypes :
       /\ Commit(retry(db[file]))
       /\ Reply(<< AuditCSV(new_assumed_type,
                            cur.potential_types \ {cur.assumed_type},
                            cur.attempted_types \cup {cur.assumed_type}) >>,
                << >>)
  /\ UNCHANGED <<entities, quarantine, disk, locks, mishaps>>

attempt_retry_gives_up ==
  /\ Handling("PandasAuditFailed", 1)
  /\ NewTypes = {}
  /\ Commit(finish(db[file]))
  /\ Reply(<< >>, << Signal("SchemaDriftDetected") >>)
  /\ UNCHANGED <<entities, quarantine, disk, locks, mishaps>>

-------------------------------------------------------------------------------
(***************************************************************************)
(* validate_data: claims the batch in a transaction of its own (step 1),   *)
(* sorts the rows (step 2), and commits the rows it turns away unless the  *)
(* file would pass the threshold with them (step 3).                       *)
(***************************************************************************)
AlreadyValidated ==
  \/ db[file].status \in WrongStatuses
  \/ cur.batch_number \in db[file].validated_batches

validate_data_skips ==
  /\ Handling("ValidateDataCommand", 1)
  /\ AlreadyValidated
  /\ Reply(<< >>, << >>)
  /\ UNCHANGED <<tables, disk, locks, mishaps>>

validate_data_claims ==
  /\ Handling("ValidateDataCommand", 1)
  /\ ~AlreadyValidated
  /\ Commit(validate(db[file]))
  /\ Continue(2)
  /\ UNCHANGED <<entities, quarantine, disk, locks, mishaps>>

\* row_dict.pop("csv_line_number") takes the number out of the command's own rows,
\* so a second pass over them raises a KeyError.
validate_data_sorts_rows ==
  /\ Handling("ValidateDataCommand", 2)
  /\ \/ /\ cur.numbered
        /\ cur' = [cur EXCEPT !.numbered = FALSE]
        /\ step' = 3
        /\ UNCHANGED <<file, attempt, commands, events>>
     \/ /\ ~cur.numbered
        /\ Reply(<< >>, << Signal("SystemFaultEvent") >>)
  /\ UNCHANGED <<tables, disk, locks, mishaps>>

BatchInHand == ReadAs(cur.assumed_type).batches[cur.batch_number]

projected_quarantine_total == db[file].quarantined_rows + BatchInHand.invalid

validate_data_detects_drift ==
  /\ Handling("ValidateDataCommand", 3)
  /\ OverThreshold(projected_quarantine_total, db[file].total_rows)
  /\ Commit(finish(db[file]))
  /\ Reply(<< >>, << Signal("PydanticAuditFailed") >>)
  /\ UNCHANGED <<entities, quarantine, disk, locks, mishaps>>

validate_data ==
  /\ Handling("ValidateDataCommand", 3)
  /\ ~OverThreshold(projected_quarantine_total, db[file].total_rows)
  /\ IF BatchInHand.invalid > 0
     THEN /\ Commit(add_quarantined_row(db[file], BatchInHand.invalid))
          /\ SetAside(BatchInHand.hashes)
     ELSE UNCHANGED <<db, quarantine>>
  /\ Reply(IF BatchInHand.valid > 0
           THEN << [msg |-> "SaveValidatedDataCommand", assumed_type |-> cur.assumed_type,
                    batch_number |-> cur.batch_number] >>
           ELSE << >>,
           << [msg |-> "BatchValidated", batch_number |-> cur.batch_number] >>)
  /\ UNCHANGED <<entities, disk, locks, mishaps>>

\* uow.quarantine.delete does nothing: the rows stay until handle_schema_drift.
handle_pydantic_failure ==
  /\ Handling("PydanticAuditFailed", 1)
  /\ Commit(finish(db[file]))
  /\ Reply(<< >>, << Signal("SchemaDriftDetected") >>)
  /\ UNCHANGED <<entities, quarantine, disk, locks, mishaps>>

-------------------------------------------------------------------------------
(***************************************************************************)
(* persist_to_database: the entities of a batch, the count and the status  *)
(* in one transaction, or an abort that commits nothing.                   *)
(***************************************************************************)
\* Slip: the status of the file is not looked at.
AlreadyPersisted_whatever_status == cur.batch_number \in db[file].completed_batches

AlreadyPersisted ==
  \/ db[file].status \in WrongStatuses
  \/ cur.batch_number \in db[file].completed_batches

persist_to_database_skips ==
  /\ Handling("SaveValidatedDataCommand", 1)
  /\ AlreadyPersisted
  /\ Reply(<< >>, << >>)
  /\ UNCHANGED <<tables, disk, locks, mishaps>>

persist_to_database_aborts ==
  /\ Handling("SaveValidatedDataCommand", 1)
  /\ ~AlreadyPersisted
  /\ cur.assumed_type \in Misregistered
  /\ Reply(<< >>, << Signal("FileProcessingAborted") >>)
  /\ UNCHANGED <<tables, disk, locks, mishaps>>

BatchIsCommitted ==
  /\ Commit(process_row_success(persist(db[file]), BatchInHand.valid))
  /\ entities' = [entities EXCEPT ![file] = @ \cup {<<cur.assumed_type, cur.batch_number>>}]

persist_to_database ==
  /\ Handling("SaveValidatedDataCommand", 1)
  /\ ~AlreadyPersisted
  /\ cur.assumed_type \notin Misregistered
  /\ BatchIsCommitted
  /\ Reply(<< >>, << [msg |-> "BatchProcessed", batch_number |-> cur.batch_number] >>)
  /\ UNCHANGED <<quarantine, disk, locks, mishaps>>

(***************************************************************************)
(* check_file_completion: counts the batch, and when it was the last one   *)
(* returns without storing what it counted.                                *)
(***************************************************************************)
\* Slip: the batch is never added.
CountedBatches_without_this_one == db[file].completed_batches

CountedBatches ==
  IF db[file].status \in WrongStatuses
  THEN db[file].completed_batches
  ELSE db[file].completed_batches \cup {cur.batch_number}

\* Slip: some expected batch is enough.
AllBatchesCounted_if_any ==
  /\ CountedBatches \cap db[file].expected_batches # {}
  /\ db[file].status \notin WrongStatuses

AllBatchesCounted ==
  /\ CountedBatches = db[file].expected_batches
  /\ db[file].status \notin WrongStatuses

check_file_completion_counts ==
  /\ Handling("BatchProcessed", 1)
  /\ ~AllBatchesCounted
  /\ Commit([db[file] EXCEPT !.completed_batches = CountedBatches])
  /\ Reply(<< >>, << >>)
  /\ UNCHANGED <<entities, quarantine, disk, locks, mishaps>>

check_file_completion ==
  /\ Handling("BatchProcessed", 1)
  /\ AllBatchesCounted
  /\ Reply(<< >>, << Signal("FileSuccessfullyProcessed") >>)
  /\ UNCHANGED <<tables, disk, locks, mishaps>>

(***************************************************************************)
(* file_completed_handler: moves the file (step 1) and then commits the    *)
(* status (step 2).                                                        *)
(***************************************************************************)
file_completed_moves ==
  /\ Handling("FileSuccessfullyProcessed", 1)
  /\ Move(IF db[file].quarantined_rows = 0 THEN "archive" ELSE "quarantine")
  /\ Continue(2)
  /\ UNCHANGED <<tables, locks, mishaps>>

file_completed_handler ==
  /\ Handling("FileSuccessfullyProcessed", 2)
  /\ Commit(IF db[file].quarantined_rows = 0
            THEN clean_processed(db[file]) ELSE quarantine_processed(db[file]))
  /\ Reply(<< >>, << >>)
  /\ UNCHANGED <<entities, quarantine, disk, locks, mishaps>>

-------------------------------------------------------------------------------
(***************************************************************************)
(* handle_schema_drift and handle_processing_aborted: move the file        *)
(* (step 1), purge what the file stored (step 2), commit the status        *)
(* (step 3).                                                               *)
(***************************************************************************)
\* Slip: an aborted file goes where schema drift does.
FailureDirectory_shared ==
  [SchemaDriftDetected |-> "schema_failure", FileProcessingAborted |-> "schema_failure"]

FailureDirectory ==
  [SchemaDriftDetected |-> "schema_failure", FileProcessingAborted |-> "rejected"]

failed_file_moves ==
  /\ cur.msg \in DOMAIN FailureDirectory
  /\ step = 1
  /\ Move(FailureDirectory[cur.msg])
  /\ Continue(2)
  /\ UNCHANGED <<tables, locks, mishaps>>

\* Slip: delete does nothing, as uow.quarantine.delete.
WithoutRowsOf_nothing(f) == [h \in Rows |-> quarantine[h]]

WithoutRowsOf(f) == [h \in Rows |-> IF quarantine[h] = f THEN NoFile ELSE quarantine[h]]

\* The sales repository hands session.delete a generator, which raises when there is
\* a sale to delete; NothingToRollBack says that there never is.
clean_up ==
  /\ cur.msg \in DOMAIN FailureDirectory
  /\ step = 2
  /\ entities' = [entities EXCEPT ![file] = {}]
  /\ quarantine' = WithoutRowsOf(file)
  /\ Continue(3)
  /\ UNCHANGED <<db, disk, locks, mishaps>>

handle_schema_drift ==
  /\ Handling("SchemaDriftDetected", 3)
  /\ Commit(failure_schema(reset(db[file])))
  /\ Reply(<< >>, << >>)
  /\ UNCHANGED <<entities, quarantine, disk, locks, mishaps>>

handle_processing_aborted ==
  /\ Handling("FileProcessingAborted", 3)
  /\ Commit(reject(reset(db[file])))
  /\ Reply(<< >>, << >>)
  /\ UNCHANGED <<entities, quarantine, disk, locks, mishaps>>

\* A move whose source is gone raises, and the bus swallows what an event's
\* handler raises.
move_finds_no_file ==
  /\ cur.msg \in DOMAIN FailureDirectory \cup {"FileSuccessfullyProcessed"}
  /\ step = 1
  /\ disk[file] # "processing"
  /\ Reply(<< >>, << >>)
  /\ UNCHANGED <<tables, disk, locks, mishaps>>

(***************************************************************************)
(* handle_system_fault: touches data/incoming/SYSTEM_HALTED.lock and moves *)
(* the file, if it is still there.  It writes nothing to the database.     *)
(***************************************************************************)
MovedToSystemFailure(f) ==
  IF disk[f] = "processing" THEN [disk EXCEPT ![f] = "system_failure"] ELSE disk

handle_system_fault ==
  /\ Handling("SystemFaultEvent", 1)
  /\ locks' = locks \cup {"data/incoming"}
  /\ disk' = MovedToSystemFailure(file)
  /\ ReplyAndPurge
  /\ UNCHANGED <<tables, mishaps>>

-------------------------------------------------------------------------------
(***************************************************************************)
(* What may go wrong.                                                      *)
(***************************************************************************)
Mishap(kind, bound) ==
  /\ mishaps[kind] < bound
  /\ mishaps' = [mishaps EXCEPT ![kind] = @ + 1]

\* The effects that are transactions.
InTransaction ==
  \/ cur.msg \in {"PandasAuditFailed", "PydanticAuditFailed", "SaveValidatedDataCommand",
                  "BatchProcessed", "FileSuccessfullyProcessed"}
  \/ cur.msg \in {"AuditCSVCommand"} \cup DOMAIN FailureDirectory /\ step \in {2, 3}
  \/ cur.msg = "ValidateDataCommand" /\ step \in {1, 3}

max_retries == IF cur.msg = "ValidateDataCommand" THEN 2 ELSE 3

\* OperationalError: the transaction is rolled back and the handler runs again from
\* its first line, or gives up with a SystemFaultEvent.
Again ==
  IF attempt < max_retries
  THEN /\ attempt' = attempt + 1
       /\ step' = 1
       /\ UNCHANGED <<file, cur, commands, events>>
  ELSE Reply(<< >>, << Signal("SystemFaultEvent") >>)

operational_error ==
  /\ InTransaction
  /\ Mishap("outages", MaxOutages)
  /\ Again
  /\ UNCHANGED <<tables, disk, locks>>

\* The connection breaks after the database has committed a batch: the handler that
\* runs again finds the batch uncounted, meets its own rows and counts them again.
persist_to_database_unanswered ==
  /\ Handling("SaveValidatedDataCommand", 1)
  /\ ~AlreadyPersisted
  /\ cur.assumed_type \notin Misregistered
  /\ Mishap("outages", MaxOutages)
  /\ BatchIsCommitted
  /\ Again
  /\ UNCHANGED <<quarantine, disk, locks>>

\* Any other exception: the bus answers that of a command with a SystemFaultEvent
\* and swallows that of an event, whose queues it still purges after a system fault.
unhandled_error ==
  /\ cur # NoMsg
  /\ cur.msg # "BatchValidated"
  /\ Mishap("errors", MaxErrors)
  /\ CASE cur.msg \in CommandNames -> Reply(<< >>, << Signal("SystemFaultEvent") >>)
       [] cur.msg = "SystemFaultEvent" -> ReplyAndPurge
       [] OTHER -> Reply(<< >>, << >>)
  /\ UNCHANGED <<tables, disk, locks>>

\* The database refuses all three attempts of file_staged_handler: the file is moved
\* away by the handler of the SystemFaultEvent and never gets a row.
staging_fault(f) ==
  /\ db[f].status = "ABSENT"
  /\ disk[f] = "processing"
  /\ mishaps.outages + 3 <= MaxOutages
  /\ mishaps' = [mishaps EXCEPT !.outages = @ + 3]
  /\ locks' = locks \cup {"data/incoming"}
  /\ disk' = MovedToSystemFailure(f)
  /\ UNCHANGED <<tables, thread>>

\* The queues live in the memory of the process; nothing looks for a file that a
\* process left busy.
crash ==
  /\ ~Idle
  /\ Mishap("crashes", MaxCrashes)
  /\ file' = NoFile
  /\ cur' = NoMsg
  /\ step' = 1
  /\ attempt' = 1
  /\ commands' = << >>
  /\ events' = << >>
  /\ UNCHANGED <<tables, disk, locks>>

-------------------------------------------------------------------------------
AuditStep ==
  \/ audit_csv_fails \/ audit_csv_passes \/ audit_csv_counts \/ audit_csv_chunks
  \/ attempt_retry \/ attempt_retry_gives_up

ValidationStep ==
  \/ validate_data_skips \/ validate_data_claims \/ validate_data_sorts_rows
  \/ validate_data_detects_drift \/ validate_data \/ handle_pydantic_failure

PersistenceStep ==
  \/ persist_to_database_skips \/ persist_to_database_aborts \/ persist_to_database
  \/ check_file_completion_counts \/ check_file_completion

FinishingStep ==
  \/ file_completed_moves \/ file_completed_handler
  \/ failed_file_moves \/ clean_up \/ handle_schema_drift \/ handle_processing_aborted
  \/ move_finds_no_file \/ handle_system_fault

BusStep == handle_next_event \/ handle_next_command \/ no_handler

\* The scheduler's thread, when nothing goes wrong.
Dispatcher ==
  \/ \E f \in Files : dispatch_pending_files(f)
  \/ BusStep \/ AuditStep \/ ValidationStep \/ PersistenceStep \/ FinishingStep

Faults ==
  \/ operational_error \/ persist_to_database_unanswered \/ unhandled_error \/ crash
  \/ \E f \in Files : staging_fault(f)

Next ==
  /\ \/ Dispatcher
     \/ \E f \in Files : file_staged_handler(f)
     \/ Faults
  /\ UNCHANGED content

Spec == Init /\ [][Next]_vars

\* The job runs every interval_seconds and its thread takes every step it can.
FairSpec == Spec /\ WF_vars(Dispatcher /\ UNCHANGED content)
===============================================================================

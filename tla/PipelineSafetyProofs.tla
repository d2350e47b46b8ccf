-------------------------- MODULE PipelineSafetyProofs --------------------------
(***************************************************************************)
(* What RunInvariant gives: the safety properties of the pipeline, that a  *)
(* settled status stays, and that every step of the pipeline is a step of  *)
(* FileImport.  Then SumsInvariant, and with it that the counts of a row   *)
(* fit the content of the file and keep it under the threshold.            *)
(***************************************************************************)
EXTENDS PipelineRunProofs, FoldTheorems

\* A file fails before anything of it is stored, so the rollback of clean_up, which
\* cannot delete a sale, never has one to delete.
THEOREM RollBackIsEmpty == Spec => []NothingToRollBack
<1>1. TypeOK /\ RunInvariant => NothingToRollBack
  <2> SUFFICES ASSUME TypeOK, RunInvariant,
                      cur.msg \in {"SchemaDriftDetected", "FileProcessingAborted"}
               PROVE  entities[file] = {}
    BY DEF NothingToRollBack
  <2>1. cur # NoMsg /\ cur.msg \in DOMAIN FailureDirectory
    BY DEF NoMsg, FailureDirectory
  <2> QED BY <2>1, RunCases DEF FailureFits
<1> QED BY <1>1, TypeCorrect, RunIsConsistent, PTL

\* What file_completed_handler ends has every batch in the tables, all read as one type,
\* and every row that was turned away in quarantine; and none was if it ends clean.
THEOREM ProcessedFilesAreComplete == Spec => []ProcessedIsComplete
<1>1. TypeOK /\ RunInvariant => ProcessedIsComplete
  <2> SUFFICES ASSUME TypeOK, RunInvariant, NEW f \in Files, Processed(f)
               PROVE  \E t \in content[f].types :
                        /\ StoredAs(f, t)
                        /\ \A h \in Rejects(f, t) : quarantine[h] # NoFile
                        /\ db[f].status = "PROCESSED_CLEAN" => Rejects(f, t) = {}
    BY DEF ProcessedIsComplete
  <2>1. PICK t \in content[f].types : StoredWhole(f, t)
    BY DEF RunInvariant, FilesFit, FileFits
  <2>2. \A h \in Rejects(f, t) : Kept(f, h) /\ db[f].quarantined_rows > 0
    BY <2>1 DEF StoredWhole, RejectsKept, BatchChecked, Rejects
  <2>3. \A h \in Rejects(f, t) : quarantine[h] # NoFile
    BY <2>2, FilesAssumption DEF Kept
  <2>4. db[f].status = "PROCESSED_CLEAN" => Rejects(f, t) = {}
    BY <2>2 DEF RunInvariant, FilesFit, FileFits
  <2> QED BY <2>1, <2>3, <2>4 DEF StoredWhole
<1> QED BY <1>1, TypeCorrect, RunIsConsistent, PTL

\* As the row counts them, at most a fifth of the rows of a processed file were turned
\* away, whatever was retried.  (ThresholdKept says it of the content.)
THEOREM CountedThresholdKept ==
  Spec => [](\A f \in Files : Processed(f) => 5 * db[f].quarantined_rows <= db[f].total_rows)
<1>1. TypeOK /\ RunInvariant =>
        \A f \in Files : Processed(f) => 5 * db[f].quarantined_rows <= db[f].total_rows
  <2> SUFFICES ASSUME TypeOK, RunInvariant, NEW f \in Files, Processed(f)
               PROVE  5 * db[f].quarantined_rows <= db[f].total_rows
    OBVIOUS
  <2>1. db[f].quarantined_rows \in Nat /\ db[f].total_rows \in Nat
    BY DEF TypeOK, TablesOK, FileRow
  <2>2. WithinThreshold(f)
    BY DEF RunInvariant, FilesFit, FileFits, StoredWhole
  <2> QED BY <2>1, <2>2 DEF WithinThreshold, OverThreshold
<1> QED BY <1>1, TypeCorrect, RunIsConsistent, PTL

\* A file that failed left nothing, as long as the database has refused no operation.
THEOREM FailuresLeaveNothing == Spec => [](mishaps.outages = 0 => FailedLeavesNothing)
<1>1. RunInvariant => (mishaps.outages = 0 => FailedLeavesNothing)
  BY DEF RunInvariant, FilesFit, FileFits, NothingLeft, OwnsNothing, FailedLeavesNothing, Failed
<1> QED BY <1>1, RunIsConsistent, PTL

\* A settled file is in the directory of its status, as long as the database has
\* refused no operation.
THEOREM SettledFilesAreLocated == Spec => [](mishaps.outages = 0 => SettledIsLocated)
<1>1. RunInvariant => (mishaps.outages = 0 => SettledIsLocated)
  BY DEF RunInvariant, FilesFit, FileFits, SettledIsLocated, Processed, Destination
<1> QED BY <1>1, RunIsConsistent, PTL

\* With outages too, only one status says less than it seems to: FAILURE_SCHEMA on a file
\* that no handler of a failure has moved, which audit_csv left when it was retried.
ReportedAsFound ==
  \A f \in Files :
    /\ Processed(f) =>
         disk[f] = IF db[f].status = "PROCESSED_CLEAN" THEN "archive" ELSE "quarantine"
    /\ Failed(f) =>
         \/ /\ disk[f] = IF db[f].status = "REJECTED" THEN "rejected" ELSE "schema_failure"
            /\ entities[f] = {} /\ \A h \in Rows : quarantine[h] # f
            /\ db[f].quarantined_rows = 0 /\ db[f].total_processed_rows = 0
         \/ /\ db[f].status = "FAILURE_SCHEMA" /\ mishaps.outages > 0
            /\ entities[f] = {} /\ disk[f] \in {"processing", "system_failure"}

\* Every processed file lies where its status says, and every failed one that was moved to
\* its directory left nothing, whatever goes wrong.
THEOREM SettledFilesAreReported == Spec => []ReportedAsFound
<1>1. RunInvariant => ReportedAsFound
  BY DEF RunInvariant, FilesFit, FileFits, NothingLeft, OwnsNothing, ReportedAsFound, Failed,
         Processed, Destination
<1> QED BY <1>1, RunIsConsistent, PTL

(***************************************************************************)
(* What the step of a handler does to the file of the run, as far as its   *)
(* status and its entities go.                                             *)
(***************************************************************************)
StatusStays == db'[file].status = db[file].status /\ entities' = entities

StaysBusy ==
  /\ db[file].status \in BusyStatuses /\ db'[file].status \in BusyStatuses
  /\ entities' = entities

StoresBatch ==
  /\ db[file].status \in BusyStatuses /\ db'[file].status \in BusyStatuses
  /\ \E part \in Types \X BatchNumbers : entities' = [entities EXCEPT ![file] = @ \cup {part}]

Completes ==
  /\ db[file].status \in BusyStatuses
  /\ db'[file].status \in {"PROCESSED_CLEAN", "PROCESSED_W_QUARANTINE"}
  /\ \E t \in content[file].types : entities[file] = {t} \X DOMAIN ReadAs(t).batches
  /\ entities' = entities

Fails ==
  /\ db[file].status \in BusyStatuses
  /\ db'[file].status \in {"FAILURE_SCHEMA", "REJECTED"}
  /\ entities[file] = {} /\ entities' = entities

Effect == StatusStays \/ StaysBusy \/ StoresBatch \/ Completes \/ Fails

\* audit_csv may pass through FAILURE_SCHEMA.
AuditEffect ==
  /\ db[file].status \in BusyStatuses \cup {"FAILURE_SCHEMA"}
  /\ db'[file].status \in BusyStatuses \cup {"FAILURE_SCHEMA"}
  /\ entities[file] = {} /\ entities' = entities

LEMMA BatchNumber ==
  ASSUME content \in [Files -> Shapes], NEW f \in Files, NEW t \in Types,
         NEW k \in DOMAIN content[f].readings[t].batches
  PROVE  <<t, k>> \in Types \X BatchNumbers
BY DEF BatchNumbers

LEMMA StatusIsWritten ==
  ASSUME TypeOK, cur # NoMsg, NEW row \in FileRow, NEW new, NEW status,
         OnlyStatus(row, status, new), Commit(new)
  PROVE  db'[file].status = status
BY CommitWrites DEF OnlyStatus

LEMMA AuditEffects ==
  ASSUME TypeOK, RunInvariant, UNCHANGED content, AuditStep
  PROVE  /\ cur # NoMsg
         /\ cur'.msg = "AuditCSVCommand" => cur.msg = "AuditCSVCommand"
         /\ IF cur.msg = "AuditCSVCommand" THEN AuditEffect ELSE Effect
<1>1. cur # NoMsg /\ cur.msg \in {"AuditCSVCommand", "PandasAuditFailed"}
  BY DEF AuditStep, audit_csv_fails, audit_csv_passes, audit_csv_counts, audit_csv_chunks,
         attempt_retry, attempt_retry_gives_up, Handling, NoMsg
<1>2. /\ entities' = entities /\ entities[file] = {} /\ db[file] \in FileRow
      /\ db[file].status \in AuditStatuses \cup {"FAILURE_SCHEMA"}
      /\ cur.msg = "PandasAuditFailed" => db[file].status \in AuditStatuses
  BY <1>1, AuditStarts DEF AuditStep, audit_csv_fails, audit_csv_passes, audit_csv_counts,
     audit_csv_chunks, attempt_retry, attempt_retry_gives_up, AuditCounts, tables
<1>3. cur' = cur \/ cur' = NoMsg
  BY DEF AuditStep, audit_csv_fails, audit_csv_passes, audit_csv_counts, audit_csv_chunks,
         attempt_retry, attempt_retry_gives_up, Reply, Continue
<1>4. db'[file].status \in BusyStatuses \cup {"FAILURE_SCHEMA"}
  <2>1. CASE audit_csv_fails \/ audit_csv_passes
    BY <1>2, <2>1 DEF audit_csv_fails, audit_csv_passes, tables, AuditStatuses, BusyStatuses
  <2>2. CASE audit_csv_counts
    <3>1. PICK n, row, new :
            /\ n = ReadAs(cur.assumed_type).incomplete
            /\ row = [db[file] EXCEPT !.total_rows = ReadAs(cur.assumed_type).rows]
            /\ new = IF n > 0 THEN add_quarantined_row(row, n) ELSE row
      OBVIOUS
    <3>2. Commit(new) /\ cur.msg = "AuditCSVCommand"
      BY <2>2, <3>1 DEF audit_csv_counts, Handling
    <3>3. cur.assumed_type \in Types
      BY <1>1, AuditFields DEF TypeOK, ThreadOK
    <3>4. n \in Nat /\ row \in FileRow /\ row.status = db[file].status
      BY <1>1, <1>2, <3>1, <3>3, AuditStarts, ReadingFields DEF FileRow, TypeOK, TablesOK
    <3>5. new.status \in {db[file].status, "FAILURE_SCHEMA"}
      BY <3>1, <3>4, QuarantineMethod
    <3> QED BY <1>1, <1>2, <3>2, <3>5, CommitWrites DEF AuditStatuses, BusyStatuses
  <2>3. CASE audit_csv_chunks
    <3>1. PICK batches, row : /\ row = [db[file] EXCEPT !.expected_batches = @ \cup batches]
                              /\ Commit(validate(row))
      BY <2>3 DEF audit_csv_chunks
    <3>2. validate(row).status = "VALIDATING"
      BY <1>2, <3>1 DEF validate, FileRow
    <3> QED BY <1>1, <3>1, <3>2, CommitWrites DEF BusyStatuses
  <2>4. CASE attempt_retry \/ attempt_retry_gives_up
    BY <1>1, <1>2, <2>4, StatusMethods, StatusIsWritten
       DEF attempt_retry, attempt_retry_gives_up, BusyStatuses
  <2> QED BY <2>1, <2>2, <2>3, <2>4 DEF AuditStep
<1>5. CASE cur.msg = "PandasAuditFailed"
  <2>1. attempt_retry \/ attempt_retry_gives_up
    BY <1>5 DEF AuditStep, audit_csv_fails, audit_csv_passes, audit_csv_counts,
                audit_csv_chunks, Handling
  <2>2. db'[file].status \in BusyStatuses
    BY <1>1, <1>2, <2>1, StatusMethods, StatusIsWritten
       DEF attempt_retry, attempt_retry_gives_up, BusyStatuses
  <2> QED BY <1>1, <1>2, <1>3, <1>5, <2>2 DEF Effect, StaysBusy, AuditStatuses, BusyStatuses, NoMsg
<1>6. CASE cur.msg = "AuditCSVCommand"
  BY <1>1, <1>2, <1>4, <1>6 DEF AuditEffect, AuditStatuses, BusyStatuses
<1> QED BY <1>1, <1>5, <1>6

LEMMA ValidationEffects ==
  ASSUME TypeOK, RunInvariant, UNCHANGED content, ValidationStep
  PROVE  /\ cur # NoMsg /\ cur.msg # "AuditCSVCommand" /\ cur'.msg # "AuditCSVCommand"
         /\ StatusStays \/ StaysBusy
<1>1. /\ cur # NoMsg /\ cur.msg \in {"ValidateDataCommand", "PydanticAuditFailed"}
      /\ cur.msg \in BatchMessages /\ entities' = entities
  BY DEF ValidationStep, validate_data_skips, validate_data_claims, validate_data_sorts_rows,
         validate_data_detects_drift, validate_data, handle_pydantic_failure, Handling, NoMsg,
         BatchMessages, tables
<1>2. AtHand = cur /\ file \in Files /\ db[file] \in FileRow
  BY <1>1, BatchStarts
<1>3. PICK t \in content[file].types : BatchRun(t)
  BY <1>1, BatchStarts
<1>4. /\ cur.msg = "ValidateDataCommand" /\ step > 1 => db[file].status = "VALIDATING"
      /\ cur.msg = "PydanticAuditFailed" => db[file].status = "FINISHING"
      /\ ~AlreadyValidated => db[file].status \in BatchStatuses
  BY <1>2, <1>3 DEF BatchRun, HandFits, StoredFits, AlreadyValidated
<1>5. cur'.msg \in {cur.msg, "NoMsg"}
  <2>1. CASE validate_data_sorts_rows
    <3>1. cur' \in {[cur EXCEPT !.numbered = FALSE], NoMsg}
      BY <2>1 DEF validate_data_sorts_rows, Reply
    <3>2. cur.msg = "ValidateDataCommand" /\ cur \in Message
      BY <2>1 DEF validate_data_sorts_rows, Handling, TypeOK, ThreadOK
    <3> QED BY <3>1, <3>2, NumberedField, MessageIsSomething
  <2>2. CASE ~validate_data_sorts_rows
    BY <2>2 DEF ValidationStep, validate_data_skips, validate_data_claims,
       validate_data_detects_drift, validate_data, handle_pydantic_failure, Reply, Continue, NoMsg
  <2> QED BY <2>1, <2>2
<1> SUFFICES StatusStays \/ StaysBusy
  BY <1>1, <1>5
<1>6. CASE validate_data_skips \/ validate_data_sorts_rows
  BY <1>1, <1>6 DEF validate_data_skips, validate_data_sorts_rows, tables, StatusStays
<1>7. CASE validate_data_claims
  <2>1. db[file].status \in BusyStatuses
    BY <1>4, <1>7 DEF validate_data_claims, BatchStatuses, BusyStatuses
  <2>2. db'[file].status = "VALIDATING"
    BY <1>1, <1>2, <1>7, StatusMethods, StatusIsWritten DEF validate_data_claims
  <2> QED BY <1>1, <2>1, <2>2 DEF StaysBusy, BusyStatuses
<1>8. CASE validate_data_detects_drift \/ handle_pydantic_failure
  <2>1. db[file].status \in BusyStatuses
    BY <1>4, <1>8 DEF validate_data_detects_drift, handle_pydantic_failure, Handling, BusyStatuses
  <2>2. db'[file].status = "FINISHING"
    BY <1>1, <1>2, <1>8, StatusMethods, StatusIsWritten
       DEF validate_data_detects_drift, handle_pydantic_failure
  <2> QED BY <1>1, <2>1, <2>2 DEF StaysBusy, BusyStatuses
<1>9. CASE validate_data
  <2>1. CASE BatchInHand.invalid > 0
    <3>1. PICK n : n = BatchInHand.invalid
      OBVIOUS
    <3>2. /\ Commit(add_quarantined_row(db[file], n))
          /\ ~OverThreshold(db[file].quarantined_rows + n, db[file].total_rows)
      BY <1>9, <2>1, <3>1 DEF validate_data, projected_quarantine_total
    <3>3. n \in Nat /\ n > 0
      BY <1>9, <2>1, <3>1, BatchInHandFields DEF validate_data, Handling
    <3>4. add_quarantined_row(db[file], n).status = db[file].status
      BY <1>2, <3>2, <3>3, QuarantineMethod
    <3> QED BY <1>1, <3>2, <3>4, CommitWrites DEF StatusStays
  <2>2. CASE ~(BatchInHand.invalid > 0)
    BY <1>1, <1>9, <2>2 DEF validate_data, StatusStays
  <2> QED BY <2>1, <2>2
<1> QED BY <1>6, <1>7, <1>8, <1>9 DEF ValidationStep

\* A batch is stored for a file that is busy and stays so.
LEMMA BatchEffect ==
  ASSUME TypeOK, RunInvariant, UNCHANGED content,
         cur.msg = "SaveValidatedDataCommand", ~AlreadyPersisted, BatchIsCommitted
  PROVE  StoresBatch
<1>1. cur # NoMsg /\ cur.msg \in BatchMessages
  BY DEF NoMsg, BatchMessages
<1>2. AtHand = cur /\ file \in Files /\ db[file] \in FileRow
  BY <1>1, BatchStarts
<1>3. PICK t \in content[file].types : BatchRun(t)
  BY <1>1, BatchStarts
<1>4. db[file].status \in BusyStatuses
  BY <1>3 DEF BatchRun, StoredFits, AlreadyPersisted, BatchStatuses, BusyStatuses
<1>5. PICK new : new = process_row_success(persist(db[file]), BatchInHand.valid)
  OBVIOUS
<1>6. Commit(new)
  BY <1>5 DEF BatchIsCommitted
<1>7. new.status = "PERSISTING"
  <2>1. persist(db[file]) \in FileRow /\ persist(db[file]).status = "PERSISTING"
    BY <1>2, RowMethods, StatusMethods DEF OnlyStatus
  <2> QED BY <1>5, <2>1 DEF process_row_success, FileRow
<1>8. <<cur.assumed_type, cur.batch_number>> \in Types \X BatchNumbers
  <2>1. cur.assumed_type \in Types
    BY BatchCommandFields DEF TypeOK, ThreadOK
  <2>2. cur.batch_number \in DOMAIN content[file].readings[cur.assumed_type].batches
    BY DEF TypeOK, ThreadOK, CommandFits, ReadAs
  <2> QED BY <1>2, <2>1, <2>2, BatchNumber DEF TypeOK, TablesOK
<1>9. db'[file].status = "PERSISTING"
  BY <1>1, <1>6, <1>7, CommitWrites
<1> QED BY <1>4, <1>8, <1>9 DEF StoresBatch, BatchIsCommitted, BusyStatuses

LEMMA PersistenceEffects ==
  ASSUME TypeOK, RunInvariant, UNCHANGED content, PersistenceStep
  PROVE  /\ cur # NoMsg /\ cur.msg # "AuditCSVCommand" /\ cur'.msg # "AuditCSVCommand"
         /\ StatusStays \/ StoresBatch
<1>1. /\ cur # NoMsg /\ cur.msg \in {"SaveValidatedDataCommand", "BatchProcessed"}
      /\ cur' = NoMsg
  BY DEF PersistenceStep, persist_to_database_skips, persist_to_database_aborts,
         persist_to_database, check_file_completion_counts, check_file_completion, Handling,
         Reply, NoMsg
<1> SUFFICES StatusStays \/ StoresBatch
  BY <1>1 DEF NoMsg
<1>2. CASE persist_to_database_skips \/ persist_to_database_aborts \/ check_file_completion
  BY <1>2 DEF persist_to_database_skips, persist_to_database_aborts, check_file_completion,
              tables, StatusStays
<1>3. CASE persist_to_database
  BY <1>3, BatchEffect DEF persist_to_database, Handling
<1>4. CASE check_file_completion_counts
  <2>1. PICK row : /\ row = [db[file] EXCEPT !.completed_batches = CountedBatches]
                   /\ Commit(row) /\ entities' = entities
    BY <1>4 DEF check_file_completion_counts
  <2>2. row.status = db[file].status
    BY <1>1, <2>1, RunHasRow DEF FileRow
  <2> QED BY <1>1, <2>1, <2>2, CommitWrites DEF StatusStays
<1> QED BY <1>2, <1>3, <1>4 DEF PersistenceStep

LEMMA FinishingEffects ==
  ASSUME TypeOK, RunInvariant, UNCHANGED content, FinishingStep
  PROVE  /\ cur # NoMsg /\ cur.msg # "AuditCSVCommand" /\ cur'.msg # "AuditCSVCommand"
         /\ StatusStays \/ Completes \/ Fails
<1>1. /\ cur # NoMsg /\ cur' \in {cur, NoMsg}
      /\ cur.msg \in FinishingMessages \cup {"SystemFaultEvent"}
      /\ cur.msg # "AuditCSVCommand"
  BY DEF FinishingStep, file_completed_moves, file_completed_handler, failed_file_moves,
         clean_up, handle_schema_drift, handle_processing_aborted, move_finds_no_file,
         handle_system_fault, Handling, FinishingMessages, FailureDirectory, Reply,
         ReplyAndPurge, Continue, NoMsg
<1>2. db[file] \in FileRow /\ file \in Files
  BY <1>1, RunHasRow
<1> SUFFICES StatusStays \/ Completes \/ Fails
  BY <1>1, MessageIsSomething
<1>3. CASE file_completed_moves \/ failed_file_moves \/ move_finds_no_file
           \/ handle_system_fault
  BY <1>3 DEF file_completed_moves, failed_file_moves, move_finds_no_file,
              handle_system_fault, tables, StatusStays
<1>4. CASE clean_up
  <2>1. cur.msg \in FinishingMessages /\ cur.msg \in DOMAIN FailureDirectory
    BY <1>4 DEF clean_up, FinishingMessages
  <2>2. entities[file] = {}
    BY <1>1, <2>1, FinishingStarts DEF FailureFits
  <2>3. entities' = entities
    BY <1>2, <1>4, <2>2 DEF clean_up, TypeOK, TablesOK
  <2> QED BY <1>4, <2>3 DEF clean_up, StatusStays
<1>5. CASE handle_schema_drift \/ handle_processing_aborted
  <2>1. PICK new : /\ new \in {failure_schema(reset(db[file])), reject(reset(db[file]))}
                   /\ Commit(new)
    BY <1>5 DEF handle_schema_drift, handle_processing_aborted
  <2>2. /\ cur.msg \in FinishingMessages /\ cur.msg \in DOMAIN FailureDirectory
        /\ entities' = entities
    BY <1>5 DEF handle_schema_drift, handle_processing_aborted, Handling, FinishingMessages,
                FailureDirectory
  <2>3. db[file].status \in BusyStatuses /\ entities[file] = {}
    BY <1>1, <2>2, FinishingStarts DEF FailureFits
  <2>4. new.status \in {"FAILURE_SCHEMA", "REJECTED"}
    BY <1>2, <2>1, ResetMethod, StatusMethods DEF OnlyStatus
  <2>5. db'[file] = new
    BY <1>1, <2>1, CommitWrites
  <2> QED BY <2>2, <2>3, <2>4, <2>5 DEF Fails
<1>6. CASE file_completed_handler
  <2>1. PICK new : /\ new \in {clean_processed(db[file]), quarantine_processed(db[file])}
                   /\ Commit(new) /\ entities' = entities
    BY <1>6 DEF file_completed_handler
  <2>2. /\ cur.msg = "FileSuccessfullyProcessed" /\ cur.msg \in FinishingMessages
        /\ cur.msg # "SchemaDriftDetected"
    BY <1>6 DEF file_completed_handler, Handling, FinishingMessages
  <2>3. PICK t \in content[file].types : BatchRun(t) /\ db[file].status = "PERSISTING"
    BY <1>1, <2>2, FinishingStarts
  <2>4. entities[file] = {t} \X DOMAIN ReadAs(t).batches
    BY <1>1, <2>2, <2>3, FinishingStarts DEF BatchRun, HandFits
  <2>5. new.status \in {"PROCESSED_CLEAN", "PROCESSED_W_QUARANTINE"}
    BY <1>2, <2>1, StatusMethods DEF OnlyStatus
  <2>6. db'[file] = new
    BY <1>1, <2>1, CommitWrites
  <2> QED BY <2>1, <2>3, <2>4, <2>5, <2>6 DEF Completes, BusyStatuses
<1> QED BY <1>3, <1>4, <1>5, <1>6 DEF FinishingStep

(***************************************************************************)
(* A settled status stays.                                                 *)
(***************************************************************************)
LEMMA OnlyAuditUnsettles ==
  ASSUME TypeOK, RunInvariant, [Next]_vars, NEW f \in Files,
         Terminal(f), db'[f].status # db[f].status
  PROVE  f = file /\ cur.msg = "AuditCSVCommand"
<1>1. db[f].status \notin BusyStatuses \cup {"ABSENT", "PENDING"}
  BY DEF Terminal, TerminalStatuses, BusyStatuses
<1>2. db' # db
  OBVIOUS
<1>3. Next
  BY <1>2 DEF vars, tables
<1>4. UNCHANGED content
  BY <1>3 DEF Next
<1>5. CASE AuditStep \/ ValidationStep \/ PersistenceStep \/ FinishingStep
  <2>1. f = file
    BY <1>5, HandlerWritesOwnRow
  <2>2. ~Effect
    BY <1>1, <2>1 DEF Effect, StatusStays, StaysBusy, StoresBatch, Completes, Fails
  <2> QED BY <1>4, <1>5, <2>1, <2>2, AuditEffects, ValidationEffects, PersistenceEffects,
             FinishingEffects DEF Effect
<1>6. CASE \E g \in Files : dispatch_pending_files(g) \/ file_staged_handler(g)
  BY <1>1, <1>6 DEF dispatch_pending_files, oldest_pending, file_staged_handler, TypeOK, TablesOK
<1>7. CASE persist_to_database_unanswered
  <2>1. cur # NoMsg /\ StoresBatch
    BY <1>4, <1>7, BatchEffect DEF persist_to_database_unanswered, Handling, NoMsg
  <2>2. \A g \in Files : g # file => db'[g] = db[g]
    BY <1>7, <2>1, CommitWrites DEF persist_to_database_unanswered, BatchIsCommitted
  <2> QED BY <1>1, <2>1, <2>2 DEF StoresBatch
<1>8. CASE BusStep \/ operational_error \/ unhandled_error \/ crash
           \/ \E g \in Files : staging_fault(g)
  BY <1>2, <1>8 DEF BusStep, handle_next_event, handle_next_command, no_handler,
                    operational_error, unhandled_error, crash, staging_fault, tables
<1> QED BY <1>3, <1>5, <1>6, <1>7, <1>8 DEF Next, Dispatcher, Faults

\* The commands that are still queued for a settled file leave its status alone, whatever
\* fails, but for a retry of audit_csv.
THEOREM SettledStaysSettled == Spec => SettledForGood
<1>1. TypeOK /\ RunInvariant /\ [Next]_vars =>
        [\A f \in Files : Terminal(f) /\ db'[f].status # db[f].status =>
           f = file /\ cur.msg = "AuditCSVCommand"]_vars
  BY OnlyAuditUnsettles
<1> QED BY <1>1, TypeCorrect, RunIsConsistent, PTL DEF Spec, SettledForGood

(***************************************************************************)
(* The pipeline implements FileImport.  The phase of a file changes only   *)
(* with its status, or, for the file of the run while a retry of audit_csv *)
(* has left FAILURE_SCHEMA, with the message in hand.                      *)
(***************************************************************************)
UnderAudit(f) == f = file /\ cur.msg = "AuditCSVCommand"

PhaseFits(phase, status, audit) ==
  /\ status \in BusyStatuses => phase = "busy"
  /\ status = "FAILURE_SCHEMA" /\ audit => phase = "busy"
  /\ ~audit => /\ status = "ABSENT" => phase = "unknown"
               /\ status = "PENDING" => phase = "pending"
               /\ status \in {"PROCESSED_CLEAN", "PROCESSED_W_QUARANTINE"} => phase = "done"
               /\ status \in {"FAILURE_SCHEMA", "REJECTED"} => phase = "failed"

LEMMA PhaseCases ==
  ASSUME NEW phase, NEW status, NEW audit \in BOOLEAN,
         phase = CASE status = "ABSENT"  -> "unknown"
                   [] status = "PENDING" -> "pending"
                   [] status \in BusyStatuses \/ audit -> "busy"
                   [] status \in {"PROCESSED_CLEAN", "PROCESSED_W_QUARANTINE"} -> "done"
                   [] OTHER -> "failed"
  PROVE  PhaseFits(phase, status, audit)
<1>1. status \in BusyStatuses => phase = "busy"
  BY DEF BusyStatuses
<1>2. status = "FAILURE_SCHEMA" /\ audit => phase = "busy"
  BY DEF BusyStatuses
<1>3. ~audit /\ status \in {"ABSENT", "PENDING"} =>
        phase = IF status = "ABSENT" THEN "unknown" ELSE "pending"
  BY DEF BusyStatuses
<1>4. ~audit /\ status \in {"PROCESSED_CLEAN", "PROCESSED_W_QUARANTINE"} => phase = "done"
  BY DEF BusyStatuses
<1>5. ~audit /\ status \in {"FAILURE_SCHEMA", "REJECTED"} => phase = "failed"
  BY DEF BusyStatuses
<1> QED BY <1>1, <1>2, <1>3, <1>4, <1>5 DEF PhaseFits

LEMMA Phases ==
  ASSUME NEW f
  PROVE  /\ PhaseFits(PhaseOf(f), db[f].status, UnderAudit(f))
         /\ PhaseFits(PhaseOf(f)', db'[f].status, UnderAudit(f)')
<1>1. PhaseFits(PhaseOf(f), db[f].status, UnderAudit(f))
  BY PhaseCases DEF PhaseOf, Busy, Processed, UnderAudit
<1>2. PhaseFits(PhaseOf(f)', db'[f].status, UnderAudit(f)')
  BY PhaseCases DEF PhaseOf, Busy, Processed, UnderAudit
<1> QED BY <1>1, <1>2

LEMMA SamePhase ==
  ASSUME NEW f, db'[f].status = db[f].status,
         UnderAudit(f) <=> UnderAudit(f)'
  PROVE  PhaseOf(f)' = PhaseOf(f)
BY DEF PhaseOf, Busy, Processed, UnderAudit

\* A file whose phase and parts stay.
Same(f) == PhaseOf(f)' = PhaseOf(f) /\ entities'[f] = entities[f]

LEMMA StutterMaps ==
  ASSUME TypeOK, TypeOK', UNCHANGED content, \A f \in Files : Same(f)
  PROVE  UNCHANGED AbstractFiles!vars
<1>1. [f \in Files |-> PhaseOf(f)]' = [f \in Files |-> PhaseOf(f)]
  BY DEF Same
<1>2. entities' = entities
  BY DEF Same, TypeOK, TablesOK
<1> QED BY <1>1, <1>2 DEF AbstractFiles!vars

\* A file that goes from one phase to another.
LEMMA AdvanceMaps ==
  ASSUME TypeOK, TypeOK', UNCHANGED content, NEW f \in Files,
         \A g \in Files : g # f => Same(g), entities'[f] = entities[f],
         \/ PhaseOf(f) = "unknown" /\ PhaseOf(f)' = "pending"
         \/ /\ PhaseOf(f) = "pending" /\ PhaseOf(f)' = "busy"
            /\ \A g \in Files : PhaseOf(g) # "busy"
         \/ /\ PhaseOf(f) = "busy" /\ PhaseOf(f)' = "done"
            /\ \E t \in content[f].types :
                 entities[f] = {t} \X DOMAIN content[f].readings[t].batches
         \/ PhaseOf(f) = "busy" /\ PhaseOf(f)' = "failed" /\ entities[f] = {}
  PROVE  AbstractFiles!Next
<1> DEFINE phase == [g \in Files |-> PhaseOf(g)]
           whole == [g \in Files |-> {{t} \X DOMAIN content[g].readings[t].batches :
                                        t \in content[g].types}]
<1>1. entities' = entities
  BY DEF Same, TypeOK, TablesOK
<1>2. whole' = whole
  OBVIOUS
<1>3. phase' = [phase EXCEPT ![f] = PhaseOf(f)'] /\ phase[f] = PhaseOf(f)
  BY DEF Same
<1>4. \A from, to : PhaseOf(f) = from /\ PhaseOf(f)' = to => AbstractFiles!Advance(f, from, to)
  BY <1>1, <1>3 DEF AbstractFiles!Advance
<1>5. (\E t \in content[f].types : entities[f] = {t} \X DOMAIN content[f].readings[t].batches)
        => entities[f] \in whole[f]
  OBVIOUS
<1>6. AbstractFiles!Register(f) \/ AbstractFiles!Begin(f) \/ AbstractFiles!Complete(f)
      \/ AbstractFiles!Fail(f)
  BY <1>4, <1>5 DEF AbstractFiles!Register, AbstractFiles!Begin, AbstractFiles!Complete,
                    AbstractFiles!Fail
<1> QED BY <1>2, <1>6 DEF AbstractFiles!Next

\* A batch of a busy file.
LEMMA ImportMaps ==
  ASSUME TypeOK, UNCHANGED content, NEW f \in Files, NEW part \in Types \X BatchNumbers,
         \A g \in Files : PhaseOf(g)' = PhaseOf(g), PhaseOf(f) = "busy",
         entities' = [entities EXCEPT ![f] = @ \cup {part}]
  PROVE  AbstractFiles!Next
<1>1. [g \in Files |-> PhaseOf(g)]' = [g \in Files |-> PhaseOf(g)]
  OBVIOUS
<1>2. AbstractFiles!Import(f)
  BY <1>1 DEF AbstractFiles!Import
<1> QED BY <1>2 DEF AbstractFiles!Next

LEMMA InitMaps ==
  ASSUME Init
  PROVE  AbstractFiles!Init
<1>1. ASSUME NEW f \in Files
      PROVE  {{t} \X DOMAIN content[f].readings[t].batches : t \in content[f].types}
                \in SUBSET (SUBSET (Types \X BatchNumbers))
  <2>1. content[f] \in Shape /\ content[f] \in Shapes
    BY ShapesAssumption DEF Init
  <2>2. content[f].types \subseteq Types
    BY <2>1 DEF Shape
  <2>3. content \in [Files -> Shapes]
    BY DEF Init
  <2>4. ASSUME NEW t \in content[f].types
        PROVE  {t} \X DOMAIN content[f].readings[t].batches \subseteq Types \X BatchNumbers
    BY <2>2, <2>3, BatchNumber
  <2> QED BY <2>4
<1>2. \A f \in Files : PhaseOf(f) = "unknown"
  BY Phases, MessageIsSomething DEF Init, AbsentFile, UnderAudit, PhaseFits
<1> QED BY <1>1, <1>2 DEF AbstractFiles!Init, Init

\* The other files, in a step of the run.
LEMMA OthersSame ==
  ASSUME TypeOK, NEW f \in Files, f # file, f # file' \/ cur'.msg # "AuditCSVCommand",
         db'[f] = db[f], entities'[f] = entities[f]
  PROVE  Same(f)
BY SamePhase DEF Same, UnderAudit

LEMMA HandlerMaps ==
  ASSUME TypeOK, TypeOK', RunInvariant, UNCHANGED content,
         AuditStep \/ ValidationStep \/ PersistenceStep \/ FinishingStep
  PROVE  AbstractFiles!Next \/ UNCHANGED AbstractFiles!vars
<1>1. /\ cur # NoMsg /\ file' = file /\ file \in Files
      /\ \A g \in Files : g # file => db'[g] = db[g]
  BY HandlerWritesOwnRow, RunHasRow
<1>2. /\ cur'.msg = "AuditCSVCommand" => cur.msg = "AuditCSVCommand"
      /\ IF cur.msg = "AuditCSVCommand" THEN AuditEffect ELSE Effect
  BY AuditEffects, ValidationEffects, PersistenceEffects, FinishingEffects DEF Effect
<1>3. PICK f \in Files : f = file
  BY <1>1
<1>4. /\ PhaseFits(PhaseOf(f), db[f].status, UnderAudit(f))
      /\ PhaseFits(PhaseOf(f)', db'[f].status, UnderAudit(f)')
  BY Phases
<1>5. (\A g \in Files : g # f => entities'[g] = entities[g]) => \A g \in Files : g # f => Same(g)
  BY <1>1, <1>3, OthersSame
<1>6. CASE cur.msg = "AuditCSVCommand"
  <2>1. AuditEffect /\ entities' = entities /\ UnderAudit(f)
    BY <1>2, <1>3, <1>6 DEF AuditEffect, UnderAudit
  <2>2. PhaseOf(f) = "busy" /\ entities[f] = {}
    BY <1>3, <1>4, <2>1 DEF AuditEffect, PhaseFits
  <2>3. PhaseOf(f)' \in {"busy", "failed"}
    BY <1>3, <1>4, <2>1 DEF AuditEffect, PhaseFits
  <2>4. \A g \in Files : g # f => Same(g)
    BY <1>5, <2>1
  <2>5. CASE PhaseOf(f)' = "busy"
    BY <2>1, <2>2, <2>4, <2>5, StutterMaps DEF Same
  <2>6. CASE PhaseOf(f)' = "failed"
    BY <2>1, <2>2, <2>4, <2>6, AdvanceMaps
  <2> QED BY <2>3, <2>5, <2>6
<1>7. CASE cur.msg # "AuditCSVCommand"
  <2>1. ~UnderAudit(f) /\ ~UnderAudit(f)' /\ Effect
    BY <1>2, <1>7 DEF UnderAudit
  <2>2. CASE StatusStays
    <3>1. Same(f)
      BY <1>3, <2>1, <2>2, SamePhase DEF StatusStays, Same
    <3> QED BY <1>5, <2>2, <3>1, StutterMaps DEF StatusStays
  <2>3. CASE StaysBusy
    <3>1. Same(f)
      BY <1>3, <1>4, <2>3 DEF StaysBusy, Same, PhaseFits
    <3> QED BY <1>5, <2>3, <3>1, StutterMaps DEF StaysBusy
  <2>4. CASE StoresBatch
    <3>1. PICK part \in Types \X BatchNumbers :
            entities' = [entities EXCEPT ![f] = @ \cup {part}]
      BY <1>3, <2>4 DEF StoresBatch
    <3>2. \A g \in Files : g # f => entities'[g] = entities[g]
      BY <3>1 DEF TypeOK, TablesOK
    <3>3. PhaseOf(f) = "busy" /\ PhaseOf(f)' = "busy"
      BY <1>3, <1>4, <2>4 DEF StoresBatch, PhaseFits
    <3>4. \A g \in Files : PhaseOf(g)' = PhaseOf(g)
      BY <1>5, <3>2, <3>3 DEF Same
    <3> QED BY <3>1, <3>3, <3>4, ImportMaps
  <2>5. CASE Completes
    <3>1. PhaseOf(f) = "busy" /\ PhaseOf(f)' = "done" /\ entities' = entities
      BY <1>3, <1>4, <2>1, <2>5 DEF Completes, PhaseFits
    <3>2. \E t \in content[f].types : entities[f] = {t} \X DOMAIN content[f].readings[t].batches
      BY <1>3, <2>5 DEF Completes, ReadAs
    <3> QED BY <1>5, <3>1, <3>2, AdvanceMaps
  <2>6. CASE Fails
    <3>1. PhaseOf(f) = "busy" /\ PhaseOf(f)' = "failed" /\ entities[f] = {}
          /\ entities' = entities
      BY <1>3, <1>4, <2>1, <2>6 DEF Fails, PhaseFits
    <3> QED BY <1>5, <3>1, AdvanceMaps
  <2> QED BY <2>1, <2>2, <2>3, <2>4, <2>5, <2>6 DEF Effect
<1> QED BY <1>6, <1>7

\* Registration and dispatch.
LEMMA SchedulerMaps ==
  ASSUME TypeOK, TypeOK', RunInvariant, UNCHANGED content,
         NEW f \in Files, file_staged_handler(f) \/ dispatch_pending_files(f)
  PROVE  AbstractFiles!Next
<1>1. /\ entities' = entities
      /\ \A g \in Files : g # f => db'[g] = db[g]
  BY DEF file_staged_handler, dispatch_pending_files, TypeOK, TablesOK
<1>2. CASE file_staged_handler(f)
  <2>1. /\ db[f].status = "ABSENT" /\ db'[f].status = "PENDING"
        /\ UNCHANGED <<file, cur>>
    BY <1>2 DEF file_staged_handler, thread, TypeOK, TablesOK, NewFile, AbsentFile
  <2>2. ~UnderAudit(f) /\ ~UnderAudit(f)'
    <3>1. cur.msg = "AuditCSVCommand" => ~Unclaimed(file)
      BY RunCases, MessageIsSomething
    <3> QED BY <2>1, <3>1 DEF UnderAudit, Unclaimed
  <2>3. \A g \in Files : g # f => Same(g)
    BY <1>1, <2>1, SamePhase DEF Same, UnderAudit
  <2>4. PhaseOf(f) = "unknown" /\ PhaseOf(f)' = "pending"
    BY <2>1, <2>2, Phases DEF PhaseFits
  <2> QED BY <1>1, <2>3, <2>4, AdvanceMaps
<1>3. CASE dispatch_pending_files(f)
  <2>1. /\ db[f].status = "PENDING" /\ db'[f].status = "AUDITING"
        /\ cur = NoMsg /\ cur' = NoMsg
    BY <1>3 DEF dispatch_pending_files, oldest_pending, Idle, TypeOK, TablesOK, start_auditing,
                FileRow
  <2>2. \A g : ~UnderAudit(g) /\ ~UnderAudit(g)'
    BY <2>1, MessageIsSomething DEF UnderAudit
  <2>3. \A g \in Files : g # f => Same(g)
    BY <1>1, <2>2, SamePhase DEF Same
  <2>4. PhaseOf(f) = "pending" /\ PhaseOf(f)' = "busy"
    BY <2>1, <2>2, Phases DEF PhaseFits, BusyStatuses
  <2>5. \A g \in Files : PhaseOf(g) # "busy"
    <3> SUFFICES ASSUME NEW g \in Files
                 PROVE  PhaseOf(g) # "busy"
      OBVIOUS
    <3>1. db[g].status \notin BusyStatuses /\ ~UnderAudit(g) /\ db[g].status \in FileStatus
      BY <1>3, <2>2 DEF dispatch_pending_files, check_for_busy_files, Busy, TypeOK, TablesOK,
                        FileRow
    <3>2. db[g].status # "SYSTEM_FAULT"
      BY DEF RunInvariant, FilesFit, FileFits
    <3> QED BY <3>1, <3>2, Phases DEF PhaseFits, FileStatus, TerminalStatuses
  <2> QED BY <1>1, <2>3, <2>4, <2>5, AdvanceMaps
<1> QED BY <1>2, <1>3

\* The bus takes a message: an audit begins or ends with the file in the same phase.
LEMMA BusMaps ==
  ASSUME TypeOK, TypeOK', RunInvariant, UNCHANGED content, BusStep
  PROVE  UNCHANGED AbstractFiles!vars
<1>1. /\ UNCHANGED <<db, entities, file>> /\ file \in Files
  BY RunCases, MessageIsSomething
     DEF BusStep, handle_next_event, handle_next_command, no_handler, Handling, Reply, tables,
         TypeOK, ThreadOK, Idle
<1>2. cur.msg # "AuditCSVCommand"
  BY MessageIsSomething DEF BusStep, handle_next_event, handle_next_command, no_handler, Handling
<1>3. cur'.msg = "AuditCSVCommand" => db[file].status \in BusyStatuses
  <2> SUFFICES ASSUME cur'.msg = "AuditCSVCommand"
               PROVE  db[file].status \in BusyStatuses
    OBVIOUS
  <2>1. CASE handle_next_event
    <3>1. cur' \in Event
      BY <2>1 DEF handle_next_event, TypeOK, ThreadOK
    <3> QED BY <3>1 DEF Event
  <2>2. CASE handle_next_command
    <3>1. /\ 1 \in DOMAIN commands /\ Head(commands) = commands[1] /\ ~Idle
          /\ commands[1].msg = "AuditCSVCommand" /\ AtHand = NoMsg
      BY <2>2, TailFields DEF handle_next_command, TypeOK, ThreadOK, Idle, AtHand
    <3>2. \A t : ~QueueFits(t)
      BY <3>1 DEF QueueFits
    <3>3. AuditRun
      BY <3>1, <3>2 DEF RunInvariant, RunFits, BatchRun
    <3> QED BY <3>1, <3>3, MessageIsSomething DEF AuditRun, AuditStatuses, BusyStatuses
  <2>3. CASE no_handler
    BY <2>3, MessageIsSomething DEF no_handler, Reply
  <2> QED BY <2>1, <2>2, <2>3 DEF BusStep
<1>4. ASSUME NEW g \in Files
      PROVE  Same(g)
  <2>1. CASE g = file /\ cur'.msg = "AuditCSVCommand"
    BY <1>1, <1>3, <2>1, Phases DEF Same, PhaseFits
  <2>2. CASE ~(g = file /\ cur'.msg = "AuditCSVCommand")
    BY <1>1, <1>2, <2>2, SamePhase DEF Same, UnderAudit
  <2> QED BY <2>1, <2>2
<1> QED BY <1>4, StutterMaps

\* A fault: the file of an audit that a retry has put into FAILURE_SCHEMA fails when the
\* audit is given up.
LEMMA FaultMaps ==
  ASSUME TypeOK, TypeOK', RunInvariant, UNCHANGED content, Faults
  PROVE  AbstractFiles!Next \/ UNCHANGED AbstractFiles!vars
<1>1. CASE persist_to_database_unanswered
  <2>1. /\ cur # NoMsg /\ cur.msg = "SaveValidatedDataCommand" /\ StoresBatch
        /\ file \in Files /\ file' = file /\ cur' \in {cur, NoMsg}
    BY <1>1, BatchEffect, RunHasRow
       DEF persist_to_database_unanswered, Handling, NoMsg, Again, Reply
  <2>2. PICK f \in Files : f = file
    BY <2>1
  <2>3. \A g \in Files : g # f => db'[g] = db[g]
    BY <1>1, <2>1, <2>2, CommitWrites DEF persist_to_database_unanswered, BatchIsCommitted
  <2>4. PICK part \in Types \X BatchNumbers : entities' = [entities EXCEPT ![f] = @ \cup {part}]
    BY <2>1, <2>2 DEF StoresBatch
  <2>5. PhaseOf(f) = "busy" /\ PhaseOf(f)' = "busy"
    BY <2>1, <2>2, Phases DEF StoresBatch, PhaseFits
  <2>6. \A g \in Files : PhaseOf(g)' = PhaseOf(g)
    BY <2>1, <2>2, <2>3, <2>5, SamePhase DEF UnderAudit
  <2> QED BY <2>4, <2>5, <2>6, ImportMaps
<1>2. CASE operational_error \/ unhandled_error \/ crash
  <2>1. /\ UNCHANGED <<db, entities>> /\ ~Idle
        /\ (file' = file /\ cur' = cur) \/ cur' = NoMsg
        /\ file' = file \/ file' = NoFile
    BY <1>2, MessageIsSomething
       DEF operational_error, unhandled_error, crash, InTransaction, FailureDirectory, Again,
           Reply, ReplyAndPurge, Idle, tables
  <2>2. PICK f \in Files : f = file
    BY <2>1 DEF TypeOK, ThreadOK
  <2>3. \A g \in Files : g # f => Same(g)
    BY <2>1, <2>2, OthersSame, MessageIsSomething
  <2>4. CASE Same(f)
    BY <2>3, <2>4, StutterMaps
  <2>5. CASE ~Same(f)
    <3>1. cur.msg = "AuditCSVCommand" /\ ~UnderAudit(f)' /\ cur # NoMsg
      BY <2>1, <2>2, <2>5, SamePhase, MessageIsSomething DEF Same, UnderAudit
    <3>2. entities[f] = {} /\ db[f].status \in BusyStatuses \cup {"FAILURE_SCHEMA"}
      BY <2>2, <3>1, AuditStarts DEF AuditCounts, AuditStatuses, BusyStatuses
    <3>3. PhaseOf(f) = "busy" /\ PhaseOf(f)' \in {"busy", "failed"}
      BY <2>1, <2>2, <3>1, <3>2, Phases DEF PhaseFits, UnderAudit
    <3> QED BY <2>1, <2>3, <2>5, <3>2, <3>3, AdvanceMaps DEF Same
  <2> QED BY <2>4, <2>5
<1>3. CASE \E f \in Files : staging_fault(f)
  <2>1. UNCHANGED <<db, entities, file, cur>>
    BY <1>3 DEF staging_fault, tables, thread
  <2> QED BY <2>1, SamePhase, StutterMaps DEF Same, UnderAudit
<1> QED BY <1>1, <1>2, <1>3 DEF Faults

LEMMA NextMaps ==
  ASSUME TypeOK, RunInvariant, [Next]_vars
  PROVE  [AbstractFiles!Next]_(AbstractFiles!vars)
<1>1. TypeOK'
  BY NextType
<1>2. CASE UNCHANGED vars
  <2>1. UNCHANGED <<content, db, entities, file, cur>>
    BY <1>2 DEF vars, tables, thread
  <2> QED BY <1>1, <2>1, SamePhase, StutterMaps DEF Same, UnderAudit
<1>3. CASE Next
  <2>1. UNCHANGED content
    BY <1>3 DEF Next
  <2> QED BY <1>1, <1>3, <2>1, HandlerMaps, SchedulerMaps, BusMaps, FaultMaps
          DEF Next, Dispatcher
<1> QED BY <1>2, <1>3

\* Whatever is retried, refused or lost, a file is imported as FileImport allows: files are
\* taken up one at a time, one that is done is stored whole, one that failed left nothing
\* among the entities, and neither is taken up again.
THEOREM PipelineImplementsFileImport == Spec => ImplementsFileImport
<1>1. Init => AbstractFiles!Init
  BY InitMaps
<1>2. TypeOK /\ RunInvariant /\ [Next]_vars => [AbstractFiles!Next]_(AbstractFiles!vars)
  BY NextMaps
<1> QED BY <1>1, <1>2, TypeCorrect, RunIsConsistent, PTL
        DEF Spec, ImplementsFileImport, AbstractFiles!Spec

(***************************************************************************)
(* The counts of a row and the content of the file.                        *)
(***************************************************************************)

\* The numbers of a reading.
NumbersFit(r) ==
  /\ IsFiniteSet(DOMAIN r.batches) /\ r.incomplete \in Nat /\ r.rows \in Nat
  /\ \A k \in DOMAIN r.batches :
       /\ Valid(r)[k] = r.batches[k].valid /\ Valid(r)[k] \in Nat
       /\ Invalid(r)[k] = r.batches[k].invalid /\ Invalid(r)[k] \in Nat

LEMMA ReadingNumbers ==
  ASSUME NEW f \in Files, content \in [Files -> Shapes], NEW t \in Types,
         NEW r, r = content[f].readings[t]
  PROVE  NumbersFit(r)
<1>1. r \in Reading
  BY ShapesAssumption DEF Shape
<1>2. r.incomplete \in Nat /\ r.rows \in Nat /\ r.batches \in Seq(Batch)
  BY <1>1 DEF Reading
<1>3. PICK n \in Nat : DOMAIN r.batches = 1..n
  BY <1>2
<1>4. \A k \in DOMAIN r.batches : r.batches[k] \in Batch
  BY <1>2
<1>5. IsFiniteSet(DOMAIN r.batches)
  BY <1>3, FS_Interval
<1> QED BY <1>2, <1>4, <1>5 DEF NumbersFit, Valid, Invalid, Batch

\* What a reading gives for the batches U and V of a file.
LEMMA ReadingSums ==
  ASSUME NEW f \in Files, content \in [Files -> Shapes], NEW t \in Types,
         NEW r, r = content[f].readings[t],
         NEW U \in SUBSET DOMAIN r.batches, NEW V \in SUBSET DOMAIN r.batches
  PROVE  /\ SumFunctionOnSet(Invalid(r), U) \in Nat /\ SumFunctionOnSet(Valid(r), V) \in Nat
         /\ r.incomplete + SumFunctionOnSet(Invalid(r), U) + SumFunctionOnSet(Valid(r), V)
              <= r.rows
         /\ U = DOMAIN r.batches /\ V = DOMAIN r.batches =>
              r.incomplete + SumFunctionOnSet(Invalid(r), U) + SumFunctionOnSet(Valid(r), V)
                = r.rows
<1> DEFINE D == DOMAIN r.batches
           both == [k \in D |-> r.batches[k].valid + r.batches[k].invalid]
<1>0. NumbersFit(r)
  BY ReadingNumbers
<1>1. /\ IsFiniteSet(D) /\ r.incomplete \in Nat /\ r.rows \in Nat
      /\ \A k \in D : /\ Valid(r)[k] = r.batches[k].valid /\ Valid(r)[k] \in Nat
                      /\ Invalid(r)[k] = r.batches[k].invalid /\ Invalid(r)[k] \in Nat
  BY <1>0 DEF NumbersFit
<1>7. r.rows = r.incomplete + SumFunctionOnSet(both, D)
  BY ReadingsAssumption DEF SumFunction
<1>8. \A k \in D : both[k] = Invalid(r)[k] + Valid(r)[k]
  BY <1>1
<1> HIDE DEF D, both
<1>9. SumFunctionOnSet(both, D)
        = SumFunctionOnSet(Invalid(r), D) + SumFunctionOnSet(Valid(r), D)
  BY <1>1, <1>8, SumOfSums
<1>10. /\ SumFunctionOnSet(Invalid(r), U) <= SumFunctionOnSet(Invalid(r), D)
       /\ SumFunctionOnSet(Valid(r), V) <= SumFunctionOnSet(Valid(r), D)
  BY <1>1, SumOfPart DEF D
<1>11. /\ SumFunctionOnSet(Invalid(r), U) \in Nat /\ SumFunctionOnSet(Valid(r), V) \in Nat
       /\ SumFunctionOnSet(Invalid(r), D) \in Nat /\ SumFunctionOnSet(Valid(r), D) \in Nat
  <2>1. IsFiniteSet(U) /\ IsFiniteSet(V) /\ U \subseteq D /\ V \subseteq D
    BY <1>1, FS_Subset DEF D
  <2> QED BY <1>1, <2>1, SumType
<1>12. r.incomplete + SumFunctionOnSet(Invalid(r), U) + SumFunctionOnSet(Valid(r), V) <= r.rows
  BY <1>1, <1>7, <1>9, <1>10, <1>11
<1>13. U = D /\ V = D =>
         r.incomplete + SumFunctionOnSet(Invalid(r), U) + SumFunctionOnSet(Valid(r), V) = r.rows
  BY <1>1, <1>7, <1>9, <1>11
<1> QED BY <1>11, <1>12, <1>13 DEF D

\* The sums with one batch more.
LEMMA ReadingSumsAdd ==
  ASSUME NEW f \in Files, content \in [Files -> Shapes], NEW t \in Types,
         NEW r, r = content[f].readings[t],
         NEW U \in SUBSET DOMAIN r.batches, NEW k \in DOMAIN r.batches, k \notin U
  PROVE  /\ SumFunctionOnSet(Invalid(r), U \cup {k})
              = SumFunctionOnSet(Invalid(r), U) + r.batches[k].invalid
         /\ SumFunctionOnSet(Valid(r), U \cup {k})
              = SumFunctionOnSet(Valid(r), U) + r.batches[k].valid
<1>0. NumbersFit(r)
  BY ReadingNumbers
<1>1. /\ IsFiniteSet(DOMAIN r.batches)
      /\ \A j \in DOMAIN r.batches :
           /\ Valid(r)[j] = r.batches[j].valid /\ Valid(r)[j] \in Nat
           /\ Invalid(r)[j] = r.batches[j].invalid /\ Invalid(r)[j] \in Nat
  BY <1>0 DEF NumbersFit
<1>2. IsFiniteSet(U) /\ \A j \in U : Valid(r)[j] \in Nat /\ Invalid(r)[j] \in Nat
  BY <1>1, FS_Subset
<1> QED BY <1>1, <1>2, SumAdds

LEMMA NoBatchSums ==
  ASSUME NEW r
  PROVE  SumFunctionOnSet(Invalid(r), {}) = 0 /\ SumFunctionOnSet(Valid(r), {}) = 0
BY FS_EmptySet, SumAdds

(***************************************************************************)
(* Steps that count nothing.                                               *)
(***************************************************************************)
OutagesKnown == mishaps'.outages = 0 => mishaps.outages = 0

OnlyThisFile == \A g \in Files : g # file => db'[g] = db[g] /\ entities'[g] = entities[g]

SameCounts ==
  /\ db'[file].total_rows = db[file].total_rows
  /\ db'[file].quarantined_rows = db[file].quarantined_rows
  /\ db'[file].total_processed_rows = db[file].total_processed_rows
  /\ db'[file].validated_batches = db[file].validated_batches

\* The batches that are asked for stay the same.
SameAsked ==
  /\ commands' = commands
  /\ \/ cur.msg # "ValidateDataCommand" /\ cur'.msg \notin BatchCommands
     \/ /\ cur'.msg = cur.msg
        /\ cur.msg \in BatchCommands =>
             cur'.assumed_type = cur.assumed_type /\ cur'.batch_number = cur.batch_number

LEMMA OthersAddUp ==
  ASSUME SumsInvariant, UNCHANGED content, OnlyThisFile, OutagesKnown
  PROVE  \A g \in Files : g # file =>
           FileAddsUp(g)' /\ db'[g].validated_batches = {}
BY DEF SumsInvariant, NoneMarked, OnlyThisFile, OutagesKnown, FileAddsUp, Unclaimed, Exactly,
       Processed, StoredAs, TurnedAway, RejectCount

\* Of a file that is busy, or whose status stays, nothing else can go wrong.
LEMMA FileStillAddsUp ==
  ASSUME SumsInvariant, UNCHANGED <<content, file, entities>>, file \in Files, SameCounts,
         OutagesKnown, db'[file].status \in BusyStatuses \cup {db[file].status}
  PROVE  FileAddsUp(file)'
<1>1. FileAddsUp(file)
  BY DEF SumsInvariant
<1>2. CASE db'[file].status = db[file].status
  BY <1>1, <1>2 DEF SameCounts, OutagesKnown, FileAddsUp, Unclaimed, Exactly, Processed,
     StoredAs, TurnedAway, RejectCount
<1>3. CASE db'[file].status \in BusyStatuses
  BY <1>1, <1>3 DEF SameCounts, OutagesKnown, FileAddsUp, Unclaimed, Exactly, Processed,
     BusyStatuses
<1> QED BY <1>2, <1>3

\* What the counts of the run must be, given the batches that count.
LEMMA CountsFit ==
  ASSUME NEW t, NEW r, NEW U, NEW V, UNCHANGED file, ReadAs(t)' = r, Passed(t)' = U,
         StoredBatches(t)' = V,
         db'[file].total_rows = r.rows,
         db'[file].quarantined_rows >= r.incomplete + SumFunctionOnSet(Invalid(r), U),
         mishaps'.outages = 0 =>
           /\ db'[file].quarantined_rows = r.incomplete + SumFunctionOnSet(Invalid(r), U)
           /\ db'[file].total_processed_rows =
                db'[file].quarantined_rows + SumFunctionOnSet(Valid(r), V)
  PROVE  BatchCounts(t)'
BY DEF BatchCounts, TurnedAway, Exactly

LEMMA BatchSumsStay ==
  ASSUME UNCHANGED <<content, file, entities>>, SameCounts, OutagesKnown, SameAsked,
         NEW t, BatchSums(t)
  PROVE  BatchSums(t)'
<1>1. ReadAs(t)' = ReadAs(t) /\ StoredBatches(t)' = StoredBatches(t)
  BY DEF ReadAs, StoredBatches
<1>2. Passed(t)' = Passed(t)
  <2>1. \A k : /\ cur.msg = "ValidateDataCommand" => cur.batch_number # k
           <=> (cur'.msg = "ValidateDataCommand" => cur'.batch_number # k)
    BY DEF SameAsked, BatchCommands
  <2> QED BY <1>1, <2>1 DEF Passed, SameAsked
<1>3. PICK r, U, V : r = ReadAs(t) /\ U = Passed(t) /\ V = StoredBatches(t)
  OBVIOUS
<1>4. BatchCounts(t)'
  BY <1>1, <1>2, <1>3, CountsFit
     DEF BatchSums, BatchCounts, TurnedAway, Exactly, SameCounts, OutagesKnown
<1>5. \A c : BatchCommandFits(c, t) => BatchCommandFits(c, t)'
  BY <1>1 DEF BatchCommandFits
<1>6. \A c, d : /\ BatchCommandFits(c, t) /\ d.msg = c.msg /\ d.assumed_type = c.assumed_type
                /\ d.batch_number = c.batch_number
                => BatchCommandFits(d, t)'
  BY <1>1 DEF BatchCommandFits
<1>7. \A i \in DOMAIN commands' : BatchCommandFits(commands[i], t)'
  BY <1>5 DEF BatchSums, BatchAsks, SameAsked
<1>8. cur'.msg \in BatchCommands => BatchCommandFits(cur, t)'
  BY <1>1 DEF BatchSums, BatchAsks, SameAsked, BatchCommandFits
<1>9. AskedOnce'
  BY DEF BatchSums, BatchAsks, AskedOnce, SameAsked
<1>10. BatchAsks(t)'
  BY <1>1, <1>7, <1>8, <1>9
     DEF BatchSums, BatchAsks, BatchCommandFits, SameAsked, Exactly, OutagesKnown
<1> QED BY <1>4, <1>10 DEF BatchSums

\* A step that leaves the queue and the counts.
RunLeavesCounts ==
  /\ SameCounts
  /\ commands' = commands
  /\ AtHand'.msg \in {"AuditCSVCommand", "PandasAuditFailed"} =>
       AtHand.msg \in {"AuditCSVCommand", "PandasAuditFailed"}
  /\ AtHand'.msg = "AuditCSVCommand" => step' # 3
  /\ InBatches' => InBatches /\ SameAsked

LEMMA RunStillAddsUp ==
  ASSUME SumsInvariant, ~Idle, UNCHANGED <<content, file, entities>>, OutagesKnown,
         RunLeavesCounts
  PROVE  RunAddsUp'
<1>1. AuditSums /\ (InBatches => \E t \in content[file].types : BatchSums(t))
  BY DEF SumsInvariant, RunAddsUp
<1>2. AuditSums'
  BY <1>1 DEF RunLeavesCounts, SameCounts, AuditSums, InAudit
<1>3. InBatches' => \E t \in content[file].types : BatchSums(t)'
  BY <1>1, BatchSumsStay DEF RunLeavesCounts
<1> QED BY <1>2, <1>3 DEF RunAddsUp

LEMMA LeavesCounts ==
  ASSUME SumsInvariant, ~Idle, file \in Files, UNCHANGED <<content, file, entities>>,
         OutagesKnown, OnlyThisFile, RunLeavesCounts,
         db'[file].status \in BusyStatuses \cup {db[file].status}
  PROVE  SumsInvariant'
<1>1. RunAddsUp' /\ FileAddsUp(file)'
  BY RunStillAddsUp, FileStillAddsUp DEF RunLeavesCounts
<1>2. db'[file].validated_batches = {}
  BY DEF RunLeavesCounts, SameCounts, SumsInvariant, NoneMarked
<1> QED BY <1>1, <1>2, OthersAddUp DEF SumsInvariant, NoneMarked

\* A handler that ends, with no reply or with an event.
LEMMA ReplyLeavesCounts ==
  ASSUME TypeOK, RunInvariant, SumsInvariant, UNCHANGED <<content, entities>>,
         OutagesKnown, OnlyThisFile, SameCounts,
         cur # NoMsg, cur.msg # "SystemFaultEvent",
         db'[file].status \in BusyStatuses \cup {db[file].status},
         \/ Reply(<< >>, << >>)
         \/ \E m : /\ Reply(<< >>, << m >>) /\ m.msg # "AuditCSVCommand"
                   /\ m.msg = "PandasAuditFailed" => cur.msg = "AuditCSVCommand",
         InBatches' => db[file].status \in BatchStatuses /\ cur.msg # "ValidateDataCommand"
  PROVE  SumsInvariant'
<1>1. AtHand = cur /\ ~Idle /\ file \in Files /\ EventAlone
  BY RunCases DEF RunInvariant
<1>2. /\ commands' = commands /\ file' = file /\ cur' = NoMsg
      /\ \/ AtHand' = NoMsg
         \/ AtHand'.msg # "AuditCSVCommand" /\ (AtHand'.msg = "PandasAuditFailed" =>
                                                   cur.msg = "AuditCSVCommand")
  <2>1. commands \o << >> = commands
    BY DEF TypeOK, ThreadOK
  <2>2. cur' = NoMsg
    BY DEF Reply
  <2> QED BY <1>1, <2>1, <2>2, ReplyHand
<1>3. NoMsg.msg = "NoMsg"
  BY DEF NoMsg
<1>4. RunLeavesCounts
  BY <1>1, <1>2, <1>3 DEF RunLeavesCounts, InBatches, SameAsked, BatchCommands
<1> QED BY <1>1, <1>2, <1>4, LeavesCounts

\* A handler that goes on.
LEMMA StepLeavesCounts ==
  ASSUME TypeOK, RunInvariant, SumsInvariant, UNCHANGED <<content, file, entities, commands>>,
         OutagesKnown, OnlyThisFile, SameCounts,
         cur # NoMsg, cur' # NoMsg, cur'.msg = cur.msg,
         cur.msg \in BatchCommands =>
           cur'.assumed_type = cur.assumed_type /\ cur'.batch_number = cur.batch_number,
         db'[file].status \in BusyStatuses \cup {db[file].status},
         cur.msg = "AuditCSVCommand" => step' # 3,
         InBatches' => db[file].status \in BatchStatuses
  PROVE  SumsInvariant'
<1>1. AtHand = cur /\ AtHand' = cur' /\ ~Idle /\ file \in Files
  BY RunCases DEF AtHand
<1>2. RunLeavesCounts
  BY <1>1 DEF RunLeavesCounts, InBatches, SameAsked
<1> QED BY <1>1, <1>2, LeavesCounts

LEMMA UnchangedCounts ==
  ASSUME UNCHANGED <<db, entities>>
  PROVE  OnlyThisFile /\ SameCounts
BY DEF OnlyThisFile, SameCounts

\* A method that counts nothing.
CountsKept(row, new) ==
  /\ new.total_rows = row.total_rows
  /\ new.quarantined_rows = row.quarantined_rows
  /\ new.total_processed_rows = row.total_processed_rows
  /\ new.validated_batches = row.validated_batches
  /\ new.expected_batches = row.expected_batches

LEMMA StatusCounts ==
  ASSUME NEW row \in FileRow
  PROVE  /\ CountsKept(row, start_auditing(row)) /\ CountsKept(row, validate(row))
         /\ CountsKept(row, retry(row)) /\ CountsKept(row, finish(row))
         /\ CountsKept(row, reject(row)) /\ CountsKept(row, failure_schema(row))
         /\ CountsKept(row, quarantine_processed(row)) /\ CountsKept(row, clean_processed(row))
         /\ \A S : CountsKept(row, [row EXCEPT !.completed_batches = S])
BY DEF CountsKept, FileRow, start_auditing, validate, retry, finish, reject, failure_schema,
       quarantine_processed, clean_processed

\* A commit of a status or of the completed batches.
LEMMA StatusCommit ==
  ASSUME TypeOK, cur # NoMsg, UNCHANGED entities, NEW S, NEW new,
         new \in {validate(db[file]), retry(db[file]), finish(db[file]), reject(db[file]),
                  failure_schema(db[file]), quarantine_processed(db[file]),
                  clean_processed(db[file]), [db[file] EXCEPT !.completed_batches = S]},
         Commit(new)
  PROVE  /\ OnlyThisFile /\ SameCounts /\ db'[file] = new
         /\ db'[file].expected_batches = db[file].expected_batches
<1>1. db[file] \in FileRow
  BY RunHasRow
<1>2. CountsKept(db[file], new)
  BY <1>1, StatusCounts
<1>3. db'[file] = new /\ \A g \in Files : g # file => db'[g] = db[g]
  BY CommitWrites
<1> QED BY <1>2, <1>3 DEF OnlyThisFile, SameCounts, CountsKept

LEMMA NextEventAddsUp ==
  ASSUME TypeOK, RunInvariant, SumsInvariant, handle_next_event, UNCHANGED content
  PROVE  SumsInvariant'
<1>1. /\ cur = NoMsg /\ events # << >> /\ cur' = Head(events)
      /\ UNCHANGED <<db, entities, file, step, commands, mishaps>>
  BY DEF handle_next_event, tables
<1>2. /\ ~Idle /\ file \in Files /\ Head(events) \in Event
  BY <1>1 DEF Idle, TypeOK, ThreadOK
<1>3. AtHand' = Head(events) /\ AtHand = Head(events) /\ step = 1
  BY <1>1, <1>2 DEF AtHand, RunInvariant, EventAlone, Event, NoMsg
<1>4. cur.msg = "NoMsg" /\ cur'.msg \notin BatchCommands
  BY <1>1, <1>2 DEF NoMsg, Event, BatchCommands
<1>5. OnlyThisFile /\ SameCounts /\ OutagesKnown
  BY <1>1, UnchangedCounts DEF OutagesKnown
<1>6. RunLeavesCounts
  BY <1>1, <1>3, <1>4, <1>5 DEF RunLeavesCounts, InBatches, SameAsked
<1> QED BY <1>1, <1>2, <1>5, <1>6, LeavesCounts

LEMMA NoHandlerAddsUp ==
  ASSUME TypeOK, RunInvariant, SumsInvariant, no_handler, UNCHANGED content
  PROVE  SumsInvariant'
<1>1. /\ cur # NoMsg /\ cur.msg = "BatchValidated" /\ Reply(<< >>, << >>)
      /\ UNCHANGED <<db, entities, mishaps>>
  BY DEF no_handler, Handling, NoMsg, tables
<1>2. OnlyThisFile /\ SameCounts /\ OutagesKnown
  BY <1>1, UnchangedCounts DEF OutagesKnown
<1> QED BY <1>1, <1>2, ReplyLeavesCounts DEF InBatches, Reply

LEMMA AuditSkipsAddUp ==
  ASSUME TypeOK, RunInvariant, SumsInvariant, UNCHANGED content,
         audit_csv_fails \/ audit_csv_passes \/ attempt_retry_gives_up
  PROVE  SumsInvariant'
<1>1. CASE audit_csv_fails
  <2>1. /\ cur # NoMsg /\ cur.msg = "AuditCSVCommand"
        /\ UNCHANGED <<db, entities, mishaps>>
    BY <1>1 DEF audit_csv_fails, Handling, NoMsg, tables
  <2>2. PICK m : /\ Reply(<< >>, << m >>)
                 /\ \/ m = Signal("SchemaDriftDetected")
                    \/ m = [cur EXCEPT !.msg = "PandasAuditFailed"]
    BY <1>1 DEF audit_csv_fails
  <2>3. m.msg # "AuditCSVCommand"
    <3>1. [cur EXCEPT !.msg = "PandasAuditFailed"] \in Event
      BY <2>1, AuditFields DEF TypeOK, ThreadOK
    <3>2. \A e \in Event : e.msg # "AuditCSVCommand"
      BY DEF Event
    <3> QED BY <2>2, <3>1, <3>2 DEF Signal
  <2>4. OnlyThisFile /\ SameCounts /\ OutagesKnown
    BY <2>1, UnchangedCounts DEF OutagesKnown
  <2> QED BY <2>1, <2>2, <2>3, <2>4, ReplyLeavesCounts DEF InBatches, Reply
<1>2. CASE audit_csv_passes
  <2>1. /\ cur # NoMsg /\ cur.msg = "AuditCSVCommand" /\ Continue(2)
        /\ UNCHANGED <<db, entities, mishaps>>
    BY <1>2 DEF audit_csv_passes, Handling, NoMsg, tables
  <2>2. OnlyThisFile /\ SameCounts /\ OutagesKnown
    BY <2>1, UnchangedCounts DEF OutagesKnown
  <2> QED BY <2>1, <2>2, StepLeavesCounts DEF Continue, InBatches, BatchCommands
<1>3. CASE attempt_retry_gives_up
  <2>1. /\ cur # NoMsg /\ cur.msg = "PandasAuditFailed" /\ Commit(finish(db[file]))
        /\ Reply(<< >>, << Signal("SchemaDriftDetected") >>)
        /\ UNCHANGED <<entities, mishaps>> /\ db[file] \in FileRow
    BY <1>3, RunHasRow DEF attempt_retry_gives_up, Handling, NoMsg
  <2>2. OnlyThisFile /\ SameCounts /\ OutagesKnown /\ db'[file] = finish(db[file])
    BY <2>1, StatusCommit DEF OutagesKnown
  <2>3. db'[file].status = "FINISHING" /\ file' = file
    BY <2>1, <2>2 DEF finish, FileRow, Reply
  <2>4. Signal("SchemaDriftDetected").msg = "SchemaDriftDetected"
    BY DEF Signal
  <2> QED BY <2>1, <2>2, <2>3, <2>4, ReplyLeavesCounts
          DEF InBatches, BatchStatuses, BusyStatuses
<1> QED BY <1>1, <1>2, <1>3

\* The run is over.
LEMMA EndAddsUp ==
  ASSUME TypeOK, SumsInvariant, UNCHANGED <<content, db, entities>>, OutagesKnown, Idle'
  PROVE  SumsInvariant'
<1>1. \A g \in Files : FileAddsUp(g)'
  BY DEF SumsInvariant, OutagesKnown, FileAddsUp, Unclaimed, Exactly, Processed, StoredAs,
         TurnedAway, RejectCount
<1>2. NoneMarked'
  BY DEF SumsInvariant, NoneMarked
<1> QED BY <1>1, <1>2 DEF SumsInvariant, RunAddsUp

LEMMA ValidationSkipsAddUp ==
  ASSUME TypeOK, RunInvariant, SumsInvariant, UNCHANGED content,
         \/ validate_data_skips \/ validate_data_claims \/ validate_data_sorts_rows
         \/ validate_data_detects_drift \/ handle_pydantic_failure
  PROVE  SumsInvariant'
<1>0. NoMsg.msg = "NoMsg" /\ Signal("SystemFaultEvent").msg = "SystemFaultEvent"
  BY DEF NoMsg, Signal
<1>1. CASE validate_data_skips
  <2>1. /\ cur # NoMsg /\ cur.msg = "ValidateDataCommand" /\ Reply(<< >>, << >>)
        /\ AlreadyValidated /\ UNCHANGED <<db, entities, mishaps>>
    BY <1>0, <1>1 DEF validate_data_skips, Handling, tables
  <2>2. OnlyThisFile /\ SameCounts /\ OutagesKnown /\ file \in Files
    BY <2>1, UnchangedCounts, RunHasRow DEF OutagesKnown
  <2>3. db[file].status \in WrongStatuses
    BY <2>1, <2>2 DEF AlreadyValidated, SumsInvariant, NoneMarked
  <2>4. ~InBatches'
    BY <2>1, <2>3 DEF InBatches, BatchStatuses, WrongStatuses, TerminalStatuses, Reply
  <2> QED BY <2>1, <2>2, <2>4, ReplyLeavesCounts
<1>2. CASE validate_data_claims
  <2>1. /\ cur # NoMsg /\ cur.msg = "ValidateDataCommand" /\ cur.msg \in BatchMessages
        /\ ~AlreadyValidated /\ Commit(validate(db[file])) /\ Continue(2)
        /\ UNCHANGED <<entities, mishaps>>
    BY <1>0, <1>2 DEF validate_data_claims, Handling, BatchMessages
  <2>2. /\ OnlyThisFile /\ SameCounts /\ OutagesKnown /\ db'[file] = validate(db[file])
    BY <2>1, StatusCommit DEF OutagesKnown
  <2>3. db[file].status \in BatchStatuses /\ db[file] \in FileRow
    <3>1. PICK t \in content[file].types : BatchRun(t)
      BY <2>1, BatchStarts
    <3>2. db[file].status \notin WrongStatuses
      BY <2>1 DEF AlreadyValidated
    <3> QED BY <2>1, <3>1, <3>2, RunHasRow DEF BatchRun, StoredFits
  <2>4. db'[file].status \in BusyStatuses
    BY <2>2, <2>3 DEF validate, FileRow, BusyStatuses
  <2>5. cur' = cur /\ UNCHANGED <<file, commands>>
    BY <2>1 DEF Continue
  <2> QED BY <2>1, <2>2, <2>3, <2>4, <2>5, StepLeavesCounts
<1>3. CASE validate_data_sorts_rows
  <2>1. /\ cur # NoMsg /\ cur.msg = "ValidateDataCommand" /\ cur \in Message
        /\ UNCHANGED <<db, entities, mishaps>>
    BY <1>0, <1>3 DEF validate_data_sorts_rows, Handling, TypeOK, ThreadOK, tables
  <2>2. OnlyThisFile /\ SameCounts /\ OutagesKnown
    BY <2>1, UnchangedCounts DEF OutagesKnown
  <2>3. CASE Reply(<< >>, << Signal("SystemFaultEvent") >>)
    <3>1. AtHand' = Signal("SystemFaultEvent") /\ file' = file
      BY <2>1, <2>3, ReplyHand DEF RunInvariant
    <3>2. ~InBatches'
      BY <1>0, <3>1 DEF InBatches
    <3> QED BY <1>0, <2>1, <2>2, <2>3, <3>1, <3>2, ReplyLeavesCounts
  <2>4. CASE /\ cur' = [cur EXCEPT !.numbered = FALSE]
             /\ UNCHANGED <<file, attempt, commands, events>>
    <3>1. /\ cur'.msg = cur.msg /\ cur' # NoMsg
          /\ cur'.assumed_type = cur.assumed_type /\ cur'.batch_number = cur.batch_number
      BY <1>0, <2>1, <2>4, NumberedField
    <3>2. AtHand = cur
      BY <2>1 DEF AtHand
    <3> QED BY <2>1, <2>2, <2>4, <3>1, <3>2, StepLeavesCounts DEF InBatches
  <2> QED BY <1>3, <2>3, <2>4 DEF validate_data_sorts_rows
<1>4. CASE validate_data_detects_drift \/ handle_pydantic_failure
  <2>1. PICK m \in {Signal("PydanticAuditFailed"), Signal("SchemaDriftDetected")} :
          /\ cur # NoMsg /\ cur.msg \in {"ValidateDataCommand", "PydanticAuditFailed"}
          /\ Commit(finish(db[file])) /\ Reply(<< >>, << m >>)
          /\ UNCHANGED <<entities, mishaps>>
    BY <1>0, <1>4 DEF validate_data_detects_drift, handle_pydantic_failure, Handling
  <2>2. OnlyThisFile /\ SameCounts /\ OutagesKnown /\ db'[file] = finish(db[file])
    BY <2>1, StatusCommit DEF OutagesKnown
  <2>3. db'[file].status = "FINISHING" /\ file' = file
    BY <2>1, <2>2, RunHasRow DEF finish, FileRow, Reply
  <2>4. ~InBatches' /\ "FINISHING" \in BusyStatuses
    BY <2>3 DEF InBatches, BatchStatuses, BusyStatuses
  <2>5. m.msg \notin {"AuditCSVCommand", "PandasAuditFailed"}
    BY <2>1 DEF Signal
  <2> QED BY <2>1, <2>2, <2>3, <2>4, <2>5, ReplyLeavesCounts
<1> QED BY <1>1, <1>2, <1>3, <1>4

LEMMA PersistenceSkipsAddUp ==
  ASSUME TypeOK, RunInvariant, SumsInvariant, UNCHANGED content,
         \/ persist_to_database_skips \/ persist_to_database_aborts
         \/ check_file_completion_counts \/ check_file_completion
  PROVE  SumsInvariant'
<1>1. PICK e : /\ cur # NoMsg /\ cur.msg \in {"SaveValidatedDataCommand", "BatchProcessed"}
               /\ Reply(<< >>, e) /\ UNCHANGED <<entities, mishaps>>
               /\ \/ e = << >>
                  \/ e = << Signal("FileProcessingAborted") >>
                  \/ e = << Signal("FileSuccessfullyProcessed") >>
               /\ \/ UNCHANGED db
                  \/ Commit([db[file] EXCEPT !.completed_batches = CountedBatches])
  BY DEF persist_to_database_skips, persist_to_database_aborts, check_file_completion_counts,
         check_file_completion, Handling, NoMsg, tables
<1>2. OnlyThisFile /\ SameCounts /\ OutagesKnown /\ db'[file].status = db[file].status
  <2>1. CASE UNCHANGED db
    BY <1>1, <2>1, UnchangedCounts DEF OutagesKnown
  <2>2. CASE Commit([db[file] EXCEPT !.completed_batches = CountedBatches])
    BY <1>1, <2>2, StatusCommit, RunHasRow DEF OutagesKnown, FileRow
  <2> QED BY <1>1, <2>1, <2>2
<1>3. \A name : Signal(name).msg = name
  BY DEF Signal
<1>4. file' = file
  BY <1>1 DEF Reply
<1> QED BY <1>1, <1>2, <1>3, <1>4, ReplyLeavesCounts DEF InBatches

LEMMA FinishingSkipsAddUp ==
  ASSUME TypeOK, RunInvariant, SumsInvariant, UNCHANGED content,
         \/ file_completed_moves \/ failed_file_moves \/ clean_up \/ move_finds_no_file
         \/ handle_system_fault
  PROVE  SumsInvariant'
<1>1. CASE file_completed_moves \/ failed_file_moves
  <2>1. /\ cur # NoMsg /\ cur.msg \in FinishingMessages
        /\ Continue(2) /\ UNCHANGED <<db, entities, mishaps>>
    BY <1>1 DEF file_completed_moves, failed_file_moves, Handling, NoMsg, tables,
       FinishingMessages, FailureDirectory
  <2>2. OnlyThisFile /\ SameCounts /\ OutagesKnown
    BY <2>1, UnchangedCounts DEF OutagesKnown
  <2> QED BY <2>1, <2>2, StepLeavesCounts
          DEF Continue, InBatches, BatchCommands, FinishingMessages
<1>2. CASE clean_up
  <2>1. /\ cur # NoMsg /\ cur.msg \in DOMAIN FailureDirectory
        /\ Continue(3) /\ UNCHANGED <<db, mishaps>>
        /\ entities' = [entities EXCEPT ![file] = {}]
    BY <1>2 DEF clean_up, NoMsg, FailureDirectory
  <2>2. entities[file] = {}
    BY <2>1, RunCases DEF FailureFits
  <2>3. entities' = entities
    BY <2>1, <2>2, RunHasRow DEF TypeOK, TablesOK
  <2>4. OnlyThisFile /\ SameCounts /\ OutagesKnown
    BY <2>1, <2>3, UnchangedCounts DEF OutagesKnown
  <2> QED BY <2>1, <2>3, <2>4, StepLeavesCounts
          DEF Continue, InBatches, BatchCommands, FailureDirectory
<1>3. CASE move_finds_no_file
  <2>1. /\ cur # NoMsg /\ cur.msg \in FinishingMessages
        /\ Reply(<< >>, << >>) /\ UNCHANGED <<db, entities, mishaps>>
    BY <1>3 DEF move_finds_no_file, NoMsg, tables, FinishingMessages, FailureDirectory
  <2>2. OnlyThisFile /\ SameCounts /\ OutagesKnown
    BY <2>1, UnchangedCounts DEF OutagesKnown
  <2>3. cur.msg \notin {"SystemFaultEvent", "ValidateDataCommand"}
    BY <2>1 DEF FinishingMessages, FailureDirectory
  <2>4. InBatches' => db[file].status \in BatchStatuses
    BY <2>1 DEF Reply, InBatches
  <2> QED BY <2>1, <2>2, <2>3, <2>4, ReplyLeavesCounts
<1>4. CASE handle_system_fault
  BY <1>4, EndAddsUp DEF handle_system_fault, ReplyAndPurge, Idle, tables, OutagesKnown
<1> QED BY <1>1, <1>2, <1>3, <1>4

LEMMA FaultsAddUp ==
  ASSUME TypeOK, RunInvariant, SumsInvariant, UNCHANGED content,
         operational_error \/ unhandled_error \/ crash
  PROVE  SumsInvariant'
<1> USE BoundsAssumption
<1>0. NoMsg.msg = "NoMsg" /\ Signal("SystemFaultEvent").msg = "SystemFaultEvent"
  BY DEF NoMsg, Signal
<1>1. UNCHANGED <<db, entities>>
  BY DEF operational_error, unhandled_error, crash, tables
<1>2. OutagesKnown
  <2>1. mishaps.outages > 0 => mishaps'.outages > 0
    BY MishapCounts DEF operational_error, unhandled_error, crash
  <2>2. mishaps.outages \in Nat
    BY DEF TypeOK, TablesOK
  <2> QED BY <2>1, <2>2 DEF OutagesKnown
<1>3. OnlyThisFile /\ SameCounts
  BY <1>1, UnchangedCounts
<1>4. ASSUME cur # NoMsg, cur.msg # "SystemFaultEvent",
             Reply(<< >>, << Signal("SystemFaultEvent") >>)
      PROVE  SumsInvariant'
  <2>1. AtHand' = Signal("SystemFaultEvent") /\ file' = file
    BY <1>4, ReplyHand DEF RunInvariant
  <2>2. ~InBatches'
    BY <1>0, <2>1 DEF InBatches
  <2> QED BY <1>0, <1>1, <1>2, <1>3, <1>4, <2>1, <2>2, ReplyLeavesCounts
<1>5. CASE operational_error
  <2>1. cur # NoMsg /\ cur.msg # "SystemFaultEvent" /\ Again
    BY <1>0, <1>5 DEF operational_error, InTransaction, FailureDirectory
  <2>2. CASE attempt < max_retries
    <3>1. step' = 1 /\ UNCHANGED <<file, cur, commands, events>>
      BY <2>1, <2>2 DEF Again
    <3>2. AtHand = cur
      BY <2>1 DEF AtHand
    <3> QED BY <1>1, <1>2, <1>3, <2>1, <3>1, <3>2, StepLeavesCounts DEF InBatches
  <2> QED BY <1>4, <2>1, <2>2 DEF Again
<1>6. CASE unhandled_error
  <2>1. cur # NoMsg
    BY <1>6 DEF unhandled_error
  <2>2. CASE cur.msg \in CommandNames
    BY <1>4, <1>6, <2>1, <2>2 DEF unhandled_error, CommandNames
  <2>3. CASE cur.msg = "SystemFaultEvent"
    <3>1. ReplyAndPurge
      BY <1>6, <2>3 DEF unhandled_error, CommandNames
    <3> QED BY <1>1, <1>2, <3>1, EndAddsUp DEF ReplyAndPurge, Idle
  <2>4. CASE cur.msg \notin CommandNames \cup {"SystemFaultEvent"}
    <3>1. Reply(<< >>, << >>)
      BY <1>6, <2>4 DEF unhandled_error
    <3>2. cur.msg # "ValidateDataCommand" /\ file' = file
      BY <2>4, <3>1 DEF CommandNames, Reply
    <3> QED BY <1>1, <1>2, <1>3, <2>1, <2>4, <3>1, <3>2, ReplyLeavesCounts DEF InBatches
  <2> QED BY <2>2, <2>3, <2>4
<1>7. CASE crash
  BY <1>1, <1>2, <1>7, EndAddsUp DEF crash, Idle
<1> QED BY <1>5, <1>6, <1>7

\* A step of another thread.
LEMMA ThreadStays ==
  ASSUME SumsInvariant, UNCHANGED <<content, entities, thread>>, OutagesKnown,
         ~Idle => db'[file] = db[file]
  PROVE  RunAddsUp'
<1> SUFFICES ASSUME ~Idle' PROVE RunAddsUp'
  BY DEF RunAddsUp
<1>1. /\ UNCHANGED <<file, cur, step, commands, events>> /\ ~Idle /\ AtHand' = AtHand
      /\ db'[file] = db[file]
  BY DEF thread, Idle, AtHand
<1>2. AuditSums /\ (InBatches => \E t \in content[file].types : BatchSums(t))
  BY <1>1 DEF SumsInvariant, RunAddsUp
<1>3. AuditSums'
  BY <1>1, <1>2 DEF AuditSums, InAudit, ReadAs, TurnedAway, Exactly, OutagesKnown
<1>4. SameCounts /\ SameAsked
  BY <1>1 DEF SameCounts, SameAsked
<1>5. InBatches' => \E t \in content[file].types : BatchSums(t)'
  BY <1>1, <1>2, <1>4, BatchSumsStay DEF InBatches
<1> QED BY <1>1, <1>3, <1>5 DEF RunAddsUp

LEMMA StagingAddsUp ==
  ASSUME TypeOK, RunInvariant, SumsInvariant, UNCHANGED content,
         NEW f \in Files, file_staged_handler(f) \/ staging_fault(f)
  PROVE  SumsInvariant'
<1>1. UNCHANGED <<entities, thread>> /\ db[f].status = "ABSENT"
  BY DEF file_staged_handler, staging_fault, tables
<1>2. OutagesKnown
  <2>1. mishaps \in [outages : Nat, errors : Nat, crashes : Nat]
    BY BoundsAssumption DEF TypeOK, TablesOK
  <2> QED BY <2>1 DEF OutagesKnown, file_staged_handler, staging_fault
<1>3. /\ \A g \in Files : g # f => db'[g] = db[g]
      /\ \/ db'[f] = db[f]
         \/ \E n : db'[f] = NewFile(n)
  BY DEF file_staged_handler, staging_fault, TypeOK, TablesOK, tables
<1>4. ASSUME NEW g \in Files PROVE FileAddsUp(g)' /\ db'[g].validated_batches = {}
  <2>1. FileAddsUp(g) /\ db[g].validated_batches = {}
    BY DEF SumsInvariant, NoneMarked
  <2>2. CASE db'[g] = db[g]
    BY <1>1, <1>2, <2>1, <2>2 DEF OutagesKnown, FileAddsUp, Unclaimed, Exactly, Processed,
       StoredAs, TurnedAway, RejectCount
  <2>3. CASE \E n : db'[g] = NewFile(n)
    BY <2>3 DEF NewFile, AbsentFile, FileAddsUp, Unclaimed, Exactly, Processed
  <2> QED BY <1>3, <2>2, <2>3
<1>5. ~Idle => db'[file] = db[file]
  <2>1. ~Idle => file \in Files /\ file # f
    BY <1>1 DEF TypeOK, ThreadOK, RunInvariant, RunFits, Unclaimed
  <2> QED BY <1>3, <2>1
<1>6. RunAddsUp'
  BY <1>1, <1>2, <1>5, ThreadStays
<1> QED BY <1>4, <1>6 DEF SumsInvariant, NoneMarked

LEMMA DispatchAddsUp ==
  ASSUME TypeOK, RunInvariant, SumsInvariant, UNCHANGED content,
         NEW f \in Files, dispatch_pending_files(f)
  PROVE  SumsInvariant'
<1>1. /\ Idle /\ db[f].status = "PENDING" /\ file' = f
      /\ UNCHANGED <<entities, cur, events, step>>
      /\ db' = [db EXCEPT ![f] = start_auditing(@)] /\ db[f] \in FileRow /\ OutagesKnown
      /\ \E c : commands' = << c >>
  BY DEF dispatch_pending_files, oldest_pending, TypeOK, TablesOK, OutagesKnown
<1>2. db'[f] = start_auditing(db[f]) /\ \A g \in Files : g # f => db'[g] = db[g]
  BY <1>1 DEF TypeOK, TablesOK
<1>3. CountsKept(db[f], db'[f]) /\ db'[f].status = "AUDITING"
  BY <1>1, <1>2, StatusCounts DEF start_auditing, FileRow
<1>4. /\ FileAddsUp(f) /\ db[f].total_processed_rows = 0 /\ db[f].quarantined_rows = 0
  BY <1>1 DEF SumsInvariant, FileAddsUp, RunInvariant, FilesFit, FileFits, Unclaimed, Untouched
<1>5. FileAddsUp(f)'
  BY <1>1, <1>3, <1>4 DEF FileAddsUp, CountsKept, Unclaimed, Exactly, OutagesKnown, Processed
<1>6. \A g \in Files : g # f => FileAddsUp(g)'
  BY <1>1, <1>2 DEF SumsInvariant, OutagesKnown, FileAddsUp, Unclaimed, Exactly, Processed,
     StoredAs, TurnedAway, RejectCount
<1>7. NoneMarked'
  BY <1>2, <1>3 DEF SumsInvariant, NoneMarked, CountsKept
<1>8. AtHand' = NoMsg /\ NoMsg.msg = "NoMsg"
  BY <1>1 DEF AtHand, Idle, NoMsg
<1>9. AuditSums' /\ ~InBatches'
  BY <1>1, <1>3, <1>4, <1>8 DEF AuditSums, InBatches, CountsKept, BatchStatuses
<1> QED BY <1>5, <1>6, <1>7, <1>9 DEF SumsInvariant, RunAddsUp

LEMMA TailCovers ==
  ASSUME NEW S, NEW s \in Seq(S), s # << >>, NEW j \in DOMAIN s, j # 1
  PROVE  \E i \in DOMAIN Tail(s) : i + 1 = j /\ Tail(s)[i] = s[j]
<1>1. j - 1 \in DOMAIN Tail(s) /\ j - 1 + 1 = j /\ Tail(s)[j - 1] = s[j]
  OBVIOUS
<1> QED BY <1>1

LEMMA NextCommandAddsUp ==
  ASSUME TypeOK, RunInvariant, SumsInvariant, handle_next_command, UNCHANGED content
  PROVE  SumsInvariant'
<1>1. /\ cur = NoMsg /\ events = << >> /\ commands # << >> /\ commands \in Seq(Command)
      /\ cur' = Head(commands) /\ commands' = Tail(commands) /\ events' = << >>
      /\ UNCHANGED <<db, entities, file, step, mishaps>>
  BY DEF handle_next_command, TypeOK, ThreadOK, tables
<1>2. /\ 1 \in DOMAIN commands /\ cur' = commands[1] /\ cur' \in Command
      /\ \A i \in DOMAIN commands' :
           i \in Nat /\ i > 0 /\ i + 1 \in DOMAIN commands /\ commands'[i] = commands[i + 1]
  BY <1>1, TailFields
<1>3. \A j \in DOMAIN commands :
        j = 1 \/ \E i \in DOMAIN commands' : i + 1 = j /\ commands'[i] = commands[j]
  BY <1>1, TailCovers
<1>4. /\ ~Idle /\ file \in Files /\ step = 1 /\ NoMsg.msg = "NoMsg"
  BY <1>1 DEF Idle, TypeOK, ThreadOK, RunInvariant, EventAlone, NoMsg
<1>5. AtHand = NoMsg /\ AtHand' = cur' /\ cur'.msg \in CommandNames
  BY <1>1, <1>2 DEF AtHand, Command, NoMsg, CommandNames
<1>6. OnlyThisFile /\ SameCounts /\ OutagesKnown
  BY <1>1, UnchangedCounts DEF OutagesKnown
<1>7. \A g \in Files : FileAddsUp(g)' /\ db'[g].validated_batches = {}
  BY <1>1, <1>4, <1>6, OthersAddUp, FileStillAddsUp DEF SumsInvariant, NoneMarked
<1>8. AuditSums /\ (InBatches => \E t \in content[file].types : BatchSums(t))
  BY <1>4 DEF SumsInvariant, RunAddsUp
<1>9. AuditSums'
  <2>1. InAudit' => InAudit
    BY <1>2, <1>5 DEF InAudit, CommandNames
  <2> QED BY <1>1, <1>4, <1>8, <2>1 DEF AuditSums
<1>10. ASSUME NEW t, BatchSums(t) PROVE BatchSums(t)'
  <2>1. ReadAs(t)' = ReadAs(t) /\ StoredBatches(t)' = StoredBatches(t)
    BY <1>1 DEF ReadAs, StoredBatches
  <2>2. Passed(t)' = Passed(t)
    <3>1. \A k : /\ \A i \in DOMAIN commands' :
                      commands'[i].msg = "ValidateDataCommand" => commands'[i].batch_number # k
                 /\ cur'.msg = "ValidateDataCommand" => cur'.batch_number # k
            <=> /\ \A i \in DOMAIN commands :
                     commands[i].msg = "ValidateDataCommand" => commands[i].batch_number # k
                /\ cur.msg = "ValidateDataCommand" => cur.batch_number # k
      BY <1>1, <1>2, <1>3, <1>4
    <3> QED BY <2>1, <3>1 DEF Passed
  <2>3. PICK r, U, V : r = ReadAs(t) /\ U = Passed(t) /\ V = StoredBatches(t)
    OBVIOUS
  <2>4. BatchCounts(t)'
    BY <1>1, <1>10, <2>1, <2>2, <2>3, CountsFit DEF BatchSums, BatchCounts, TurnedAway, Exactly
  <2>5. \A i \in DOMAIN commands : \A c : c = commands[i] => BatchCommandFits(c, t)'
    BY <1>10, <2>1 DEF BatchSums, BatchAsks, BatchCommandFits
  <2>6. /\ \A i \in DOMAIN commands' : \A c : c = commands'[i] => BatchCommandFits(c, t)'
        /\ \A c : c = cur' => BatchCommandFits(c, t)'
    BY <1>2, <2>5
  <2>7. AskedOnce'
    <3>1. \A i, j \in DOMAIN commands :
            commands[i].batch_number = commands[j].batch_number => i = j
      BY <1>10 DEF BatchSums, BatchAsks, AskedOnce
    <3>2. \A i, j \in DOMAIN commands' :
            commands'[i].batch_number = commands'[j].batch_number => i = j
      BY <1>2, <3>1
    <3>3. \A i \in DOMAIN commands' : commands'[i].batch_number # cur'.batch_number
      <4>1. \A i \in DOMAIN commands' : i + 1 # 1
        BY <1>2
      <4> QED BY <1>2, <3>1, <4>1
    <3> QED BY <3>2, <3>3 DEF AskedOnce
  <2>8. Exactly(/\ \A i \in DOMAIN commands :
                     <<t, commands[i].batch_number>> \notin entities[file]
                /\ cur.msg \in BatchCommands => <<t, cur.batch_number>> \notin entities[file])
    BY <1>10 DEF BatchSums, BatchAsks
  <2>9. Exactly(/\ \A i \in DOMAIN commands :
                     <<t, commands[i].batch_number>> \notin entities[file]
                /\ cur.msg \in BatchCommands => <<t, cur.batch_number>> \notin entities[file])'
    BY <1>1, <1>2, <2>8 DEF Exactly
  <2>10. entities'[file] \subseteq {t} \X DOMAIN ReadAs(t)'.batches
    BY <1>1, <1>10, <2>1 DEF BatchSums, BatchAsks
  <2>11. /\ \A i \in DOMAIN commands' : BatchCommandFits(commands[i], t)'
         /\ BatchCommandFits(cur, t)'
    BY <2>6 DEF BatchCommandFits
  <2>12. BatchAsks(t)'
    BY <1>1, <2>7, <2>9, <2>10, <2>11 DEF BatchAsks
  <2> QED BY <2>4, <2>12 DEF BatchSums
<1>11. InBatches' => InBatches
  BY <1>1, <1>4, <1>5 DEF InBatches
<1> QED BY <1>1, <1>7, <1>8, <1>9, <1>10, <1>11 DEF SumsInvariant, RunAddsUp, NoneMarked

\* Rows that are counted as turned away count as processed too.
LEMMA QuarantineCounts ==
  ASSUME NEW row \in FileRow, NEW n \in Nat, n > 0
  PROVE  LET new == add_quarantined_row(row, n)
         IN  /\ new.quarantined_rows = row.quarantined_rows + n
             /\ new.total_processed_rows = row.total_processed_rows + n
             /\ new.total_rows = row.total_rows
             /\ new.validated_batches = row.validated_batches
             /\ new.status \in {row.status, "FAILURE_SCHEMA"}
<1> DEFINE counted == [row EXCEPT !.quarantined_rows = @ + n, !.total_processed_rows = @ + n]
<1>1. counted \in FileRow
  <2>1. row.quarantined_rows + n \in Nat /\ row.total_processed_rows + n \in Nat
    BY DEF FileRow
  <2> QED BY <2>1 DEF FileRow
<1>2. /\ counted.quarantined_rows = row.quarantined_rows + n
      /\ counted.total_processed_rows = row.total_processed_rows + n
      /\ counted.total_rows = row.total_rows /\ counted.status = row.status
      /\ counted.validated_batches = row.validated_batches
  BY DEF FileRow
<1>3. RowsCounted(n) = n
  BY DEF RowsCounted
<1>4. add_quarantined_row(row, n) =
        IF OverThreshold(counted.quarantined_rows, counted.total_rows)
        THEN failure_schema(counted) ELSE counted
  BY <1>3 DEF add_quarantined_row
<1> HIDE DEF counted
<1>5. /\ CountsKept(counted, failure_schema(counted))
      /\ failure_schema(counted).status = "FAILURE_SCHEMA"
  BY <1>1, StatusCounts, StatusMethods DEF OnlyStatus
<1> QED BY <1>2, <1>4, <1>5 DEF CountsKept

LEMMA AuditCountsAddUp ==
  ASSUME TypeOK, RunInvariant, SumsInvariant, UNCHANGED content, audit_csv_counts
  PROVE  SumsInvariant'
<1> DEFINE type == cur.assumed_type
           row == [db[file] EXCEPT !.total_rows = ReadAs(type).rows]
           n == ReadAs(type).incomplete
           new == IF n > 0 THEN add_quarantined_row(row, n) ELSE row
<1>1. /\ cur # NoMsg /\ cur.msg = "AuditCSVCommand" /\ step = 2
      /\ Commit(new) /\ Continue(3) /\ UNCHANGED <<entities, mishaps>>
  BY DEF audit_csv_counts, Handling, NoMsg
<1>2. /\ AtHand = cur /\ AtHand' = cur /\ file' = file /\ step' = 3
      /\ commands' = commands /\ ~Idle /\ ~Idle' /\ cur' = cur
  BY <1>1, ContinueHand, RunCases DEF RunInvariant
<1>3. /\ file \in Files /\ db[file] \in FileRow /\ AuditCounts
      /\ type \in content[file].types
  BY <1>1, AuditStarts DEF AuditFits
<1>4. /\ type \in Types /\ n \in Nat /\ ReadAs(type).rows \in Nat
      /\ n <= ReadAs(type).rows
  <2>1. content \in [Files -> Shapes]
    BY DEF TypeOK, TablesOK
  <2>2. type \in Types
    BY <1>3, <2>1, HashesAreRows
  <2>3. PICK r : r = content[file].readings[type]
    OBVIOUS
  <2>4. NumbersFit(r)
    BY <1>3, <2>1, <2>2, <2>3, ReadingNumbers
  <2>5. r.incomplete + 0 + 0 <= r.rows
    <3>1. {} \in SUBSET DOMAIN r.batches
      OBVIOUS
    <3>2. r.incomplete + SumFunctionOnSet(Invalid(r), {}) + SumFunctionOnSet(Valid(r), {})
            <= r.rows
      BY <1>3, <2>1, <2>2, <2>3, <3>1, ReadingSums
    <3> QED BY <3>2, NoBatchSums
  <2>6. r.incomplete \in Nat /\ r.rows \in Nat
    BY <2>4 DEF NumbersFit
  <2> QED BY <2>2, <2>3, <2>5, <2>6 DEF ReadAs
<1>5. /\ row \in FileRow /\ row.quarantined_rows = db[file].quarantined_rows
      /\ row.status = db[file].status /\ row.total_rows = ReadAs(type).rows
      /\ row.total_processed_rows = db[file].total_processed_rows
      /\ row.validated_batches = db[file].validated_batches
  BY <1>3, <1>4 DEF FileRow
<1>6. /\ new.quarantined_rows = db[file].quarantined_rows + n
      /\ new.total_processed_rows = db[file].total_processed_rows + n
      /\ new.total_rows = ReadAs(type).rows
      /\ new.validated_batches = db[file].validated_batches
      /\ new.status \in {db[file].status, "FAILURE_SCHEMA"}
  <2> HIDE DEF row, n
  <2>1. CASE n > 0
    BY <1>4, <1>5, <2>1, QuarantineCounts
  <2>2. CASE ~(n > 0)
    <3>1. n = 0 /\ db[file].quarantined_rows \in Nat /\ db[file].total_processed_rows \in Nat
      BY <1>3, <1>4, <2>2 DEF FileRow
    <3> QED BY <1>5, <2>2, <3>1
  <2> QED BY <2>1, <2>2
<1> HIDE DEF new
<1>7. db'[file] = new /\ \A g \in Files : g # file => db'[g] = db[g]
  BY <1>1, CommitWrites
<1>8. OnlyThisFile /\ OutagesKnown
  BY <1>1, <1>7 DEF OnlyThisFile, OutagesKnown
<1>9. db[file].total_processed_rows = db[file].quarantined_rows
  BY <1>1, <1>2 DEF SumsInvariant, RunAddsUp, AuditSums, InAudit
<1>10. /\ db[file].quarantined_rows \in Nat
       /\ mishaps.outages = 0 => db[file].quarantined_rows = 0
  <2>1. mishaps.outages \in Nat
    BY BoundsAssumption DEF TypeOK, TablesOK
  <2> QED BY <1>1, <1>2, <1>3, <2>1 DEF AuditCounts, FileRow
<1>11. AuditSums'
  <2>1. ReadAs(type)' = ReadAs(type) /\ AtHand'.assumed_type = type
    BY <1>2 DEF ReadAs
  <2>2. db'[file].quarantined_rows >= n
        /\ (mishaps'.outages = 0 => db'[file].quarantined_rows = n)
    BY <1>1, <1>4, <1>6, <1>7, <1>10
  <2>3. TurnedAway(file, n)'
    BY <1>2, <2>1, <2>2 DEF TurnedAway, Exactly
  <2> QED BY <1>2, <1>6, <1>7, <1>9, <2>1, <2>3 DEF AuditSums
<1>12. db'[file].status \in AuditStatuses \cup {"FAILURE_SCHEMA"}
  BY <1>3, <1>6, <1>7 DEF AuditCounts
<1>13. FileAddsUp(file)'
  <2>1. mishaps'.outages = 0 => db'[file].total_processed_rows <= db'[file].total_rows
    BY <1>1, <1>4, <1>6, <1>7, <1>9, <1>10
  <2> QED BY <1>2, <1>12, <2>1 DEF FileAddsUp, Unclaimed, Exactly, Processed, AuditStatuses
<1>14. ~InBatches'
  BY <1>2, <1>12 DEF InBatches, BatchStatuses, AuditStatuses
<1>15. db'[file].validated_batches = {}
  BY <1>3, <1>6, <1>7 DEF SumsInvariant, NoneMarked
<1>16. RunAddsUp'
  BY <1>11, <1>14 DEF RunAddsUp
<1>17. \A g \in Files : FileAddsUp(g)' /\ db'[g].validated_batches = {}
  BY <1>8, <1>13, <1>15, OthersAddUp, <1>2
<1> QED BY <1>16, <1>17 DEF SumsInvariant, NoneMarked

LEMMA RetryAddsUp ==
  ASSUME TypeOK, RunInvariant, SumsInvariant, UNCHANGED content, attempt_retry
  PROVE  SumsInvariant'
<1>1. /\ cur # NoMsg /\ cur.msg = "PandasAuditFailed" /\ Commit(retry(db[file]))
      /\ UNCHANGED <<entities, mishaps>>
  BY DEF attempt_retry, Handling, NoMsg
<1> PICK type \in NewTypes :
       Reply(<< AuditCSV(type, cur.potential_types \ {cur.assumed_type},
                         cur.attempted_types \cup {cur.assumed_type}) >>, << >>)
  BY DEF attempt_retry
<1> PICK c : /\ c = AuditCSV(type, cur.potential_types \ {cur.assumed_type},
                            cur.attempted_types \cup {cur.assumed_type})
             /\ Reply(<< c >>, << >>)
  OBVIOUS
<1>2. AtHand = cur /\ AtHand' = NoMsg /\ NoMsg.msg = "NoMsg" /\ file' = file /\ ~Idle
      /\ file \in Files
  BY <1>1, RunCases, ReplyHand DEF NoMsg, RunInvariant
<1>3. OnlyThisFile /\ SameCounts /\ OutagesKnown /\ db'[file] = retry(db[file])
  BY <1>1, StatusCommit DEF OutagesKnown
<1>4. db'[file].status = "RETRYING"
  BY <1>1, <1>3, RunHasRow DEF retry, FileRow
<1>5. db[file].total_processed_rows = db[file].quarantined_rows
  BY <1>1, <1>2 DEF SumsInvariant, RunAddsUp, AuditSums, InAudit
<1>6. AuditSums' /\ ~InBatches'
  BY <1>2, <1>3, <1>4, <1>5 DEF AuditSums, InBatches, SameCounts, BatchStatuses
<1>7. FileAddsUp(file)' /\ db'[file].validated_batches = {}
  BY <1>1, <1>2, <1>3, <1>4, FileStillAddsUp
     DEF BusyStatuses, SameCounts, SumsInvariant, NoneMarked
<1> QED BY <1>2, <1>3, <1>6, <1>7, OthersAddUp DEF SumsInvariant, RunAddsUp, NoneMarked

LEMMA AuditChunksAddUp ==
  ASSUME TypeOK, RunInvariant, SumsInvariant, UNCHANGED content, audit_csv_chunks
  PROVE  SumsInvariant'
<1>1. /\ cur # NoMsg /\ cur.msg = "AuditCSVCommand" /\ step = 3
      /\ UNCHANGED <<entities, mishaps>>
  BY DEF audit_csv_chunks, Handling, NoMsg
<1>2. PICK t \in content[file].types : t = cur.assumed_type
  BY <1>1, AuditStarts DEF AuditFits
<1> DEFINE batches == DOMAIN ReadAs(t).batches
           row == [db[file] EXCEPT !.expected_batches = @ \cup batches]
           queued == [k \in batches |-> ValidateData(t, k)]
<1>3. Commit(validate(row)) /\ Reply(queued, << >>)
  BY <1>1, <1>2 DEF audit_csv_chunks
<1>4. /\ AtHand = cur /\ AtHand' = NoMsg /\ cur' = NoMsg /\ file' = file /\ ~Idle
      /\ commands' = << >> \o queued /\ NoMsg.msg = "NoMsg"
  BY <1>1, <1>3, AuditStarts, ReplyHand DEF NoMsg, Reply
<1>5. file \in Files /\ db[file] \in FileRow /\ entities[file] = {} /\ t \in Types
  BY <1>1, AuditStarts, HashesAreRows DEF TypeOK, TablesOK
<1>6. commands' = queued /\ batches \in SUBSET Nat
  <2>1. ReadAs(t).batches \in Seq(Batch)
    BY <1>5, ReadingFields DEF TypeOK, TablesOK
  <2>2. PICK n \in Nat : batches = 1..n
    BY <2>1
  <2> HIDE DEF batches
  <2>3. queued \in Seq({ValidateData(t, k) : k \in batches})
    BY <2>2
  <2> QED BY <1>4, <2>2, <2>3
<1>7. /\ row \in FileRow
      /\ row.total_rows = db[file].total_rows
      /\ row.quarantined_rows = db[file].quarantined_rows
      /\ row.total_processed_rows = db[file].total_processed_rows
      /\ row.validated_batches = db[file].validated_batches
  <2> HIDE DEF batches
  <2> QED BY <1>5, <1>6 DEF FileRow
<1> HIDE DEF row
<1>8. /\ CountsKept(row, validate(row)) /\ validate(row).status = "VALIDATING"
  BY <1>7, StatusCounts, StatusMethods DEF OnlyStatus
<1>9. db'[file] = validate(row) /\ \A g \in Files : g # file => db'[g] = db[g]
  BY <1>1, <1>3, CommitWrites
<1>10. OnlyThisFile /\ SameCounts /\ OutagesKnown /\ db'[file].status = "VALIDATING"
  BY <1>1, <1>7, <1>8, <1>9 DEF OnlyThisFile, SameCounts, OutagesKnown, CountsKept
<1>11. /\ db[file].total_rows = ReadAs(t).rows /\ TurnedAway(file, ReadAs(t).incomplete)
       /\ db[file].total_processed_rows = db[file].quarantined_rows
  BY <1>1, <1>2, <1>4 DEF SumsInvariant, RunAddsUp, AuditSums, InAudit
<1>12. /\ DOMAIN commands' = batches
       /\ \A i \in batches : /\ commands'[i].msg = "ValidateDataCommand"
                             /\ commands'[i].assumed_type = t
                             /\ commands'[i].batch_number = i
  BY <1>6 DEF ValidateData
<1>13. ReadAs(t)' = ReadAs(t)
  BY <1>4 DEF ReadAs
<1>14. Passed(t)' = {} /\ StoredBatches(t)' = {}
  BY <1>1, <1>4, <1>5, <1>12, <1>13 DEF Passed, StoredBatches
<1>15. BatchCounts(t)'
  <2>1. PICK r : r = ReadAs(t)
    OBVIOUS
  <2>2. r.incomplete \in Nat /\ db[file].quarantined_rows \in Nat
    BY <1>5, <2>1, ReadingFields DEF TypeOK, TablesOK, FileRow
  <2>3. SumFunctionOnSet(Invalid(r), {}) = 0 /\ SumFunctionOnSet(Valid(r), {}) = 0
    BY NoBatchSums
  <2>4. /\ db'[file].total_rows = r.rows
        /\ db'[file].quarantined_rows >= r.incomplete + SumFunctionOnSet(Invalid(r), {})
        /\ mishaps'.outages = 0 =>
             /\ db'[file].quarantined_rows = r.incomplete + SumFunctionOnSet(Invalid(r), {})
             /\ db'[file].total_processed_rows =
                  db'[file].quarantined_rows + SumFunctionOnSet(Valid(r), {})
    BY <1>1, <1>10, <1>11, <2>1, <2>2, <2>3 DEF SameCounts, TurnedAway, Exactly
  <2> QED BY <1>4, <1>13, <1>14, <2>1, <2>4, CountsFit
<1>16. BatchAsks(t)'
  <2>1. \A i \in DOMAIN commands' : BatchCommandFits(commands[i], t)'
    BY <1>12 DEF BatchCommandFits, BatchCommands
  <2>2. AskedOnce'
    BY <1>4, <1>12 DEF AskedOnce, BatchCommands
  <2> QED BY <1>1, <1>4, <1>5, <2>1, <2>2 DEF BatchAsks, BatchCommands, Exactly
<1>17. AuditSums'
  BY <1>4, <1>12 DEF AuditSums, InAudit
<1>18. RunAddsUp'
  BY <1>2, <1>4, <1>15, <1>16, <1>17 DEF RunAddsUp, BatchSums
<1>19. FileAddsUp(file)' /\ db'[file].validated_batches = {}
  BY <1>1, <1>4, <1>5, <1>10, FileStillAddsUp
     DEF BusyStatuses, SameCounts, SumsInvariant, NoneMarked
<1>20. \A g \in Files : FileAddsUp(g)' /\ db'[g].validated_batches = {}
  BY <1>4, <1>10, <1>19, OthersAddUp
<1> QED BY <1>18, <1>20 DEF SumsInvariant, NoneMarked

LEMMA Appended ==
  ASSUME NEW S, NEW s \in Seq(S), NEW c
  PROVE  /\ \A i \in DOMAIN (s \o << c >>) :
              \/ i \in DOMAIN s /\ (s \o << c >>)[i] = s[i]
              \/ i = Len(s) + 1 /\ i \notin DOMAIN s /\ (s \o << c >>)[i] = c
         /\ \A i \in DOMAIN s : i \in DOMAIN (s \o << c >>) /\ (s \o << c >>)[i] = s[i]
OBVIOUS

\* The queue behind a command of a batch: its event is next, and another command for the
\* same batch may have joined the queue.
QueueBehind(c) ==
  /\ \A i \in DOMAIN commands' :
       \/ i \in DOMAIN commands /\ commands'[i] = commands[i]
       \/ i = Len(commands) + 1 /\ i \notin DOMAIN commands /\ commands'[i] = c
  /\ \A i \in DOMAIN commands : i \in DOMAIN commands' /\ commands'[i] = commands[i]

LEMMA QueueGrows ==
  ASSUME TypeOK, NEW c, commands' = commands \/ commands' = commands \o << c >>
  PROVE  QueueBehind(c)
<1>1. commands \in Seq(Command)
  BY DEF TypeOK, ThreadOK
<1>2. CASE commands' = commands
  BY <1>2 DEF QueueBehind
<1>3. CASE commands' = commands \o << c >>
  BY <1>1, <1>3, Appended DEF QueueBehind
<1> QED BY <1>2, <1>3

\* The run is in its batches, all of the type of the command at hand.
LEMMA BatchOfRun ==
  ASSUME TypeOK, RunInvariant, SumsInvariant, cur # NoMsg, cur.msg \in BatchCommands,
         db[file].status \in BatchStatuses
  PROVE  /\ AtHand = cur /\ ~Idle /\ file \in Files /\ db[file] \in FileRow
         /\ cur.assumed_type \in content[file].types /\ cur.assumed_type \in Types
         /\ BatchSums(cur.assumed_type)
         /\ BatchRun(cur.assumed_type)
         /\ cur.batch_number \in DOMAIN ReadAs(cur.assumed_type).batches
<1>1. AtHand = cur /\ ~Idle /\ file \in Files /\ db[file] \in FileRow
  BY RunCases, RunHasRow
<1>2. cur.msg \in BatchMessages
  BY DEF BatchCommands, BatchMessages
<1>3. InBatches
  BY <1>1 DEF InBatches, BatchCommands
<1>4. PICK t \in content[file].types : BatchSums(t)
  BY <1>1, <1>3 DEF SumsInvariant, RunAddsUp
<1>5. t = cur.assumed_type
  BY <1>4 DEF BatchSums, BatchAsks, BatchCommandFits
<1>6. PICK u \in content[file].types : BatchRun(u)
  BY <1>2, BatchStarts
<1>7. u = cur.assumed_type
  BY <1>1, <1>6 DEF BatchRun, HandFits, BatchCommands
<1>8. cur.batch_number \in DOMAIN ReadAs(cur.assumed_type).batches
  BY DEF TypeOK, ThreadOK, CommandFits, BatchCommands
<1>9. t \in Types
  BY <1>1, <1>4, HashesAreRows DEF TypeOK, TablesOK
<1> QED BY <1>1, <1>4, <1>5, <1>6, <1>7, <1>8, <1>9

LEMMA ValidateAddsUp ==
  ASSUME TypeOK, RunInvariant, SumsInvariant, UNCHANGED content, validate_data
  PROVE  SumsInvariant'
<1>1. /\ cur # NoMsg /\ cur.msg = "ValidateDataCommand" /\ cur.msg \in BatchCommands /\ step = 3
      /\ cur.msg \in BatchMessages /\ UNCHANGED <<entities, mishaps>>
  BY DEF validate_data, Handling, NoMsg, BatchCommands, BatchMessages
<1>2. PICK t, k : t = cur.assumed_type /\ k = cur.batch_number
  OBVIOUS
<1>3. db[file].status = "VALIDATING"
  <2>1. PICK u \in content[file].types : BatchRun(u)
    BY <1>1, BatchStarts
  <2>2. AtHand = cur
    BY <1>1, BatchStarts
  <2> QED BY <1>1, <2>1, <2>2 DEF BatchRun, HandFits
<1>4. /\ AtHand = cur /\ ~Idle /\ file \in Files /\ db[file] \in FileRow
      /\ t \in content[file].types /\ t \in Types /\ BatchSums(t)
      /\ k \in DOMAIN ReadAs(t).batches
  BY <1>1, <1>2, <1>3, BatchOfRun DEF BatchStatuses
<1>5. PICK r, U, V : r = ReadAs(t) /\ U = Passed(t) /\ V = StoredBatches(t)
  OBVIOUS
<1>6. PICK n, v : n = r.batches[k].invalid /\ v = r.batches[k].valid
  OBVIOUS
<1>7. PICK c, e :
        /\ c = [msg |-> "SaveValidatedDataCommand", assumed_type |-> cur.assumed_type,
                batch_number |-> cur.batch_number]
        /\ e = [msg |-> "BatchValidated", batch_number |-> cur.batch_number]
  OBVIOUS
<1>8. BatchInHand.invalid = n /\ BatchInHand.valid = v
  BY <1>2, <1>5, <1>6 DEF BatchInHand
<1>9. \/ n > 0 /\ Commit(add_quarantined_row(db[file], n))
      \/ ~(n > 0) /\ UNCHANGED db
  BY <1>8 DEF validate_data
<1>10. /\ e.msg = "BatchValidated"
       /\ (v > 0 /\ Reply(<< c >>, << e >>)) \/ (~(v > 0) /\ Reply(<< >>, << e >>))
  <2>1. Reply(IF v > 0 THEN << c >> ELSE << >>, << e >>)
    BY <1>7, <1>8 DEF validate_data
  <2> QED BY <1>7, <2>1
<1>11. /\ cur' = NoMsg /\ AtHand' = e /\ file' = file
       /\ \/ v > 0 /\ commands' = commands \o << c >>
          \/ commands' = commands
  <2>1. commands \o << >> = commands
    BY DEF TypeOK, ThreadOK
  <2> QED BY <1>1, <1>10, <2>1, ReplyHand DEF RunInvariant, Reply
<1>12. QueueBehind(c) /\ (commands' # commands => v > 0)
  BY <1>11, QueueGrows
<1>13. NumbersFit(r)
  BY <1>4, <1>5, ReadingNumbers DEF ReadAs, TypeOK, TablesOK
<1>14. n \in Nat /\ v \in Nat /\ r.incomplete \in Nat
  BY <1>4, <1>5, <1>6, <1>13 DEF NumbersFit
<1>15. /\ db'[file].quarantined_rows = db[file].quarantined_rows + n
       /\ db'[file].total_processed_rows = db[file].total_processed_rows + n
       /\ db'[file].total_rows = db[file].total_rows
       /\ db'[file].validated_batches = db[file].validated_batches
       /\ db'[file].status \in {"VALIDATING", "FAILURE_SCHEMA"}
       /\ \A g \in Files : g # file => db'[g] = db[g]
  <2>1. CASE n > 0
    BY <1>1, <1>3, <1>4, <1>9, <1>14, <2>1, QuarantineCounts, CommitWrites
  <2>2. CASE ~(n > 0)
    <3>1. /\ n = 0 /\ db' = db
          /\ db[file].quarantined_rows \in Nat /\ db[file].total_processed_rows \in Nat
      BY <1>4, <1>9, <1>14, <2>2 DEF FileRow
    <3> QED BY <1>3, <3>1
  <2> QED BY <2>1, <2>2
<1>16. OnlyThisFile /\ OutagesKnown /\ NoMsg.msg = "NoMsg"
  BY <1>1, <1>15 DEF OnlyThisFile, OutagesKnown, NoMsg
<1>17. ReadAs(t)' = r /\ StoredBatches(t)' = V
  BY <1>1, <1>5, <1>11 DEF ReadAs, StoredBatches
<1>18. \A i \in DOMAIN commands : commands[i].batch_number # k
  BY <1>1, <1>2, <1>4 DEF BatchSums, BatchAsks, AskedOnce
<1>19. c.msg = "SaveValidatedDataCommand" /\ c.assumed_type = t /\ c.batch_number = k
  BY <1>2, <1>7
<1>20. Passed(t)' = U \cup {k} /\ k \notin U
  <2>1. k \notin U
    BY <1>1, <1>2, <1>5 DEF Passed
  <2>2. ASSUME NEW j \in DOMAIN r.batches
        PROVE  (\A i \in DOMAIN commands' :
                  commands'[i].msg = "ValidateDataCommand" => commands'[i].batch_number # j)
                <=> j \in U \cup {k}
    <3>1. (\A i \in DOMAIN commands' :
             commands'[i].msg = "ValidateDataCommand" => commands'[i].batch_number # j)
          <=> (\A i \in DOMAIN commands :
                 commands[i].msg = "ValidateDataCommand" => commands[i].batch_number # j)
      BY <1>12, <1>19 DEF QueueBehind
    <3>2. j \in U <=> /\ \A i \in DOMAIN commands : commands[i].msg = "ValidateDataCommand" =>
                                                     commands[i].batch_number # j
                      /\ k # j
      BY <1>1, <1>2, <1>5 DEF Passed
    <3> QED BY <1>18, <3>1, <3>2
  <2>3. U \cup {k} \subseteq DOMAIN r.batches
    BY <1>4, <1>5 DEF Passed
  <2> QED BY <1>11, <1>16, <1>17, <2>1, <2>2, <2>3 DEF Passed
<1>21. /\ SumFunctionOnSet(Invalid(r), U \cup {k}) = SumFunctionOnSet(Invalid(r), U) + n
       /\ SumFunctionOnSet(Invalid(r), U) \in Nat /\ SumFunctionOnSet(Valid(r), V) \in Nat
       /\ r.incomplete + SumFunctionOnSet(Invalid(r), U \cup {k}) + SumFunctionOnSet(Valid(r), V)
            <= r.rows
  <2>1. /\ content \in [Files -> Shapes] /\ r = content[file].readings[t]
        /\ U \in SUBSET DOMAIN r.batches /\ V \in SUBSET DOMAIN r.batches
        /\ k \in DOMAIN r.batches /\ U \cup {k} \in SUBSET DOMAIN r.batches
    BY <1>4, <1>5 DEF TypeOK, TablesOK, ReadAs, Passed, StoredBatches
  <2>2. SumFunctionOnSet(Invalid(r), U \cup {k})
          = SumFunctionOnSet(Invalid(r), U) + r.batches[k].invalid
    <3>1. k \notin U /\ file \in Files /\ t \in Types
      BY <1>4, <1>20
    <3> QED BY <2>1, <3>1, ReadingSumsAdd
  <2>3. SumFunctionOnSet(Invalid(r), U) \in Nat /\ SumFunctionOnSet(Valid(r), V) \in Nat
    BY <1>4, <2>1, ReadingSums
  <2>4. r.incomplete + SumFunctionOnSet(Invalid(r), U \cup {k}) + SumFunctionOnSet(Valid(r), V)
            <= r.rows
    BY <1>4, <2>1, ReadingSums
  <2> QED BY <1>6, <2>2, <2>3, <2>4
<1>22. /\ db[file].total_rows = r.rows
       /\ db[file].quarantined_rows >= r.incomplete + SumFunctionOnSet(Invalid(r), U)
       /\ mishaps.outages = 0 =>
            /\ db[file].quarantined_rows = r.incomplete + SumFunctionOnSet(Invalid(r), U)
            /\ db[file].total_processed_rows =
                 db[file].quarantined_rows + SumFunctionOnSet(Valid(r), V)
       /\ db[file].quarantined_rows \in Nat
  BY <1>4, <1>5 DEF BatchSums, BatchCounts, TurnedAway, Exactly, FileRow
<1>23. BatchCounts(t)'
  <2>1. /\ db'[file].total_rows = r.rows
        /\ db'[file].quarantined_rows >= r.incomplete + SumFunctionOnSet(Invalid(r), U \cup {k})
        /\ mishaps'.outages = 0 =>
             /\ db'[file].quarantined_rows =
                  r.incomplete + SumFunctionOnSet(Invalid(r), U \cup {k})
             /\ db'[file].total_processed_rows =
                  db'[file].quarantined_rows + SumFunctionOnSet(Valid(r), V)
    BY <1>1, <1>14, <1>15, <1>21, <1>22
  <2> QED BY <1>11, <1>17, <1>20, <2>1, CountsFit
<1>24. FileAddsUp(file)'
  <2>1. mishaps'.outages = 0 => db'[file].total_processed_rows <= db'[file].total_rows
    BY <1>1, <1>14, <1>15, <1>21, <1>22
  <2> QED BY <1>11, <1>15, <2>1 DEF FileAddsUp, Unclaimed, Exactly, Processed
<1>25. BatchAsks(t)'
  <2>1. /\ BatchAsks(t) /\ ReadAs(t) = r
    BY <1>4, <1>5 DEF BatchSums
  <2>2. v > 0 => BatchCommandFits(c, t)'
    BY <1>6, <1>17, <1>19 DEF BatchCommandFits, BatchCommands
  <2>3. \A i \in DOMAIN commands : \A d : d = commands[i] => BatchCommandFits(d, t)'
    BY <1>17, <2>1 DEF BatchAsks, BatchCommandFits
  <2>4. \A i \in DOMAIN commands' : \A d : d = commands'[i] => BatchCommandFits(d, t)'
    <3>1. CASE commands' = commands
      BY <2>3, <3>1
    <3>2. CASE commands' # commands
      BY <1>12, <2>2, <2>3, <3>2 DEF QueueBehind
    <3> QED BY <3>1, <3>2
  <2>5. \A i \in DOMAIN commands' : BatchCommandFits(commands[i], t)'
    BY <2>4 DEF BatchCommandFits
  <2>6. AskedOnce'
    <3>1. \A i, j \in DOMAIN commands :
            commands[i].batch_number = commands[j].batch_number => i = j
      BY <2>1 DEF BatchAsks, AskedOnce
    <3>2. \A i, j \in DOMAIN commands' :
            commands'[i].batch_number = commands'[j].batch_number => i = j
      BY <1>12, <1>18, <1>19, <3>1 DEF QueueBehind
    <3> QED BY <1>11, <1>16, <3>2 DEF AskedOnce, BatchCommands
  <2>7. /\ mishaps'.outages = 0 => \A i \in DOMAIN commands' :
                                     <<t, commands'[i].batch_number>> \notin entities'[file]
        /\ entities'[file] \subseteq {t} \X DOMAIN r.batches
    BY <1>1, <1>2, <1>12, <1>19, <2>1 DEF BatchAsks, Exactly, QueueBehind
  <2> QED BY <1>11, <1>16, <1>17, <2>5, <2>6, <2>7 DEF BatchAsks, Exactly, BatchCommands
<1>26. AuditSums'
  <2>1. \A i \in DOMAIN commands : commands[i].msg \in BatchCommands
    BY <1>4 DEF BatchSums, BatchAsks, BatchCommandFits
  <2>2. \A i \in DOMAIN commands' : commands'[i].msg \in BatchCommands
    BY <1>12, <1>19, <2>1 DEF QueueBehind, BatchCommands
  <2> QED BY <1>10, <1>11, <2>2 DEF AuditSums, InAudit, BatchCommands
<1>27. RunAddsUp'
  BY <1>4, <1>11, <1>23, <1>25, <1>26 DEF RunAddsUp, BatchSums
<1>28. \A g \in Files : FileAddsUp(g)' /\ db'[g].validated_batches = {}
  BY <1>4, <1>11, <1>15, <1>16, <1>24, OthersAddUp DEF SumsInvariant, NoneMarked
<1> QED BY <1>27, <1>28 DEF SumsInvariant, NoneMarked

\* What the transaction of a batch does to the counts of the run.
LEMMA BatchIsCounted ==
  ASSUME TypeOK, RunInvariant, SumsInvariant, UNCHANGED content,
         cur.msg = "SaveValidatedDataCommand", ~AlreadyPersisted, BatchIsCommitted,
         NEW t, t = cur.assumed_type, NEW k, k = cur.batch_number,
         NEW r, r = ReadAs(t)
  PROVE  /\ file \in Files /\ db[file] \in FileRow /\ t \in content[file].types /\ t \in Types
         /\ BatchSums(t) /\ k \in DOMAIN r.batches /\ ~Idle
         /\ r.batches[k].valid \in Nat
         /\ db'[file].total_processed_rows = db[file].total_processed_rows + r.batches[k].valid
         /\ db'[file].quarantined_rows = db[file].quarantined_rows
         /\ db'[file].total_rows = db[file].total_rows
         /\ db'[file].validated_batches = db[file].validated_batches
         /\ db'[file].status = "PERSISTING"
         /\ entities'[file] = entities[file] \cup {<<t, k>>}
         /\ OnlyThisFile
<1>1. cur # NoMsg /\ cur.msg \in BatchMessages /\ cur.msg \in BatchCommands
  BY DEF NoMsg, BatchMessages, BatchCommands
<1>2. db[file].status \in BatchStatuses
  <2>1. PICK u \in content[file].types : BatchRun(u)
    BY <1>1, BatchStarts
  <2> QED BY <2>1 DEF BatchRun, StoredFits, AlreadyPersisted
<1>3. /\ file \in Files /\ db[file] \in FileRow /\ t \in content[file].types /\ t \in Types
      /\ BatchSums(t) /\ k \in DOMAIN r.batches /\ ~Idle
  BY <1>1, <1>2, BatchOfRun
<1>4. PICK v : v = r.batches[k].valid
  OBVIOUS
<1>5. v \in Nat
  <2>1. NumbersFit(r)
    BY <1>3, ReadingNumbers DEF ReadAs, TypeOK, TablesOK
  <2> QED BY <1>3, <1>4, <2>1 DEF NumbersFit
<1>6. v > 0
  BY <1>1, <1>3, <1>4 DEF BatchSums, BatchAsks, BatchCommandFits
<1>7. PICK row \in FileRow : row = persist(db[file])
  BY <1>3, RowMethods
<1>8. /\ row.total_processed_rows = db[file].total_processed_rows
      /\ row.quarantined_rows = db[file].quarantined_rows
      /\ row.total_rows = db[file].total_rows
      /\ row.validated_batches = db[file].validated_batches
      /\ row.status = "PERSISTING"
  BY <1>3, <1>7 DEF persist, FileRow
<1>9. BatchInHand.valid = v
  BY <1>4 DEF BatchInHand
<1>10. PICK new : new = process_row_success(row, v)
  OBVIOUS
<1>11. /\ new.total_processed_rows = row.total_processed_rows + v
       /\ new.quarantined_rows = row.quarantined_rows /\ new.total_rows = row.total_rows
       /\ new.validated_batches = row.validated_batches /\ new.status = row.status
  BY <1>6, <1>10 DEF process_row_success, RowsCounted, FileRow
<1>12. Commit(new) /\ entities' = [entities EXCEPT ![file] = @ \cup {<<t, k>>}]
  BY <1>7, <1>9, <1>10 DEF BatchIsCommitted
<1>13. db'[file] = new /\ \A g \in Files : g # file => db'[g] = db[g]
  BY <1>1, <1>12, CommitWrites
<1>14. /\ entities'[file] = entities[file] \cup {<<t, k>>}
       /\ \A g \in Files : g # file => entities'[g] = entities[g]
  BY <1>3, <1>12 DEF TypeOK, TablesOK
<1> QED BY <1>3, <1>4, <1>5, <1>8, <1>11, <1>13, <1>14 DEF OnlyThisFile

LEMMA PersistAddsUp ==
  ASSUME TypeOK, RunInvariant, SumsInvariant, UNCHANGED content, persist_to_database
  PROVE  SumsInvariant'
<1>1. /\ cur # NoMsg /\ cur.msg = "SaveValidatedDataCommand" /\ cur.msg \in BatchCommands
      /\ ~AlreadyPersisted /\ BatchIsCommitted /\ UNCHANGED mishaps
      /\ Reply(<< >>, << [msg |-> "BatchProcessed", batch_number |-> cur.batch_number] >>)
  BY DEF persist_to_database, Handling, NoMsg, BatchCommands
<1>2. PICK t, k, e : t = cur.assumed_type /\ k = cur.batch_number
                     /\ e = [msg |-> "BatchProcessed", batch_number |-> cur.batch_number]
  OBVIOUS
<1>3. PICK r, U, V : r = ReadAs(t) /\ U = Passed(t) /\ V = StoredBatches(t)
  OBVIOUS
<1>4. /\ file \in Files /\ db[file] \in FileRow /\ t \in content[file].types /\ t \in Types
      /\ BatchSums(t) /\ k \in DOMAIN r.batches /\ ~Idle
      /\ r.batches[k].valid \in Nat
      /\ db'[file].total_processed_rows = db[file].total_processed_rows + r.batches[k].valid
      /\ db'[file].quarantined_rows = db[file].quarantined_rows
      /\ db'[file].total_rows = db[file].total_rows
      /\ db'[file].validated_batches = db[file].validated_batches
      /\ db'[file].status = "PERSISTING"
      /\ entities'[file] = entities[file] \cup {<<t, k>>}
      /\ OnlyThisFile
  BY <1>1, <1>2, <1>3, BatchIsCounted
<1>5. /\ cur' = NoMsg /\ AtHand' = e /\ file' = file /\ commands' = commands
      /\ e.msg = "BatchProcessed" /\ NoMsg.msg = "NoMsg"
  <2>1. commands \o << >> = commands
    BY DEF TypeOK, ThreadOK
  <2>2. Reply(<< >>, << e >>)
    BY <1>1, <1>2
  <2>3. e.msg = "BatchProcessed" /\ NoMsg.msg = "NoMsg"
    BY <1>2 DEF NoMsg
  <2> QED BY <1>1, <2>1, <2>2, <2>3, ReplyHand DEF RunInvariant, Reply
<1>6. OutagesKnown /\ mishaps' = mishaps
  BY <1>1 DEF OutagesKnown
<1>7. ReadAs(t)' = r /\ Passed(t)' = U /\ StoredBatches(t)' = V \cup {k}
  <2>1. ReadAs(t)' = r
    BY <1>3, <1>5 DEF ReadAs
  <2>2. StoredBatches(t)' = V \cup {k}
    BY <1>3, <1>4, <1>5, <2>1 DEF StoredBatches
  <2>3. Passed(t)' = U
    BY <1>1, <1>3, <1>5, <2>1 DEF Passed
  <2> QED BY <2>1, <2>2, <2>3
<1>8. mishaps.outages = 0 => k \notin V
  BY <1>1, <1>2, <1>3, <1>4 DEF BatchSums, BatchAsks, Exactly, StoredBatches
<1>9. /\ content \in [Files -> Shapes] /\ r = content[file].readings[t]
      /\ U \in SUBSET DOMAIN r.batches /\ V \in SUBSET DOMAIN r.batches
      /\ V \cup {k} \in SUBSET DOMAIN r.batches
  BY <1>3, <1>4 DEF TypeOK, TablesOK, ReadAs, Passed, StoredBatches
<1>10. mishaps.outages = 0 =>
         SumFunctionOnSet(Valid(r), V \cup {k})
           = SumFunctionOnSet(Valid(r), V) + r.batches[k].valid
  <2> SUFFICES ASSUME mishaps.outages = 0
               PROVE  SumFunctionOnSet(Valid(r), V \cup {k})
                        = SumFunctionOnSet(Valid(r), V) + r.batches[k].valid
    OBVIOUS
  <2>1. k \notin V /\ k \in DOMAIN r.batches /\ file \in Files /\ t \in Types
    BY <1>4, <1>8
  <2> QED BY <1>9, <2>1, ReadingSumsAdd
<1>11. /\ SumFunctionOnSet(Invalid(r), U) \in Nat /\ SumFunctionOnSet(Valid(r), V) \in Nat
       /\ SumFunctionOnSet(Valid(r), V \cup {k}) \in Nat /\ r.incomplete \in Nat
       /\ r.incomplete + SumFunctionOnSet(Invalid(r), U) + SumFunctionOnSet(Valid(r), V \cup {k})
            <= r.rows
  <2>1. SumFunctionOnSet(Invalid(r), U) \in Nat /\ SumFunctionOnSet(Valid(r), V) \in Nat
    BY <1>4, <1>9, ReadingSums
  <2>2. /\ SumFunctionOnSet(Valid(r), V \cup {k}) \in Nat
        /\ r.incomplete + SumFunctionOnSet(Invalid(r), U)
             + SumFunctionOnSet(Valid(r), V \cup {k}) <= r.rows
    BY <1>4, <1>9, ReadingSums
  <2>3. NumbersFit(r)
    BY <1>4, <1>9, ReadingNumbers
  <2>4. r.incomplete \in Nat
    BY <2>3 DEF NumbersFit
  <2> QED BY <2>1, <2>2, <2>4
<1>12. /\ db[file].total_rows = r.rows
       /\ db[file].quarantined_rows >= r.incomplete + SumFunctionOnSet(Invalid(r), U)
       /\ mishaps.outages = 0 =>
            /\ db[file].quarantined_rows = r.incomplete + SumFunctionOnSet(Invalid(r), U)
            /\ db[file].total_processed_rows =
                 db[file].quarantined_rows + SumFunctionOnSet(Valid(r), V)
       /\ db[file].quarantined_rows \in Nat
  BY <1>3, <1>4 DEF BatchSums, BatchCounts, TurnedAway, Exactly, FileRow
<1>13. BatchCounts(t)'
  <2>1. /\ db'[file].total_rows = r.rows
        /\ db'[file].quarantined_rows >= r.incomplete + SumFunctionOnSet(Invalid(r), U)
        /\ mishaps'.outages = 0 =>
             /\ db'[file].quarantined_rows = r.incomplete + SumFunctionOnSet(Invalid(r), U)
             /\ db'[file].total_processed_rows =
                  db'[file].quarantined_rows + SumFunctionOnSet(Valid(r), V \cup {k})
    BY <1>4, <1>6, <1>10, <1>11, <1>12
  <2> QED BY <1>5, <1>7, <2>1, CountsFit
<1>14. FileAddsUp(file)'
  <2>1. mishaps'.outages = 0 => db'[file].total_processed_rows <= db'[file].total_rows
    BY <1>4, <1>6, <1>10, <1>11, <1>12
  <2> QED BY <1>4, <1>5, <2>1 DEF FileAddsUp, Unclaimed, Exactly, Processed
<1>15. BatchAsks(t)'
  <2>1. BatchAsks(t) /\ ReadAs(t) = r
    BY <1>3, <1>4 DEF BatchSums
  <2>2. \A i \in DOMAIN commands' : BatchCommandFits(commands[i], t)'
    BY <1>5, <1>7, <2>1 DEF BatchAsks, BatchCommandFits
  <2>3. AskedOnce'
    BY <1>5, <2>1 DEF BatchAsks, AskedOnce, BatchCommands
  <2>4. \A i \in DOMAIN commands : commands[i].batch_number # k
    BY <1>1, <1>2, <2>1 DEF BatchAsks, AskedOnce
  <2>5. /\ mishaps'.outages = 0 => \A i \in DOMAIN commands' :
                                     <<t, commands'[i].batch_number>> \notin entities'[file]
        /\ entities'[file] \subseteq {t} \X DOMAIN r.batches
    BY <1>1, <1>4, <1>5, <2>1, <2>4 DEF BatchAsks, Exactly
  <2> QED BY <1>5, <1>7, <2>2, <2>3, <2>5 DEF BatchAsks, Exactly, BatchCommands
<1>16. AuditSums'
  BY <1>4, <1>5 DEF AuditSums, InAudit, BatchSums, BatchAsks, BatchCommandFits, BatchCommands
<1>17. RunAddsUp'
  BY <1>4, <1>5, <1>13, <1>15, <1>16 DEF RunAddsUp, BatchSums
<1>18. \A g \in Files : FileAddsUp(g)' /\ db'[g].validated_batches = {}
  BY <1>4, <1>5, <1>6, <1>14, OthersAddUp DEF SumsInvariant, NoneMarked
<1> QED BY <1>17, <1>18 DEF SumsInvariant, NoneMarked

LEMMA UnansweredAddsUp ==
  ASSUME TypeOK, RunInvariant, SumsInvariant, UNCHANGED content, persist_to_database_unanswered
  PROVE  SumsInvariant'
<1>1. /\ cur # NoMsg /\ cur.msg = "SaveValidatedDataCommand" /\ cur.msg \in BatchCommands
      /\ ~AlreadyPersisted /\ BatchIsCommitted /\ Again /\ Mishap("outages", MaxOutages)
  BY DEF persist_to_database_unanswered, Handling, NoMsg, BatchCommands
<1>2. PICK t, k : t = cur.assumed_type /\ k = cur.batch_number
  OBVIOUS
<1>3. PICK r, U : r = ReadAs(t) /\ U = Passed(t)
  OBVIOUS
<1>4. /\ file \in Files /\ db[file] \in FileRow /\ t \in content[file].types /\ t \in Types
      /\ BatchSums(t) /\ k \in DOMAIN r.batches
      /\ db'[file].quarantined_rows = db[file].quarantined_rows
      /\ db'[file].total_rows = db[file].total_rows
      /\ db'[file].validated_batches = db[file].validated_batches
      /\ db'[file].status = "PERSISTING"
      /\ entities'[file] = entities[file] \cup {<<t, k>>}
      /\ OnlyThisFile
  BY <1>1, <1>2, <1>3, BatchIsCounted
<1>5. mishaps'.outages # 0
  BY <1>1, BoundsAssumption, MishapCounts
<1>6. OutagesKnown
  BY <1>5 DEF OutagesKnown
<1>7. /\ AtHand = cur /\ commands' = commands /\ file' = file
      /\ \/ AtHand' = Signal("SystemFaultEvent")
         \/ AtHand' = cur /\ cur' = cur
  <2>1. CASE attempt < max_retries
    BY <1>1, <2>1, AgainHand DEF Again, RunInvariant, AtHand
  <2>2. CASE ~(attempt < max_retries)
    <3>1. Reply(<< >>, << Signal("SystemFaultEvent") >>)
      BY <1>1, <2>2 DEF Again
    <3>2. commands \o << >> = commands
      BY DEF TypeOK, ThreadOK
    <3> QED BY <1>1, <3>1, <3>2, ReplyHand DEF RunInvariant
  <2> QED BY <2>1, <2>2
<1>8. FileAddsUp(file)'
  BY <1>4, <1>5, <1>7 DEF FileAddsUp, Unclaimed, Exactly, Processed
<1>9. \A g \in Files : FileAddsUp(g)' /\ db'[g].validated_batches = {}
  BY <1>4, <1>6, <1>7, <1>8, OthersAddUp DEF SumsInvariant, NoneMarked
<1>10. BatchAsks(t) /\ BatchCounts(t) /\ Signal("SystemFaultEvent").msg = "SystemFaultEvent"
  BY <1>4 DEF BatchSums, Signal
<1>11. AuditSums'
  BY <1>1, <1>7, <1>10 DEF AuditSums, InAudit, BatchAsks, BatchCommandFits, BatchCommands
<1>12. ASSUME AtHand' = cur, cur' = cur
       PROVE  BatchSums(t)'
  <2>1. ReadAs(t)' = r
    BY <1>3, <1>7 DEF ReadAs
  <2>2. Passed(t)' = U
    BY <1>3, <1>7, <1>12, <2>1 DEF Passed
  <2>3. PICK V : V = StoredBatches(t)'
    OBVIOUS
  <2>4. /\ db'[file].total_rows = r.rows
        /\ db'[file].quarantined_rows >= r.incomplete + SumFunctionOnSet(Invalid(r), U)
    BY <1>3, <1>4, <1>10 DEF BatchCounts, TurnedAway
  <2>5. BatchCounts(t)'
    BY <1>5, <1>7, <2>1, <2>2, <2>3, <2>4, CountsFit
  <2>6. /\ \A i \in DOMAIN commands' : BatchCommandFits(commands[i], t)'
        /\ BatchCommandFits(cur, t)' /\ AskedOnce'
    BY <1>1, <1>3, <1>7, <1>10, <1>12, <2>1 DEF BatchAsks, BatchCommandFits, AskedOnce
  <2>7. entities'[file] \subseteq {t} \X DOMAIN r.batches
    BY <1>3, <1>4, <1>10 DEF BatchAsks
  <2>8. BatchAsks(t)'
    BY <1>5, <1>7, <2>1, <2>6, <2>7 DEF BatchAsks, Exactly
  <2> QED BY <2>5, <2>8 DEF BatchSums
<1>13. RunAddsUp'
  BY <1>4, <1>7, <1>10, <1>11, <1>12 DEF RunAddsUp, InBatches
<1> QED BY <1>9, <1>13 DEF SumsInvariant, NoneMarked

LEMMA CompletedAddsUp ==
  ASSUME TypeOK, RunInvariant, SumsInvariant, UNCHANGED content, file_completed_handler
  PROVE  SumsInvariant'
<1>1. /\ cur # NoMsg /\ cur.msg = "FileSuccessfullyProcessed" /\ cur.msg \in BatchMessages
      /\ UNCHANGED <<entities, mishaps>> /\ Reply(<< >>, << >>) /\ step = 2
  BY DEF file_completed_handler, Handling, NoMsg, BatchMessages
<1>2. PICK new \in {clean_processed(db[file]), quarantine_processed(db[file])} : Commit(new)
  BY DEF file_completed_handler
<1>3. /\ AtHand = cur /\ ~Idle /\ file \in Files /\ db[file] \in FileRow
  BY <1>1, BatchStarts
<1>4. PICK u \in content[file].types : BatchRun(u)
  BY <1>1, BatchStarts
<1>5. /\ db[file].status = "PERSISTING" /\ AllSaves
      /\ entities[file] = {u} \X DOMAIN ReadAs(u).batches /\ entities[file] # {}
  BY <1>1, <1>3, <1>4 DEF BatchRun, StoredFits, HandFits
<1>6. PICK t \in content[file].types : BatchSums(t)
  BY <1>1, <1>3, <1>5 DEF SumsInvariant, RunAddsUp, InBatches, BatchStatuses
<1>7. entities[file] = {t} \X DOMAIN ReadAs(t).batches
  <2>1. t = u
    BY <1>5, <1>6 DEF BatchSums, BatchAsks
  <2> QED BY <1>5, <2>1
<1>8. PICK r : r = ReadAs(t)
  OBVIOUS
<1>9. t \in Types /\ NumbersFit(r)
  <2>1. t \in Types
    BY <1>3, <1>6, HashesAreRows DEF TypeOK, TablesOK
  <2> QED BY <1>3, <1>8, <2>1, ReadingNumbers DEF ReadAs, TypeOK, TablesOK
<1>10. Passed(t) = DOMAIN r.batches /\ StoredBatches(t) = DOMAIN r.batches
  BY <1>1, <1>5, <1>7, <1>8 DEF Passed, StoredBatches, AllSaves
<1>11. PICK i, v : /\ i = SumFunctionOnSet(Invalid(r), DOMAIN r.batches)
                   /\ v = SumFunctionOnSet(Valid(r), DOMAIN r.batches)
  OBVIOUS
<1>12. i \in Nat /\ v \in Nat /\ r.incomplete \in Nat /\ r.incomplete + i + v = r.rows
  <2>1. /\ content \in [Files -> Shapes] /\ r = content[file].readings[t]
        /\ DOMAIN r.batches \in SUBSET DOMAIN r.batches
    BY <1>8 DEF TypeOK, TablesOK, ReadAs
  <2>2. i \in Nat /\ v \in Nat /\ r.incomplete + i + v = r.rows
    BY <1>3, <1>9, <1>11, <2>1, ReadingSums
  <2> QED BY <1>9, <2>2 DEF NumbersFit
<1>13. /\ db[file].total_rows = r.rows /\ db[file].quarantined_rows >= r.incomplete + i
       /\ mishaps.outages = 0 =>
            /\ db[file].quarantined_rows = r.incomplete + i
            /\ db[file].total_processed_rows = db[file].quarantined_rows + v
       /\ db[file].quarantined_rows \in Nat
  BY <1>3, <1>6, <1>8, <1>10, <1>11 DEF BatchSums, BatchCounts, TurnedAway, Exactly, FileRow
<1>14. RejectCount(file, t) = r.incomplete + i
  BY <1>8, <1>11 DEF RejectCount, ReadAs, SumFunction, Invalid
<1>15. OnlyThisFile /\ SameCounts /\ OutagesKnown /\ db'[file] = new
  BY <1>1, <1>2, StatusCommit DEF OutagesKnown
<1>16. /\ file' = file /\ commands' = commands /\ AtHand' = NoMsg /\ NoMsg.msg = "NoMsg"
       /\ mishaps' = mishaps
  <2>1. commands \o << >> = commands
    BY DEF TypeOK, ThreadOK
  <2> QED BY <1>1, <2>1, ReplyHand DEF RunInvariant, NoMsg
<1>17. db'[file].status \in {"PROCESSED_CLEAN", "PROCESSED_W_QUARANTINE"}
  BY <1>2, <1>3, <1>15, StatusMethods DEF OnlyStatus
<1>18. StoredAs(file, t)' /\ RejectCount(file, t)' = RejectCount(file, t)
  BY <1>1, <1>7, <1>16 DEF StoredAs, ReadAs, RejectCount
<1>19. FileAddsUp(file)'
  <2>1. /\ db'[file].total_rows = content'[file].readings[t].rows
        /\ TurnedAway(file, RejectCount(file, t))'
        /\ mishaps'.outages = 0 =>
             /\ db'[file].total_processed_rows = content'[file].readings[t].rows
             /\ db'[file].total_processed_rows <= db'[file].total_rows
    <3>1. r = content'[file].readings[t]
      BY <1>8 DEF ReadAs
    <3>2. /\ mishaps'.outages = 0 => db'[file].total_processed_rows = r.rows
          /\ db'[file].total_rows = r.rows /\ r.rows \in Nat
          /\ db'[file].quarantined_rows >= r.incomplete + i
          /\ mishaps'.outages = 0 => db'[file].quarantined_rows = r.incomplete + i
      BY <1>12, <1>13, <1>15, <1>16 DEF SameCounts
    <3>3. TurnedAway(file, RejectCount(file, t))'
      BY <1>14, <1>16, <1>18, <3>2 DEF TurnedAway, Exactly
    <3> QED BY <3>1, <3>2, <3>3
  <2> QED BY <1>6, <1>16, <1>17, <1>18, <2>1 DEF FileAddsUp, Unclaimed, Exactly
<1>20. AuditSums' /\ ~InBatches'
  BY <1>5, <1>16, <1>17 DEF AuditSums, InAudit, AllSaves, InBatches, BatchStatuses
<1>21. RunAddsUp'
  BY <1>20 DEF RunAddsUp
<1>22. \A g \in Files : FileAddsUp(g)' /\ db'[g].validated_batches = {}
  BY <1>1, <1>3, <1>15, <1>16, <1>19, OthersAddUp DEF SumsInvariant, NoneMarked, SameCounts
<1> QED BY <1>21, <1>22 DEF SumsInvariant, NoneMarked

LEMMA FailedAddsUp ==
  ASSUME TypeOK, RunInvariant, SumsInvariant, UNCHANGED content,
         handle_schema_drift \/ handle_processing_aborted
  PROVE  SumsInvariant'
<1>1. /\ cur # NoMsg /\ UNCHANGED <<entities, mishaps>> /\ Reply(<< >>, << >>)
      /\ cur.msg \in DOMAIN FailureDirectory
  BY DEF handle_schema_drift, handle_processing_aborted, Handling, NoMsg, FailureDirectory
<1>2. file \in Files /\ db[file] \in FileRow /\ ~Idle
  BY <1>1, RunHasRow DEF Idle
<1>3. PICK row \in FileRow : row = reset(db[file])
  BY <1>2, RowMethods
<1>4. /\ row.quarantined_rows = 0 /\ row.total_processed_rows = 0
      /\ row.total_rows = db[file].total_rows
      /\ row.validated_batches = db[file].validated_batches
  BY <1>2, <1>3 DEF reset, FileRow
<1>5. PICK new \in {failure_schema(row), reject(row)} : Commit(new)
  BY <1>3 DEF handle_schema_drift, handle_processing_aborted
<1>6. CountsKept(row, new) /\ new.status \in {"FAILURE_SCHEMA", "REJECTED"}
  BY <1>5, StatusCounts, StatusMethods DEF OnlyStatus
<1>7. db'[file] = new /\ \A g \in Files : g # file => db'[g] = db[g]
  BY <1>1, <1>5, CommitWrites
<1>8. OnlyThisFile /\ OutagesKnown
  BY <1>1, <1>7 DEF OnlyThisFile, OutagesKnown
<1>9. /\ db'[file].quarantined_rows = 0 /\ db'[file].total_processed_rows = 0
      /\ db'[file].total_rows \in Nat /\ db'[file].validated_batches = {}
      /\ db'[file].status \in {"FAILURE_SCHEMA", "REJECTED"}
  BY <1>2, <1>4, <1>6, <1>7 DEF CountsKept, SumsInvariant, NoneMarked, FileRow
<1>10. file' = file /\ AtHand' = NoMsg /\ NoMsg.msg = "NoMsg"
  BY <1>1, ReplyHand DEF RunInvariant, NoMsg
<1>11. FileAddsUp(file)'
  BY <1>9, <1>10 DEF FileAddsUp, Unclaimed, Exactly, Processed
<1>12. AuditSums' /\ ~InBatches'
  BY <1>9, <1>10 DEF AuditSums, InBatches, BatchStatuses
<1>13. RunAddsUp'
  BY <1>12 DEF RunAddsUp
<1>14. \A g \in Files : FileAddsUp(g)' /\ db'[g].validated_batches = {}
  BY <1>1, <1>2, <1>8, <1>9, <1>10, <1>11, OthersAddUp DEF SumsInvariant, NoneMarked
<1> QED BY <1>13, <1>14 DEF SumsInvariant, NoneMarked

\* The counts of every row fit the content of its file, whatever goes wrong.
THEOREM CountsFitContent == Spec => []SumsInvariant
<1>1. Init => SumsInvariant
  BY DEF Init, SumsInvariant, NoneMarked, RunAddsUp, Idle, FileAddsUp, AbsentFile, Unclaimed,
     Exactly, Processed
<1>2. TypeOK /\ RunInvariant /\ SumsInvariant /\ [Next]_vars => SumsInvariant'
  <2> SUFFICES ASSUME TypeOK, RunInvariant, SumsInvariant, [Next]_vars
               PROVE  SumsInvariant'
    OBVIOUS
  <2>1. CASE UNCHANGED vars
    <3>1. UNCHANGED <<content, entities, thread>> /\ db' = db /\ mishaps' = mishaps
      BY <2>1 DEF vars, tables
    <3>2. RunAddsUp'
      BY <3>1, ThreadStays DEF OutagesKnown
    <3>3. \A g \in Files : FileAddsUp(g)' /\ db'[g].validated_batches = {}
      BY <3>1 DEF SumsInvariant, NoneMarked, FileAddsUp, Unclaimed, Exactly, Processed, StoredAs,
         TurnedAway, RejectCount
    <3> QED BY <3>2, <3>3 DEF SumsInvariant, NoneMarked
  <2>2. CASE Next
    <3>1. UNCHANGED content
      BY <2>2 DEF Next
    <3>2. CASE BusStep
      BY <3>1, <3>2, NextEventAddsUp, NextCommandAddsUp, NoHandlerAddsUp DEF BusStep
    <3>3. CASE AuditStep
      BY <3>1, <3>3, AuditSkipsAddUp, AuditCountsAddUp, AuditChunksAddUp, RetryAddsUp
         DEF AuditStep
    <3>4. CASE ValidationStep
      BY <3>1, <3>4, ValidationSkipsAddUp, ValidateAddsUp DEF ValidationStep
    <3>5. CASE PersistenceStep
      BY <3>1, <3>5, PersistenceSkipsAddUp, PersistAddsUp DEF PersistenceStep
    <3>6. CASE FinishingStep
      BY <3>1, <3>6, FinishingSkipsAddUp, CompletedAddsUp, FailedAddsUp DEF FinishingStep
    <3>7. CASE Faults
      BY <3>1, <3>7, FaultsAddUp, UnansweredAddsUp, StagingAddsUp DEF Faults
    <3> QED BY <2>2, <3>1, <3>2, <3>3, <3>4, <3>5, <3>6, <3>7, DispatchAddsUp, StagingAddsUp
            DEF Next, Dispatcher
  <2> QED BY <2>1, <2>2
<1> QED BY <1>1, <1>2, TypeCorrect, RunIsConsistent, PTL DEF Spec

\* The 20% threshold: no file is processed with more than a fifth of its rows turned away.
THEOREM ThresholdHolds == Spec => []ThresholdKept
<1>1. TypeOK /\ RunInvariant /\ SumsInvariant => ThresholdKept
  <2> SUFFICES ASSUME TypeOK, RunInvariant, SumsInvariant, NEW f \in Files, Processed(f)
               PROVE  \E t \in content[f].types :
                        /\ StoredAs(f, t)
                        /\ 5 * RejectCount(f, t) <= content[f].readings[t].rows
    BY DEF ThresholdKept
  <2>1. PICK t \in content[f].types :
          /\ StoredAs(f, t)
          /\ db[f].total_rows = content[f].readings[t].rows
          /\ db[f].quarantined_rows >= RejectCount(f, t)
    BY DEF SumsInvariant, FileAddsUp, TurnedAway
  <2>2. 5 * db[f].quarantined_rows <= db[f].total_rows
    <3>1. db[f].quarantined_rows \in Nat /\ db[f].total_rows \in Nat
      BY DEF TypeOK, TablesOK, FileRow
    <3>2. WithinThreshold(f)
      BY DEF RunInvariant, FilesFit, FileFits, StoredWhole
    <3> QED BY <3>1, <3>2 DEF WithinThreshold, OverThreshold
  <2>3. RejectCount(f, t) \in Nat /\ db[f].quarantined_rows \in Nat /\ db[f].total_rows \in Nat
    <3>1. PICK r : r = content[f].readings[t]
      OBVIOUS
    <3>2. t \in Types /\ content \in [Files -> Shapes]
      BY HashesAreRows DEF TypeOK, TablesOK
    <3>3. NumbersFit(r)
      BY <3>1, <3>2, ReadingNumbers
    <3>4. DOMAIN r.batches \in SUBSET DOMAIN r.batches
      OBVIOUS
    <3>5. SumFunctionOnSet(Invalid(r), DOMAIN r.batches) \in Nat
      BY <3>1, <3>2, <3>4, ReadingSums
    <3>6. RejectCount(f, t) = r.incomplete + SumFunctionOnSet(Invalid(r), DOMAIN r.batches)
      BY <3>1 DEF RejectCount, SumFunction, Invalid
    <3> QED BY <3>3, <3>5, <3>6 DEF NumbersFit, TypeOK, TablesOK, FileRow
  <2> QED BY <2>1, <2>2, <2>3
<1> QED BY <1>1, TypeCorrect, RunIsConsistent, CountsFitContent, PTL

\* The counts of a row never exceed the rows of the file and are exact when it is
\* processed, as long as the database has refused no operation.
THEOREM CountsAreExact == Spec => [](mishaps.outages = 0 => CountsAddUp)
<1>1. SumsInvariant => (mishaps.outages = 0 => CountsAddUp)
  BY DEF SumsInvariant, FileAddsUp, TurnedAway, Exactly, CountsAddUp
<1> QED BY <1>1, CountsFitContent, PTL
===============================================================================

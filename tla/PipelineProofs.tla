---------------------------- MODULE PipelineProofs ----------------------------
(***************************************************************************)
(* Theorems about the pipeline, for every set of files, of types and of    *)
(* contents, and for any number of faults.                                 *)
(***************************************************************************)
EXTENDS PipelineProperties, FiniteSetTheorems, TLAPS

(***************************************************************************)
(* What a message carries.                                                 *)
(***************************************************************************)
LEMMA AuditFields ==
  ASSUME NEW m \in Message, m.msg \in {"AuditCSVCommand", "PandasAuditFailed"}
  PROVE  /\ m.assumed_type \in Types
         /\ m.potential_types \in SUBSET Types
         /\ m.attempted_types \in SUBSET Types
         /\ [m EXCEPT !.msg = "PandasAuditFailed"] \in Event
BY DEF Message, Command, Event, NoMsg

LEMMA BatchCommandFields ==
  ASSUME NEW m \in Message, m.msg \in {"ValidateDataCommand", "SaveValidatedDataCommand"}
  PROVE  m.assumed_type \in Types /\ m.batch_number \in Nat \ {0}
BY DEF Message, Command, Event, NoMsg

LEMMA NumberedField ==
  ASSUME NEW m \in Message, m.msg = "ValidateDataCommand"
  PROVE  /\ [m EXCEPT !.numbered = FALSE] \in Command
         /\ [m EXCEPT !.numbered = FALSE].msg = m.msg
         /\ [m EXCEPT !.numbered = FALSE].batch_number = m.batch_number
         /\ [m EXCEPT !.numbered = FALSE].assumed_type = m.assumed_type
<1> DEFINE Validate == [msg : {"ValidateDataCommand"}, assumed_type : Types,
                        batch_number : Nat \ {0}, numbered : BOOLEAN]
           after == [m EXCEPT !.numbered = FALSE]
<1>1. m \in Validate
  BY DEF Message, Command, Event, NoMsg
<1>2. after \in Validate
  BY <1>1, Zenon
<1>3. after \in Command
  BY <1>2 DEF Command
<1> QED BY <1>1, <1>3

LEMMA BatchEventField ==
  ASSUME NEW m \in Message, m.msg \in {"BatchProcessed", "BatchValidated"}
  PROVE  m.batch_number \in Nat \ {0}
BY DEF Message, Command, Event, NoMsg

LEMMA EventIsNoBatchCommand ==
  ASSUME NEW m \in Event \cup {NoMsg}
  PROVE  CommandFits(m)
BY DEF CommandFits, Event, NoMsg

(***************************************************************************)
(* The methods of a row give a row.                                        *)
(***************************************************************************)
LEMMA RowMethods ==
  ASSUME NEW row \in FileRow
  PROVE  /\ start_auditing(row) \in FileRow /\ validate(row) \in FileRow
         /\ retry(row) \in FileRow /\ persist(row) \in FileRow
         /\ finish(row) \in FileRow /\ reject(row) \in FileRow
         /\ failure_schema(row) \in FileRow /\ reset(row) \in FileRow
         /\ quarantine_processed(row) \in FileRow /\ clean_processed(row) \in FileRow
BY DEF FileRow, FileStatus, BusyStatuses, TerminalStatuses, start_auditing, validate, retry,
       persist, finish, reject, failure_schema, reset, quarantine_processed, clean_processed

LEMMA RowCounts ==
  ASSUME NEW row \in FileRow, NEW n \in Nat
  PROVE  /\ process_row_success(row, n) \in FileRow
         /\ add_quarantined_row(row, n) \in FileRow
         /\ [row EXCEPT !.total_rows = n] \in FileRow
<1>1. RowsCounted(n) \in Nat
  BY DEF RowsCounted
<1>2. /\ process_row_success(row, n) \in FileRow
      /\ [row EXCEPT !.total_rows = n] \in FileRow
  BY <1>1 DEF process_row_success, FileRow
<1>3. add_quarantined_row(row, n) \in FileRow
  <2> DEFINE counted == [row EXCEPT !.quarantined_rows = @ + RowsCounted(n),
                                    !.total_processed_rows = @ + RowsCounted(n)]
  <2>1. /\ row.quarantined_rows + RowsCounted(n) \in Nat
        /\ row.total_processed_rows + RowsCounted(n) \in Nat
    BY <1>1 DEF FileRow
  <2>2. counted \in FileRow
    BY <2>1 DEF FileRow
  <2>3. failure_schema(counted) \in FileRow
    BY <2>2, RowMethods
  <2>4. add_quarantined_row(row, n) \in {counted, failure_schema(counted)}
    BY DEF add_quarantined_row
  <2> QED BY <2>2, <2>3, <2>4
<1> QED BY <1>2, <1>3

LEMMA RowBatches ==
  ASSUME NEW row \in FileRow, NEW S \in SUBSET Nat
  PROVE  /\ [row EXCEPT !.expected_batches = @ \cup S] \in FileRow
         /\ [row EXCEPT !.completed_batches = S] \in FileRow
BY DEF FileRow

LEMMA NewRows ==
  /\ AbsentFile \in FileRow
  /\ \A n \in Nat : NewFile(n) \in FileRow
BY DEF AbsentFile, NewFile, FileRow, FileStatus

(***************************************************************************)
(* What reading the file of the run gives.                                 *)
(***************************************************************************)
LEMMA ReadingFields ==
  ASSUME content \in [Files -> Shapes], file \in Files, NEW t \in Types
  PROVE  /\ ReadAs(t).rows \in Nat /\ ReadAs(t).incomplete \in Nat
         /\ ReadAs(t).batches \in Seq(Batch)
<1>1. content[file] \in Shape
  BY ShapesAssumption
<1>2. ReadAs(t) \in Reading
  BY <1>1 DEF Shape, ReadAs
<1> QED BY <1>2 DEF Reading

LEMMA BatchInHandFields ==
  ASSUME TypeOK, cur.msg \in {"ValidateDataCommand", "SaveValidatedDataCommand"}
  PROVE  BatchInHand.valid \in Nat /\ BatchInHand.invalid \in Nat
<1>1. file \in Files
  BY DEF TypeOK, ThreadOK, Idle, NoMsg
<1>2. cur.assumed_type \in Types
  BY BatchCommandFields DEF TypeOK, ThreadOK
<1>3. ReadAs(cur.assumed_type).batches \in Seq(Batch)
  BY <1>1, <1>2, ReadingFields DEF TypeOK, TablesOK
<1>4. cur.batch_number \in DOMAIN ReadAs(cur.assumed_type).batches
  BY DEF TypeOK, ThreadOK, CommandFits
<1>5. BatchInHand \in Batch
  BY <1>3, <1>4 DEF BatchInHand
<1> QED BY <1>5 DEF Batch

(***************************************************************************)
(* A handler that ends leaves a well-typed thread behind.                  *)
(***************************************************************************)
LEMMA ReplyThread ==
  ASSUME TypeOK, cur # NoMsg, UNCHANGED content,
         NEW c \in Seq(Command), NEW e \in Seq(Event),
         \A k \in DOMAIN c : CommandFits(c[k]),
         Reply(c, e)
  PROVE  ThreadOK'
<1> USE DEF Reply
<1>1. file' \in Files
  BY DEF TypeOK, ThreadOK, Idle
<1>2. commands' \in Seq(Command) /\ events' \in Seq(Event)
  BY DEF TypeOK, ThreadOK
<1>3. cur' \in Message /\ step' \in 1..3 /\ attempt' \in 1..3
  BY DEF Message
<1>4. CommandFits(cur)'
  BY DEF CommandFits, NoMsg
<1>5. \A k \in DOMAIN commands' : CommandFits(commands[k])'
  <2> SUFFICES ASSUME NEW k \in DOMAIN commands'
               PROVE  CommandFits(commands[k])'
    OBVIOUS
  <2>1. CommandFits(commands'[k])
    BY DEF TypeOK, ThreadOK
  <2> QED BY <2>1 DEF CommandFits, ReadAs
<1> QED BY <1>1, <1>2, <1>3, <1>4, <1>5 DEF ThreadOK

\* The common case: no command.
LEMMA ReplyEvent ==
  ASSUME TypeOK, cur # NoMsg, UNCHANGED content, NEW e \in Seq(Event), Reply(<< >>, e)
  PROVE  ThreadOK'
<1>1. << >> \in Seq(Command) /\ DOMAIN << >> = {}
  OBVIOUS
<1> QED BY <1>1, ReplyThread

LEMMA ContinueThread ==
  ASSUME TypeOK, cur # NoMsg, UNCHANGED content, NEW n \in 1..3, Continue(n)
  PROVE  ThreadOK'
BY DEF Continue, TypeOK, ThreadOK, Idle, CommandFits, ReadAs

LEMMA PurgeThread ==
  ASSUME TypeOK, UNCHANGED content, ReplyAndPurge
  PROVE  ThreadOK'
BY DEF ReplyAndPurge, TypeOK, ThreadOK, Idle, NoMsg, CommandFits, Message

(***************************************************************************)
(* What a transaction may write.                                           *)
(***************************************************************************)
LEMMA RunHasRow ==
  ASSUME TypeOK, cur # NoMsg
  PROVE  file \in Files /\ db[file] \in FileRow
BY DEF TypeOK, TablesOK, ThreadOK, Idle

LEMMA SameTables ==
  ASSUME TypeOK, UNCHANGED <<content, tables, disk, locks, mishaps>>
  PROVE  TablesOK'
BY DEF TypeOK, TablesOK, tables

LEMMA CommitTables ==
  ASSUME TypeOK, cur # NoMsg, NEW row \in FileRow, Commit(row),
         quarantine' \in [Rows -> Files \cup {NoFile}],
         entities' \in [Files -> SUBSET (Types \X (Nat \ {0}))],
         UNCHANGED <<content, disk, locks, mishaps>>
  PROVE  TablesOK'
<1>1. file \in Files
  BY RunHasRow
<1>2. db' \in [Files -> FileRow]
  BY <1>1 DEF Commit, TypeOK, TablesOK
<1> QED BY <1>2 DEF TypeOK, TablesOK

LEMMA CommitRow ==
  ASSUME TypeOK, cur # NoMsg, NEW row \in FileRow, Commit(row),
         UNCHANGED <<content, entities, quarantine, disk, locks, mishaps>>
  PROVE  TablesOK'
<1>1. /\ quarantine' \in [Rows -> Files \cup {NoFile}]
      /\ entities' \in [Files -> SUBSET (Types \X (Nat \ {0}))]
  BY DEF TypeOK, TablesOK
<1> QED BY <1>1, CommitTables

LEMMA SetAsideTable ==
  ASSUME TypeOK, cur # NoMsg, NEW hashes, SetAside(hashes)
  PROVE  quarantine' \in [Rows -> Files \cup {NoFile}]
BY RunHasRow DEF SetAside, TypeOK, TablesOK

LEMMA SignalEvents ==
  /\ \A e \in Event : << e >> \in Seq(Event)
  /\ \A c \in Command : << c >> \in Seq(Command)
  /\ << >> \in Seq(Event) /\ << >> \in Seq(Command)
  /\ \A name \in {"PydanticAuditFailed", "SchemaDriftDetected", "FileProcessingAborted",
                  "FileSuccessfullyProcessed", "SystemFaultEvent"} : Signal(name) \in Event
<1>1. \A name \in {"PydanticAuditFailed", "SchemaDriftDetected", "FileProcessingAborted",
                   "FileSuccessfullyProcessed", "SystemFaultEvent"} : Signal(name) \in Event
  BY DEF Signal, Event
<1> QED BY <1>1

LEMMA MessageIsSomething ==
  NoMsg.msg = "NoMsg"
BY DEF NoMsg

(***************************************************************************)
(* The steps of the handlers keep the types.                               *)
(***************************************************************************)
LEMMA BusStepType ==
  ASSUME TypeOK, BusStep, UNCHANGED content
  PROVE  TypeOK'
<1>1. CASE handle_next_event
  <2>1. Head(events) \in Event /\ Tail(events) \in Seq(Event)
    BY <1>1 DEF handle_next_event, TypeOK, ThreadOK
  <2>2. CommandFits(Head(events))
    BY <2>1, EventIsNoBatchCommand
  <2>3. TablesOK'
    BY <1>1, SameTables DEF handle_next_event
  <2>4. cur' \in Message /\ file' \in Files
    BY <1>1, <2>1 DEF handle_next_event, TypeOK, ThreadOK, Idle, Message
  <2>5. CommandFits(cur)' /\ \A k \in DOMAIN commands' : CommandFits(commands[k])'
    BY <1>1, <2>2 DEF handle_next_event, TypeOK, ThreadOK, CommandFits, ReadAs
  <2> QED BY <1>1, <2>1, <2>3, <2>4, <2>5 DEF handle_next_event, TypeOK, ThreadOK
<1>2. CASE handle_next_command
  <2>1. Head(commands) \in Command /\ Tail(commands) \in Seq(Command)
    BY <1>2 DEF handle_next_command, TypeOK, ThreadOK
  <2>2. /\ CommandFits(Head(commands))
        /\ \A k \in DOMAIN Tail(commands) : CommandFits(Tail(commands)[k])
    BY <1>2 DEF handle_next_command, TypeOK, ThreadOK
  <2>3. TablesOK'
    BY <1>2, SameTables DEF handle_next_command
  <2>4. cur' \in Message /\ file' \in Files
    BY <1>2, <2>1 DEF handle_next_command, TypeOK, ThreadOK, Idle, Message
  <2>5. CommandFits(cur)' /\ \A k \in DOMAIN commands' : CommandFits(commands[k])'
    BY <1>2, <2>2 DEF handle_next_command, TypeOK, ThreadOK, CommandFits, ReadAs
  <2> QED BY <1>2, <2>1, <2>3, <2>4, <2>5 DEF handle_next_command, TypeOK, ThreadOK
<1>3. CASE no_handler
  <2>1. cur # NoMsg
    BY <1>3 DEF no_handler, Handling, NoMsg
  <2>2. TablesOK'
    BY <1>3, SameTables DEF no_handler
  <2>3. ThreadOK'
    BY <1>3, <2>1, SignalEvents, ReplyEvent DEF no_handler
  <2> QED BY <2>2, <2>3 DEF TypeOK
<1> QED BY <1>1, <1>2, <1>3 DEF BusStep

LEMMA AuditStepType ==
  ASSUME TypeOK, AuditStep, UNCHANGED content
  PROVE  TypeOK'
<1>1. /\ cur # NoMsg /\ cur.msg \in {"AuditCSVCommand", "PandasAuditFailed"}
      /\ cur \in Message
  BY DEF AuditStep, audit_csv_fails, audit_csv_passes, audit_csv_counts, audit_csv_chunks,
         attempt_retry, attempt_retry_gives_up, Handling, NoMsg, TypeOK, ThreadOK
<1>2. file \in Files /\ db[file] \in FileRow
  BY <1>1, RunHasRow
<1>3. /\ cur.assumed_type \in Types
      /\ cur.potential_types \in SUBSET Types /\ cur.attempted_types \in SUBSET Types
      /\ [cur EXCEPT !.msg = "PandasAuditFailed"] \in Event
  BY <1>1, AuditFields
<1>4. /\ ReadAs(cur.assumed_type).rows \in Nat /\ ReadAs(cur.assumed_type).incomplete \in Nat
      /\ ReadAs(cur.assumed_type).batches \in Seq(Batch)
  BY <1>2, <1>3, ReadingFields DEF TypeOK, TablesOK
<1>5. CASE audit_csv_fails
  <2>1. TablesOK'
    BY <1>5, SameTables DEF audit_csv_fails
  <2>2. PICK e \in Event : Reply(<< >>, << e >>)
    BY <1>3, <1>5, SignalEvents DEF audit_csv_fails
  <2>3. ThreadOK'
    BY <1>1, <2>2, SignalEvents, ReplyEvent
  <2> QED BY <2>1, <2>3 DEF TypeOK
<1>6. CASE audit_csv_passes
  <2>1. TablesOK'
    BY <1>6, SameTables DEF audit_csv_passes
  <2>2. ThreadOK'
    BY <1>1, <1>6, ContinueThread DEF audit_csv_passes
  <2> QED BY <2>1, <2>2 DEF TypeOK
<1>7. CASE audit_csv_counts
  <2> DEFINE r == ReadAs(cur.assumed_type)
             row == [db[file] EXCEPT !.total_rows = r.rows]
             committed == IF r.incomplete > 0
                          THEN add_quarantined_row(row, r.incomplete) ELSE row
  <2>1. row \in FileRow
    BY <1>2, <1>4, RowCounts
  <2>2. add_quarantined_row(row, r.incomplete) \in FileRow
    BY <1>4, <2>1, RowCounts
  <2>3. committed \in FileRow
    BY <2>1, <2>2
  <2>4. Commit(committed) /\ SetAside(r.hashes)
    BY <1>7 DEF audit_csv_counts
  <2>5. quarantine' \in [Rows -> Files \cup {NoFile}]
    BY <1>1, <2>4, SetAsideTable
  <2>6. TablesOK'
    <3> HIDE DEF committed
    <3>1. entities' \in [Files -> SUBSET (Types \X (Nat \ {0}))]
      BY <1>7 DEF audit_csv_counts, TypeOK, TablesOK
    <3> QED BY <1>1, <1>7, <2>3, <2>4, <2>5, <3>1, CommitTables DEF audit_csv_counts
  <2>7. ThreadOK'
    BY <1>1, <1>7, ContinueThread DEF audit_csv_counts
  <2> QED BY <2>6, <2>7 DEF TypeOK
<1>8. CASE audit_csv_chunks
  <2> DEFINE batches == DOMAIN ReadAs(cur.assumed_type).batches
             row == [db[file] EXCEPT !.expected_batches = @ \cup batches]
             queued == [k \in batches |-> ValidateData(cur.assumed_type, k)]
  <2>1. PICK n \in Nat : batches = 1..n
    BY <1>4
  <2>2. row \in FileRow
    <3>1. batches \in SUBSET Nat
      BY <2>1
    <3> HIDE DEF batches
    <3> QED BY <1>2, <3>1, RowBatches, Zenon
  <2>3. validate(row) \in FileRow
    BY <2>2, RowMethods
  <2>4. \A k \in batches : ValidateData(cur.assumed_type, k) \in Command
    BY <1>3, <2>1 DEF ValidateData, Command
  <2>5. queued \in Seq(Command)
    <3>1. queued \in [1..n -> Command]
      BY <2>1, <2>4
    <3> QED BY <3>1
  <2>6. \A k \in DOMAIN queued : CommandFits(queued[k])
    BY DEF CommandFits, ValidateData
  <2>7. Commit(validate(row)) /\ Reply(queued, << >>)
    BY <1>8 DEF audit_csv_chunks
  <2> HIDE DEF queued, row
  <2>8. TablesOK'
    BY <1>1, <1>8, <2>3, <2>7, CommitRow DEF audit_csv_chunks
  <2>9. ThreadOK'
    BY <1>1, <2>5, <2>6, <2>7, SignalEvents, ReplyThread
  <2> QED BY <2>8, <2>9 DEF TypeOK
<1>9. CASE attempt_retry
  <2>1. PICK type \in NewTypes :
          /\ Commit(retry(db[file]))
          /\ Reply(<< AuditCSV(type, cur.potential_types \ {cur.assumed_type},
                               cur.attempted_types \cup {cur.assumed_type}) >>, << >>)
    BY <1>9 DEF attempt_retry
  <2> DEFINE c == AuditCSV(type, cur.potential_types \ {cur.assumed_type},
                           cur.attempted_types \cup {cur.assumed_type})
  <2>2. type \in Types
    BY <1>3 DEF NewTypes
  <2>3. c \in Command
    BY <1>3, <2>2 DEF AuditCSV, Command
  <2>4. CommandFits(c)
    BY DEF AuditCSV, CommandFits
  <2>5. TablesOK'
    BY <1>1, <1>2, <1>9, <2>1, RowMethods, CommitRow DEF attempt_retry
  <2>6. ThreadOK'
    <3> HIDE DEF c
    <3>1. << c >> \in Seq(Command) /\ \A k \in DOMAIN << c >> : CommandFits(<< c >>[k])
      BY <2>3, <2>4
    <3>2. Reply(<< c >>, << >>)
      BY <2>1 DEF c
    <3> QED BY <1>1, <3>1, <3>2, SignalEvents, ReplyThread
  <2> QED BY <2>5, <2>6 DEF TypeOK
<1>10. CASE attempt_retry_gives_up
  <2>1. TablesOK'
    BY <1>1, <1>2, <1>10, RowMethods, CommitRow DEF attempt_retry_gives_up
  <2>2. ThreadOK'
    BY <1>1, <1>10, SignalEvents, ReplyEvent DEF attempt_retry_gives_up
  <2> QED BY <2>1, <2>2 DEF TypeOK
<1> QED BY <1>5, <1>6, <1>7, <1>8, <1>9, <1>10 DEF AuditStep

LEMMA ValidationStepType ==
  ASSUME TypeOK, ValidationStep, UNCHANGED content
  PROVE  TypeOK'
<1>1. /\ cur # NoMsg /\ cur.msg \in {"ValidateDataCommand", "PydanticAuditFailed"}
      /\ cur \in Message
  BY DEF ValidationStep, validate_data_skips, validate_data_claims, validate_data_sorts_rows,
         validate_data_detects_drift, validate_data, handle_pydantic_failure,
         Handling, NoMsg, TypeOK, ThreadOK
<1>2. file \in Files /\ db[file] \in FileRow
  BY <1>1, RunHasRow
<1>3. CASE validate_data_skips
  <2>1. TablesOK'
    BY <1>3, SameTables DEF validate_data_skips
  <2>2. ThreadOK'
    BY <1>1, <1>3, SignalEvents, ReplyEvent DEF validate_data_skips
  <2> QED BY <2>1, <2>2 DEF TypeOK
<1>4. CASE validate_data_claims
  <2>1. TablesOK'
    BY <1>1, <1>2, <1>4, RowMethods, CommitRow DEF validate_data_claims
  <2>2. ThreadOK'
    BY <1>1, <1>4, ContinueThread DEF validate_data_claims
  <2> QED BY <2>1, <2>2 DEF TypeOK
<1>5. CASE validate_data_sorts_rows
  <2>1. TablesOK'
    BY <1>5, SameTables DEF validate_data_sorts_rows
  <2>2. CASE cur.numbered
    <3> DEFINE sorted == [cur EXCEPT !.numbered = FALSE]
    <3>1. cur.msg = "ValidateDataCommand"
      BY <1>5 DEF validate_data_sorts_rows, Handling
    <3>2. /\ sorted \in Command /\ sorted.msg = cur.msg
          /\ sorted.batch_number = cur.batch_number
          /\ sorted.assumed_type = cur.assumed_type
      BY <1>1, <3>1, NumberedField
    <3>3. /\ cur' = sorted /\ step' = 3
          /\ UNCHANGED <<content, file, attempt, commands, events>>
      BY <1>5, <2>2 DEF validate_data_sorts_rows
    <3> HIDE DEF sorted
    <3>4. CommandFits(sorted)
      BY <3>2 DEF TypeOK, ThreadOK, CommandFits
    <3>5. CommandFits(cur)' /\ \A k \in DOMAIN commands' : CommandFits(commands[k])'
      BY <3>3, <3>4 DEF TypeOK, ThreadOK, CommandFits, ReadAs
    <3>6. ThreadOK'
      BY <1>2, <3>2, <3>3, <3>5 DEF TypeOK, ThreadOK, Message
    <3> QED BY <2>1, <3>6 DEF TypeOK
  <2>3. CASE ~cur.numbered
    <3>1. Reply(<< >>, << Signal("SystemFaultEvent") >>)
      BY <1>5, <2>3 DEF validate_data_sorts_rows
    <3>2. ThreadOK'
      BY <1>1, <3>1, SignalEvents, ReplyEvent
    <3> QED BY <2>1, <3>2 DEF TypeOK
  <2> QED BY <2>2, <2>3
<1>6. CASE validate_data_detects_drift
  <2>1. TablesOK'
    BY <1>1, <1>2, <1>6, RowMethods, CommitRow DEF validate_data_detects_drift
  <2>2. ThreadOK'
    BY <1>1, <1>6, SignalEvents, ReplyEvent DEF validate_data_detects_drift
  <2> QED BY <2>1, <2>2 DEF TypeOK
<1>7. CASE validate_data
  <2>1. cur.msg = "ValidateDataCommand"
    BY <1>7 DEF validate_data, Handling
  <2>2. BatchInHand.valid \in Nat /\ BatchInHand.invalid \in Nat
    BY <2>1, BatchInHandFields
  <2>3. TablesOK'
    <3>1. CASE BatchInHand.invalid > 0
      <4> DEFINE row == add_quarantined_row(db[file], BatchInHand.invalid)
      <4>1. row \in FileRow
        BY <1>2, <2>2, RowCounts
      <4>2. Commit(row) /\ SetAside(BatchInHand.hashes)
        BY <1>7, <3>1 DEF validate_data
      <4> HIDE DEF row
      <4>3. quarantine' \in [Rows -> Files \cup {NoFile}]
        BY <1>1, <4>2, SetAsideTable
      <4>4. entities' \in [Files -> SUBSET (Types \X (Nat \ {0}))]
        BY <1>7 DEF validate_data, TypeOK, TablesOK
      <4> QED BY <1>1, <1>7, <4>1, <4>2, <4>3, <4>4, CommitTables DEF validate_data
    <3>2. CASE ~(BatchInHand.invalid > 0)
      <4>1. UNCHANGED <<content, tables, disk, locks, mishaps>>
        BY <1>7, <3>2 DEF validate_data, tables
      <4> QED BY <4>1, SameTables
    <3> QED BY <3>1, <3>2
  <2>4. ThreadOK'
    <3> DEFINE save == [msg |-> "SaveValidatedDataCommand",
                        assumed_type |-> cur.assumed_type, batch_number |-> cur.batch_number]
               validated == [msg |-> "BatchValidated", batch_number |-> cur.batch_number]
               saves == IF BatchInHand.valid > 0 THEN << save >> ELSE << >>
    <3>1. cur.assumed_type \in Types /\ cur.batch_number \in Nat \ {0}
      BY <1>1, <2>1, BatchCommandFields
    <3>2. save \in Command /\ validated \in Event
      BY <3>1 DEF Command, Event
    <3>3. CommandFits(save)
      BY <2>1 DEF TypeOK, ThreadOK, CommandFits
    <3>4. Reply(saves, << validated >>)
      BY <1>7 DEF validate_data
    <3> HIDE DEF save, validated
    <3>5. saves \in Seq(Command) /\ \A k \in DOMAIN saves : CommandFits(saves[k])
      BY <3>2, <3>3
    <3> HIDE DEF saves
    <3> QED BY <1>1, <3>2, <3>4, <3>5, SignalEvents, ReplyThread
  <2> QED BY <2>3, <2>4 DEF TypeOK
<1>8. CASE handle_pydantic_failure
  <2>1. TablesOK'
    BY <1>1, <1>2, <1>8, RowMethods, CommitRow DEF handle_pydantic_failure
  <2>2. ThreadOK'
    BY <1>1, <1>8, SignalEvents, ReplyEvent DEF handle_pydantic_failure
  <2> QED BY <2>1, <2>2 DEF TypeOK
<1> QED BY <1>3, <1>4, <1>5, <1>6, <1>7, <1>8 DEF ValidationStep

\* A batch that is committed, whether or not the handler learns of it.
LEMMA BatchTables ==
  ASSUME TypeOK, cur.msg = "SaveValidatedDataCommand", BatchIsCommitted,
         UNCHANGED <<content, quarantine, disk, locks>>,
         mishaps' \in [outages : 0..MaxOutages, errors : 0..MaxErrors, crashes : 0..MaxCrashes]
  PROVE  TablesOK'
<1>1. cur # NoMsg /\ cur \in Message
  BY DEF NoMsg, TypeOK, ThreadOK
<1>2. file \in Files /\ db[file] \in FileRow
  BY <1>1, RunHasRow
<1>3. cur.assumed_type \in Types /\ cur.batch_number \in Nat \ {0}
  BY <1>1, BatchCommandFields
<1>4. BatchInHand.valid \in Nat
  BY BatchInHandFields
<1> DEFINE row == process_row_success(persist(db[file]), BatchInHand.valid)
<1>5. persist(db[file]) \in FileRow
  BY <1>2, RowMethods
<1>6. row \in FileRow
  BY <1>4, <1>5, RowCounts
<1>7. Commit(row)
  BY DEF BatchIsCommitted
<1> HIDE DEF row
<1>8. db' \in [Files -> FileRow]
  BY <1>2, <1>6, <1>7 DEF Commit, TypeOK, TablesOK
<1>9. entities' \in [Files -> SUBSET (Types \X (Nat \ {0}))]
  BY <1>2, <1>3 DEF BatchIsCommitted, TypeOK, TablesOK
<1> QED BY <1>8, <1>9 DEF TypeOK, TablesOK

LEMMA PersistenceStepType ==
  ASSUME TypeOK, PersistenceStep, UNCHANGED content
  PROVE  TypeOK'
<1>1. /\ cur # NoMsg /\ cur.msg \in {"SaveValidatedDataCommand", "BatchProcessed"}
      /\ cur \in Message
  BY DEF PersistenceStep, persist_to_database_skips, persist_to_database_aborts,
         persist_to_database, check_file_completion_counts, check_file_completion,
         Handling, NoMsg, TypeOK, ThreadOK
<1>2. file \in Files /\ db[file] \in FileRow
  BY <1>1, RunHasRow
<1>3. CASE persist_to_database_skips
  <2>1. TablesOK'
    BY <1>3, SameTables DEF persist_to_database_skips
  <2>2. ThreadOK'
    BY <1>1, <1>3, SignalEvents, ReplyEvent DEF persist_to_database_skips
  <2> QED BY <2>1, <2>2 DEF TypeOK
<1>4. CASE persist_to_database_aborts
  <2>1. TablesOK'
    BY <1>4, SameTables DEF persist_to_database_aborts
  <2>2. ThreadOK'
    BY <1>1, <1>4, SignalEvents, ReplyEvent DEF persist_to_database_aborts
  <2> QED BY <2>1, <2>2 DEF TypeOK
<1>5. CASE persist_to_database
  <2>1. cur.msg = "SaveValidatedDataCommand"
    BY <1>5 DEF persist_to_database, Handling
  <2>2. cur.batch_number \in Nat \ {0}
    BY <1>1, <2>1, BatchCommandFields
  <2>3. TablesOK'
    <3>1. mishaps' \in [outages : 0..MaxOutages, errors : 0..MaxErrors, crashes : 0..MaxCrashes]
      BY <1>5 DEF persist_to_database, TypeOK, TablesOK
    <3> QED BY <1>5, <2>1, <3>1, BatchTables DEF persist_to_database
  <2>4. ThreadOK'
    <3> DEFINE processed == [msg |-> "BatchProcessed", batch_number |-> cur.batch_number]
    <3>1. processed \in Event
      BY <2>2 DEF Event
    <3>2. Reply(<< >>, << processed >>)
      BY <1>5 DEF persist_to_database
    <3> QED BY <1>1, <3>1, <3>2, SignalEvents, ReplyEvent
  <2> QED BY <2>3, <2>4 DEF TypeOK
<1>6. CASE check_file_completion_counts
  <2>1. cur.batch_number \in Nat
    BY <1>1, <1>6, BatchEventField DEF check_file_completion_counts, Handling
  <2>2. CountedBatches \in SUBSET Nat
    BY <1>2, <2>1 DEF CountedBatches, FileRow
  <2> DEFINE row == [db[file] EXCEPT !.completed_batches = CountedBatches]
  <2>3. row \in FileRow
    BY <1>2, <2>2, RowBatches
  <2>4. Commit(row)
    BY <1>6 DEF check_file_completion_counts
  <2> HIDE DEF row
  <2>5. TablesOK'
    BY <1>1, <1>6, <2>3, <2>4, CommitRow DEF check_file_completion_counts
  <2>6. ThreadOK'
    BY <1>1, <1>6, SignalEvents, ReplyEvent DEF check_file_completion_counts
  <2> QED BY <2>5, <2>6 DEF TypeOK
<1>7. CASE check_file_completion
  <2>1. TablesOK'
    BY <1>7, SameTables DEF check_file_completion
  <2>2. ThreadOK'
    BY <1>1, <1>7, SignalEvents, ReplyEvent DEF check_file_completion
  <2> QED BY <2>1, <2>2 DEF TypeOK
<1> QED BY <1>3, <1>4, <1>5, <1>6, <1>7 DEF PersistenceStep

LEMMA FinishingStepType ==
  ASSUME TypeOK, FinishingStep, UNCHANGED content
  PROVE  TypeOK'
<1>1. /\ cur # NoMsg
      /\ cur.msg \in {"SchemaDriftDetected", "FileProcessingAborted",
                      "FileSuccessfullyProcessed", "SystemFaultEvent"}
  BY DEF FinishingStep, file_completed_moves, file_completed_handler, failed_file_moves,
         clean_up, handle_schema_drift, handle_processing_aborted, move_finds_no_file,
         handle_system_fault, Handling, FailureDirectory, NoMsg
<1>2. file \in Files /\ db[file] \in FileRow
  BY <1>1, RunHasRow
<1>3. CASE file_completed_moves
  <2>1. disk' \in [Files -> Directories]
    BY <1>2, <1>3 DEF file_completed_moves, Move, Directories, TypeOK, TablesOK
  <2>2. TablesOK'
    BY <1>3, <2>1 DEF file_completed_moves, tables, TypeOK, TablesOK
  <2>3. ThreadOK'
    BY <1>1, <1>3, ContinueThread DEF file_completed_moves
  <2> QED BY <2>2, <2>3 DEF TypeOK
<1>4. CASE file_completed_handler
  <2> DEFINE row == IF db[file].quarantined_rows = 0
                    THEN clean_processed(db[file]) ELSE quarantine_processed(db[file])
  <2>1. row \in FileRow
    BY <1>2, RowMethods
  <2>2. Commit(row)
    BY <1>4 DEF file_completed_handler
  <2> HIDE DEF row
  <2>3. TablesOK'
    BY <1>1, <1>4, <2>1, <2>2, CommitRow DEF file_completed_handler
  <2>4. ThreadOK'
    BY <1>1, <1>4, SignalEvents, ReplyEvent DEF file_completed_handler
  <2> QED BY <2>3, <2>4 DEF TypeOK
<1>5. CASE failed_file_moves
  <2>1. FailureDirectory[cur.msg] \in Directories
    BY <1>5 DEF failed_file_moves, FailureDirectory, Directories
  <2>2. disk' \in [Files -> Directories]
    BY <1>2, <1>5, <2>1 DEF failed_file_moves, Move, TypeOK, TablesOK
  <2>3. TablesOK'
    BY <1>5, <2>2 DEF failed_file_moves, tables, TypeOK, TablesOK
  <2>4. ThreadOK'
    BY <1>1, <1>5, ContinueThread DEF failed_file_moves
  <2> QED BY <2>3, <2>4 DEF TypeOK
<1>6. CASE clean_up
  <2>1. entities' \in [Files -> SUBSET (Types \X (Nat \ {0}))]
    BY <1>6 DEF clean_up, TypeOK, TablesOK
  <2>2. quarantine' \in [Rows -> Files \cup {NoFile}]
    BY <1>6 DEF clean_up, WithoutRowsOf, TypeOK, TablesOK
  <2>3. TablesOK'
    BY <1>6, <2>1, <2>2 DEF clean_up, TypeOK, TablesOK
  <2>4. ThreadOK'
    BY <1>1, <1>6, ContinueThread DEF clean_up
  <2> QED BY <2>3, <2>4 DEF TypeOK
<1>7. CASE handle_schema_drift
  <2>1. failure_schema(reset(db[file])) \in FileRow
    BY <1>2, RowMethods
  <2>2. TablesOK'
    BY <1>1, <1>7, <2>1, CommitRow DEF handle_schema_drift
  <2>3. ThreadOK'
    BY <1>1, <1>7, SignalEvents, ReplyEvent DEF handle_schema_drift
  <2> QED BY <2>2, <2>3 DEF TypeOK
<1>8. CASE handle_processing_aborted
  <2>1. reject(reset(db[file])) \in FileRow
    BY <1>2, RowMethods
  <2>2. TablesOK'
    BY <1>1, <1>8, <2>1, CommitRow DEF handle_processing_aborted
  <2>3. ThreadOK'
    BY <1>1, <1>8, SignalEvents, ReplyEvent DEF handle_processing_aborted
  <2> QED BY <2>2, <2>3 DEF TypeOK
<1>9. CASE move_finds_no_file
  <2>1. TablesOK'
    BY <1>9, SameTables DEF move_finds_no_file
  <2>2. ThreadOK'
    BY <1>1, <1>9, SignalEvents, ReplyEvent DEF move_finds_no_file
  <2> QED BY <2>1, <2>2 DEF TypeOK
<1>10. CASE handle_system_fault
  <2>1. disk' \in [Files -> Directories]
    BY <1>2, <1>10 DEF handle_system_fault, MovedToSystemFailure, Directories, TypeOK, TablesOK
  <2>2. locks' \subseteq {"data/incoming", "/incoming"}
    BY <1>10 DEF handle_system_fault, TypeOK, TablesOK
  <2>3. TablesOK'
    BY <1>10, <2>1, <2>2 DEF handle_system_fault, tables, TypeOK, TablesOK
  <2>4. ThreadOK'
    BY <1>10, PurgeThread DEF handle_system_fault
  <2> QED BY <2>3, <2>4 DEF TypeOK
<1> QED BY <1>3, <1>4, <1>5, <1>6, <1>7, <1>8, <1>9, <1>10 DEF FinishingStep

\* A step that leaves the thread alone, whatever row it writes.
LEMMA SameThread ==
  ASSUME TypeOK, UNCHANGED <<content, thread>>
  PROVE  ThreadOK'
BY DEF TypeOK, ThreadOK, thread, Idle, CommandFits, ReadAs

LEMMA SchedulerStepType ==
  ASSUME TypeOK, UNCHANGED content,
         NEW f \in Files, file_staged_handler(f) \/ dispatch_pending_files(f)
  PROVE  TypeOK'
<1>1. CASE file_staged_handler(f)
  <2> DEFINE n == Cardinality({g \in Files : db[g].status # "ABSENT"})
  <2>1. n \in Nat
    BY FilesAssumption, FS_Subset, FS_CardinalityType
  <2>2. NewFile(1 + n) \in FileRow
    BY <2>1, NewRows
  <2>3. db' = [db EXCEPT ![f] = NewFile(1 + n)]
    BY <1>1 DEF file_staged_handler
  <2> HIDE DEF n
  <2>4. TablesOK'
    BY <1>1, <2>2, <2>3 DEF file_staged_handler, TypeOK, TablesOK
  <2>5. ThreadOK'
    BY <1>1, SameThread DEF file_staged_handler
  <2> QED BY <2>4, <2>5 DEF TypeOK
<1>2. CASE dispatch_pending_files(f)
  <2> DEFINE c == AuditCSV(content[f].assumed_type, content[f].types, {})
  <2>1. content[f] \in Shape
    BY ShapesAssumption DEF TypeOK, TablesOK
  <2>2. content[f].assumed_type \in Types /\ content[f].types \in SUBSET Types
    BY <2>1 DEF Shape
  <2>3. c \in Command
    BY <2>2 DEF AuditCSV, Command
  <2>4. CommandFits(c)' /\ c.msg = "AuditCSVCommand"
    BY DEF CommandFits, AuditCSV
  <2> HIDE DEF c
  <2>5. file' = f /\ commands' = << c >>
    BY <1>2 DEF dispatch_pending_files, c
  <2>6. start_auditing(db[f]) \in FileRow
    BY RowMethods DEF TypeOK, TablesOK
  <2>7. TablesOK'
    BY <1>2, <2>6 DEF dispatch_pending_files, TypeOK, TablesOK
  <2>8. commands' \in Seq(Command) /\ \A k \in DOMAIN commands' : CommandFits(commands[k])'
    BY <2>3, <2>4, <2>5 DEF CommandFits
  <2>9. CommandFits(cur)'
    BY <1>2 DEF dispatch_pending_files, Idle, CommandFits, NoMsg
  <2>10. ThreadOK'
    BY <1>2, <2>5, <2>8, <2>9 DEF dispatch_pending_files, TypeOK, ThreadOK
  <2> QED BY <2>7, <2>10 DEF TypeOK
<1> QED BY <1>1, <1>2

\* A handler that runs again, or gives up.
LEMMA AgainThread ==
  ASSUME TypeOK, cur # NoMsg, UNCHANGED content, Again
  PROVE  ThreadOK'
<1>1. CASE attempt < max_retries
  <2>1. attempt' \in 1..3
    BY <1>1 DEF Again, max_retries, TypeOK, ThreadOK
  <2> QED BY <1>1, <2>1 DEF Again, TypeOK, ThreadOK, Idle, CommandFits, ReadAs
<1>2. CASE ~(attempt < max_retries)
  <2>1. Reply(<< >>, << Signal("SystemFaultEvent") >>)
    BY <1>2 DEF Again
  <2> QED BY <2>1, SignalEvents, ReplyEvent
<1> QED BY <1>1, <1>2

LEMMA FaultType ==
  ASSUME TypeOK, Faults, UNCHANGED content
  PROVE  TypeOK'
<1> USE BoundsAssumption
<1>1. CASE operational_error
  <2>1. cur # NoMsg
    BY <1>1 DEF operational_error, InTransaction, FailureDirectory, NoMsg
  <2>2. mishaps' \in [outages : 0..MaxOutages, errors : 0..MaxErrors, crashes : 0..MaxCrashes]
    BY <1>1 DEF operational_error, Mishap, TypeOK, TablesOK
  <2>3. TablesOK'
    BY <1>1, <2>2 DEF operational_error, tables, TypeOK, TablesOK
  <2>4. ThreadOK'
    BY <1>1, <2>1, AgainThread DEF operational_error
  <2> QED BY <2>3, <2>4 DEF TypeOK
<1>5. CASE persist_to_database_unanswered
  <2>1. cur # NoMsg /\ cur.msg = "SaveValidatedDataCommand"
    BY <1>5 DEF persist_to_database_unanswered, Handling, NoMsg
  <2>2. mishaps' \in [outages : 0..MaxOutages, errors : 0..MaxErrors, crashes : 0..MaxCrashes]
    BY <1>5 DEF persist_to_database_unanswered, Mishap, TypeOK, TablesOK
  <2>3. TablesOK'
    BY <1>5, <2>1, <2>2, BatchTables DEF persist_to_database_unanswered
  <2>4. ThreadOK'
    BY <1>5, <2>1, AgainThread DEF persist_to_database_unanswered
  <2> QED BY <2>3, <2>4 DEF TypeOK
<1>2. CASE unhandled_error
  <2>1. mishaps' \in [outages : 0..MaxOutages, errors : 0..MaxErrors, crashes : 0..MaxCrashes]
    BY <1>2 DEF unhandled_error, Mishap, TypeOK, TablesOK
  <2>2. TablesOK'
    BY <1>2, <2>1 DEF unhandled_error, tables, TypeOK, TablesOK
  <2>3. \/ \E e \in {<< >>, << Signal("SystemFaultEvent") >>} : Reply(<< >>, e)
        \/ ReplyAndPurge
    BY <1>2 DEF unhandled_error
  <2>4. ThreadOK'
    BY <1>2, <2>3, SignalEvents, ReplyEvent, PurgeThread DEF unhandled_error
  <2> QED BY <2>2, <2>4 DEF TypeOK
<1>3. CASE crash
  <2>1. mishaps' \in [outages : 0..MaxOutages, errors : 0..MaxErrors, crashes : 0..MaxCrashes]
    BY <1>3 DEF crash, Mishap, TypeOK, TablesOK
  <2>2. TablesOK'
    BY <1>3, <2>1 DEF crash, tables, TypeOK, TablesOK
  <2>3. ThreadOK'
    BY <1>3 DEF crash, ThreadOK, Message, Idle, CommandFits, NoMsg
  <2> QED BY <2>2, <2>3 DEF TypeOK
<1>4. ASSUME NEW f \in Files, staging_fault(f)
      PROVE  TypeOK'
  <2>1. mishaps' \in [outages : 0..MaxOutages, errors : 0..MaxErrors, crashes : 0..MaxCrashes]
    BY <1>4 DEF staging_fault, TypeOK, TablesOK
  <2>2. disk' \in [Files -> Directories] /\ locks' \subseteq {"data/incoming", "/incoming"}
    BY <1>4 DEF staging_fault, MovedToSystemFailure, Directories, TypeOK, TablesOK
  <2>3. TablesOK'
    BY <1>4, <2>1, <2>2 DEF staging_fault, tables, TypeOK, TablesOK
  <2>4. ThreadOK'
    BY <1>4, SameThread DEF staging_fault
  <2> QED BY <2>3, <2>4 DEF TypeOK
<1> QED BY <1>1, <1>2, <1>3, <1>4, <1>5 DEF Faults

LEMMA InitType ==
  ASSUME Init
  PROVE  TypeOK
<1>1. TablesOK
  <2>1. mishaps \in [outages : 0..MaxOutages, errors : 0..MaxErrors, crashes : 0..MaxCrashes]
    BY BoundsAssumption DEF Init
  <2> QED BY <2>1, NewRows DEF Init, TablesOK, Directories
<1>2. ThreadOK
  BY DEF Init, ThreadOK, Message, Idle, CommandFits, NoMsg
<1> QED BY <1>1, <1>2 DEF TypeOK

LEMMA NextType ==
  ASSUME TypeOK, [Next]_vars
  PROVE  TypeOK'
<1>1. CASE UNCHANGED vars
  BY <1>1, SameTables, SameThread DEF vars, TypeOK
<1>2. CASE Next
  <2>1. UNCHANGED content
    BY <1>2 DEF Next
  <2> QED BY <1>2, <2>1, BusStepType, AuditStepType, ValidationStepType, PersistenceStepType,
             FinishingStepType, SchedulerStepType, FaultType DEF Next, Dispatcher
<1> QED BY <1>1, <1>2

\* The tables, the queues and the message in hand are well formed in every state, a
\* batch command always names a batch of its file, and a run always has a file.
THEOREM TypeCorrect == Spec => []TypeOK
BY InitType, NextType, PTL DEF Spec

(***************************************************************************)
(* At most one file is busy.  OneBusy is not inductive: that a handler's   *)
(* commit keeps it needs that the file of a run is the busy one, so that   *)
(* no other file is busy until both queues are empty.                      *)
(***************************************************************************)
RunOwnsBusy == ~Idle => \A g \in Files : Busy(g) => g = file

OneBusyInv == OneBusy /\ RunOwnsBusy

\* A handler writes no row but that of the file of its run.
LEMMA HandlerWritesOwnRow ==
  ASSUME TypeOK, AuditStep \/ ValidationStep \/ PersistenceStep \/ FinishingStep
  PROVE  /\ cur # NoMsg /\ file' = file
         /\ \A g \in Files : g # file => db'[g] = db[g]
<1>1. ASSUME NEW row, Commit(row)
      PROVE  \A g \in Files : g # file => db'[g] = db[g]
  BY <1>1 DEF Commit, TypeOK, TablesOK
<1>2. CASE AuditStep
  <2>1. cur # NoMsg
    BY <1>2 DEF AuditStep, audit_csv_fails, audit_csv_passes, audit_csv_counts,
         audit_csv_chunks, attempt_retry, attempt_retry_gives_up, Handling, NoMsg
  <2>2. (\E c, e : Reply(c, e)) \/ (\E n : Continue(n))
    BY <1>2 DEF AuditStep, audit_csv_fails, audit_csv_passes, audit_csv_counts,
         audit_csv_chunks, attempt_retry, attempt_retry_gives_up
  <2>3. (\E row : Commit(row)) \/ UNCHANGED db
    BY <1>2 DEF AuditStep, audit_csv_fails, audit_csv_passes, audit_csv_counts,
         audit_csv_chunks, attempt_retry, attempt_retry_gives_up, tables
  <2> QED BY <1>1, <2>1, <2>2, <2>3 DEF Reply, Continue
<1>3. CASE ValidationStep
  <2>1. cur # NoMsg /\ file' = file
    BY <1>3 DEF ValidationStep, validate_data_skips, validate_data_claims,
         validate_data_sorts_rows, validate_data_detects_drift, validate_data,
         handle_pydantic_failure, Handling, Reply, Continue, NoMsg
  <2>2. (\E row : Commit(row)) \/ UNCHANGED db
    BY <1>3 DEF ValidationStep, validate_data_skips, validate_data_claims,
         validate_data_sorts_rows, validate_data_detects_drift, validate_data,
         handle_pydantic_failure, tables
  <2> QED BY <1>1, <2>1, <2>2
<1>4. CASE PersistenceStep
  <2>1. cur # NoMsg /\ file' = file
    BY <1>4 DEF PersistenceStep, persist_to_database_skips, persist_to_database_aborts,
         persist_to_database, check_file_completion_counts, check_file_completion,
         Handling, Reply, NoMsg
  <2>2. (\E row : Commit(row)) \/ UNCHANGED db
    BY <1>4 DEF PersistenceStep, persist_to_database_skips, persist_to_database_aborts,
         persist_to_database, BatchIsCommitted, check_file_completion_counts,
         check_file_completion, tables
  <2> QED BY <1>1, <2>1, <2>2
<1>5. CASE FinishingStep
  <2>1. cur # NoMsg
    BY <1>5 DEF FinishingStep, file_completed_moves, file_completed_handler,
         failed_file_moves, clean_up, handle_schema_drift, handle_processing_aborted,
         move_finds_no_file, handle_system_fault, Handling, FailureDirectory, NoMsg
  <2>2. file' = file
    BY <1>5 DEF FinishingStep, file_completed_moves, file_completed_handler,
         failed_file_moves, clean_up, handle_schema_drift, handle_processing_aborted,
         move_finds_no_file, handle_system_fault, Reply, ReplyAndPurge, Continue
  <2>3. (\E row : Commit(row)) \/ UNCHANGED db
    BY <1>5 DEF FinishingStep, file_completed_moves, file_completed_handler,
         failed_file_moves, clean_up, handle_schema_drift, handle_processing_aborted,
         move_finds_no_file, handle_system_fault, tables
  <2> QED BY <1>1, <2>1, <2>2, <2>3
<1> QED BY <1>2, <1>3, <1>4, <1>5

LEMMA NextOneBusy ==
  ASSUME TypeOK, OneBusyInv, Next
  PROVE  OneBusyInv'
<1>1. CASE AuditStep \/ ValidationStep \/ PersistenceStep \/ FinishingStep
  <2>1. /\ ~Idle /\ file' = file
        /\ \A g \in Files : g # file => db'[g] = db[g]
    BY <1>1, HandlerWritesOwnRow DEF Idle
  <2>2. \A g \in Files : Busy(g)' => g = file
    BY <2>1 DEF OneBusyInv, RunOwnsBusy, Busy
  <2> QED BY <2>1, <2>2 DEF OneBusyInv, OneBusy, RunOwnsBusy
<1>2. CASE BusStep
  <2>1. ~Idle /\ UNCHANGED <<db, file>>
    BY <1>2 DEF BusStep, handle_next_event, handle_next_command, no_handler, Handling, Reply,
                Idle, NoMsg, tables
  <2> QED BY <2>1 DEF OneBusyInv, OneBusy, RunOwnsBusy, Busy
<1>3. ASSUME NEW f \in Files, dispatch_pending_files(f)
      PROVE  OneBusyInv'
  <2>1. \A g \in Files : ~Busy(g)
    BY <1>3 DEF dispatch_pending_files, check_for_busy_files
  <2>2. file' = f /\ \A g \in Files : g # f => db'[g] = db[g]
    BY <1>3 DEF dispatch_pending_files, TypeOK, TablesOK
  <2>3. \A g \in Files : Busy(g)' => g = f
    BY <2>1, <2>2 DEF Busy
  <2> QED BY <2>2, <2>3 DEF OneBusyInv, OneBusy, RunOwnsBusy
<1>4. ASSUME NEW f \in Files, file_staged_handler(f)
      PROVE  OneBusyInv'
  <2>1. /\ db'[f].status = "PENDING" /\ \A g \in Files : g # f => db'[g] = db[g]
        /\ UNCHANGED <<file, cur, commands, events>>
    BY <1>4 DEF file_staged_handler, NewFile, AbsentFile, thread, TypeOK, TablesOK
  <2>2. \A g \in Files : Busy(g)' => Busy(g)
    BY <2>1 DEF Busy, BusyStatuses
  <2> QED BY <2>1, <2>2 DEF OneBusyInv, OneBusy, RunOwnsBusy, Idle
<1>5. CASE persist_to_database_unanswered
  <2>1. file' = file /\ ~Idle
    BY <1>5 DEF persist_to_database_unanswered, Handling, Again, Reply, Idle, NoMsg
  <2>2. \A g \in Files : g # file => db'[g] = db[g]
    BY <1>5 DEF persist_to_database_unanswered, BatchIsCommitted, Commit, TypeOK, TablesOK
  <2>3. \A g \in Files : Busy(g)' => g = file
    BY <2>1, <2>2 DEF OneBusyInv, RunOwnsBusy, Busy
  <2> QED BY <2>1, <2>3 DEF OneBusyInv, OneBusy, RunOwnsBusy
<1>6. CASE crash
  <2>1. UNCHANGED db /\ Idle'
    BY <1>6 DEF crash, tables, Idle
  <2> QED BY <2>1 DEF OneBusyInv, OneBusy, RunOwnsBusy, Busy
<1>7. CASE operational_error \/ unhandled_error \/ \E f \in Files : staging_fault(f)
  <2>1. UNCHANGED <<db, file>>
    BY <1>7 DEF operational_error, Again, unhandled_error, staging_fault, Reply, ReplyAndPurge,
                tables, thread
  <2>2. Idle => Idle'
    BY <1>7 DEF operational_error, unhandled_error, staging_fault, Idle, thread, InTransaction,
                FailureDirectory, NoMsg
  <2> QED BY <2>1, <2>2 DEF OneBusyInv, OneBusy, RunOwnsBusy, Busy
<1> QED BY <1>1, <1>2, <1>3, <1>4, <1>5, <1>6, <1>7 DEF Next, Dispatcher, Faults

\* dispatch_pending_files claims a file only when no row is busy, and until both
\* queues are empty a run writes no row but its own file's: two files are never busy
\* at a time, however many crash and stay busy in the table.
THEOREM OneFileAtATime == Spec => []OneBusy
<1>1. Init => OneBusyInv
  BY DEF Init, OneBusyInv, OneBusy, RunOwnsBusy, Idle, Busy, AbsentFile, BusyStatuses
<1>2. TypeOK /\ OneBusyInv /\ [Next]_vars => OneBusyInv'
  <2>1. ASSUME OneBusyInv, UNCHANGED vars
        PROVE  OneBusyInv'
    BY <2>1 DEF vars, tables, thread, OneBusyInv, OneBusy, RunOwnsBusy, Idle, Busy
  <2> QED BY <2>1, NextOneBusy
<1>3. OneBusyInv => OneBusy
  BY DEF OneBusyInv
<1> QED BY <1>1, <1>2, <1>3, TypeCorrect, PTL DEF Spec
===============================================================================

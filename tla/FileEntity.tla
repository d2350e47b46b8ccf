------------------------------ MODULE FileEntity ------------------------------
(***************************************************************************)
(* The File aggregate root (src/files/domain.py): one row of the table     *)
(* "files", and the methods by which the handlers change it.  A method is  *)
(* an operator from the row before the call to the row after it; nothing   *)
(* is stored until a handler commits the row (see Pipeline).               *)
(*                                                                         *)
(* The name, the hash, the type and the timestamps never decide a step     *)
(* after staging and are left out, as is status_reason, a text.            *)
(***************************************************************************)
EXTENDS Naturals

\* A file the files table has no row for has the status "ABSENT".
BusyStatuses ==
  {"AUDITING", "PROCESSING", "VALIDATING", "PERSISTING", "RETRYING", "FINISHING"}
TerminalStatuses ==
  {"PROCESSED_CLEAN", "PROCESSED_W_QUARANTINE", "FAILURE_SCHEMA", "REJECTED", "SYSTEM_FAULT"}
FileStatus == BusyStatuses \cup TerminalStatuses \cup {"ABSENT", "PENDING"}

\* The statuses in which validate_data, persist_to_database and
\* check_file_completion leave a file alone.
WrongStatuses == TerminalStatuses \cup {"FINISHING"}

FileRow ==
  [status : FileStatus, created_at : Nat,
   total_rows : Nat, total_processed_rows : Nat, quarantined_rows : Nat,
   expected_batches : SUBSET Nat, validated_batches : SUBSET Nat, completed_batches : SUBSET Nat]

AbsentFile ==
  [status |-> "ABSENT", created_at |-> 0,
   total_rows |-> 0, total_processed_rows |-> 0, quarantined_rows |-> 0,
   expected_batches |-> {}, validated_batches |-> {}, completed_batches |-> {}]

\* File.__init__, as file_staged_handler calls it.
NewFile(created_at) == [AbsentFile EXCEPT !.status = "PENDING", !.created_at = created_at]

\* A slip, used by no handler: the fifth is rounded up to whole rows.
OverThreshold_rounded_up(quarantined, total) == quarantined > (total + 4) \div 5

\* More than 20% of the rows: both audits and add_quarantined_row compare an
\* integer with total / 5, a division without rounding.
OverThreshold(quarantined, total) == 5 * quarantined > total

start_auditing(row)       == [row EXCEPT !.status = "AUDITING"]
validate(row)             == [row EXCEPT !.status = "VALIDATING"]
retry(row)                == [row EXCEPT !.status = "RETRYING"]
persist(row)              == [row EXCEPT !.status = "PERSISTING"]
finish(row)               == [row EXCEPT !.status = "FINISHING"]
reject(row)               == [row EXCEPT !.status = "REJECTED"]
failure_schema(row)       == [row EXCEPT !.status = "FAILURE_SCHEMA"]
quarantine_processed(row) == [row EXCEPT !.status = "PROCESSED_W_QUARANTINE"]
clean_processed(row)      == [row EXCEPT !.status = "PROCESSED_CLEAN"]

\* "num_rows if num_rows else 1": a count of zero is taken for no count at all.
RowsCounted(num_rows) == IF num_rows = 0 THEN 1 ELSE num_rows

process_row_success(row, num_rows) ==
  [row EXCEPT !.total_processed_rows = @ + RowsCounted(num_rows)]

\* A slip, used by no handler: quarantined rows are not counted as processed.
add_quarantined_row_unprocessed(row, num_rows) ==
  LET counted == [row EXCEPT !.quarantined_rows = @ + RowsCounted(num_rows)]
  IN  IF OverThreshold(counted.quarantined_rows, counted.total_rows)
      THEN failure_schema(counted)
      ELSE counted

add_quarantined_row(row, num_rows) ==
  LET counted == [row EXCEPT !.quarantined_rows = @ + RowsCounted(num_rows),
                             !.total_processed_rows = @ + RowsCounted(num_rows)]
  IN  IF OverThreshold(counted.quarantined_rows, counted.total_rows)
      THEN failure_schema(counted)
      ELSE counted

reset(row) == [row EXCEPT !.quarantined_rows = 0, !.total_processed_rows = 0]
===============================================================================

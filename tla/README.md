# Custos Data Manager in TLA+

Custos loads CSV files into a database: it stages a file, audits it with
pandas, validates its rows with pydantic in batches, stores the batches, sets
bad rows aside in a quarantine table, and ends with the file in one of several
directories and a status in the table `files`. This directory models that path,
the two threads that stage what senders deliver at the beginning of it, the
tables of leads and sales at its end, the alerts sent about them and the archiving
of finished files. It checks all of it with TLC on small instances, and proves
its safety with TLAPS for every instance. Paths below are relative to `src/src/`
unless they begin with `src/`.

## The system

| component | state | operations | made correct by |
|---|---|---|---|
| `File` (`files/domain.py`, `files/repo_adapter.py`) | a row: status, counts, batch sets | `start_auditing` … `clean_processed`, `add_quarantined_row`, `reset` | counts that never pass the rows of the file; a final status that stays |
| message bus (`infrastructure/adapters/message_bus.py`) | two queues, local to one call of `handle` | `handle` | every message is handled or purged; events before commands |
| safety wrapper (`infrastructure/wrappers/safety_wrappers.py`) | the attempt | runs a handler again on `OperationalError` | a handler may be run again from its first line |
| dispatcher (`apscheduler_runner.py`) | none | `dispatch_pending_files` | one file at a time; every pending file has its turn |
| intake (`watchdog_runner.py`, `_poll_directory`, `handlers/staging.py`) | `seen_files` of each runner, the directories | stage, register, refuse, set aside | a pending file is in place; one content is imported once; every delivery is dealt with |
| auditing (`handlers/auditing.py`) | none | `audit_csv`, `attempt_retry` | the 20% threshold; one type is chosen |
| validation (`handlers/validation.py`) | none | `validate_data`, `handle_pydantic_failure` | the threshold on a running total |
| persistence (`handlers/persistence.py`) | none | `persist_to_database`, `check_file_completion` | a batch and its count in one transaction; completion when all are in |
| finishing (`handlers/finishing.py`) | none | five handlers and `clean_up` | directory, status and tables agree |
| quarantine (`quarantine/`) | rows with a unique hash | `add`, `delete_by_source_file` | every row turned away is kept until its file fails |
| leads (`leads/`) | a lead and its snapshots | `apply_update`, `rollback`, `marketing_qualify` | a lead is a function of its history: the newest snapshot wins, with and without a file |
| sales (`sales/`) | facts and dimensions, two caches per unit of work | `add`, `check_exists`, get-or-create | one fact per transaction and SKU, whose keys hold |
| MQL alerts (`infrastructure/handlers/alerts.py`) | `lead_alerts`, `outgoing_alerts/` | read, send, record | what is recorded was sent; nothing is sent twice but for a mishap |
| archiving (`infrastructure/handlers/maintenance.py`) | `cold_storage/` | list, zip, delete | no file is lost, every old file goes cold |

The handlers are joined by messages, in one direction:

    StageFile -> FileStaged -> (row PENDING)            [watcher or poller thread]
    dispatch -> AuditCSV -> ValidateData* -> SaveValidatedData* -> BatchProcessed*
                   |             |                  |                   |
          PandasAuditFailed  PydanticAuditFailed  FileProcessing-  FileSuccessfully-
                   |             |                Aborted          Processed
                SchemaDriftDetected                       [scheduler thread]

They share the database, through units of work, and the directories on disk.
Beside them, `handle_file_archiving` runs at night over the directories of the
outcomes, and `handle_mql_alerts` reads and writes the tables of leads; no job and
no handler of the repository starts the latter, so the model lets it run at any
time.
What is hard here is not the happy path. The wrapper runs a whole handler again
though part of its effects are committed or the file is already moved; a commit
and a move are never one step; the queues live in memory and a crash loses
them; the staging threads write the same table; and one file that is left busy
stops all others. The complete list, with lines, is under `hazards` in
`PROJECT.json`.

## The modules

| module | what it is |
|---|---|
| `FileEntity` | the row of a file and the methods of `File`, as operators on records |
| `Pipeline` | the dispatcher, the bus, every handler from `file_staged_handler` to the five endings, and the faults |
| `PipelineProperties` | the type invariant, the safety and liveness properties, and the refinement mapping |
| `FileImport` | the abstract promise: unknown, pending, busy, then done (stored whole) or failed (nothing stored), one file at a time |
| `MCPipeline` | file contents for TLC |
| `Intake` | senders, the watcher's and the poller's threads, staging, the directories by file name, and the pipeline by what it promises |
| `IntakeProperties` | what intake must and must not do |
| `MCIntake` | deliveries for TLC |
| `Lead` | a lead with its snapshots and the methods of `Lead`, as operators on records |
| `Records` | `persist_to_database` and `clean_up` row by row: the session, its caches and sequences, the tables of leads, sales and dimensions; `handle_mql_alerts` beside them; the faults |
| `RecordsProperties` | what the tables must hold, as functions of the log of committed rows |
| `MCRecords` | files of leads and sales for TLC |
| `ColdStorage` | `handle_file_archiving` beside the moves of the handlers |
| `ColdStorageProperties` | what archiving must and must not do |
| `MCColdStorage` | where files end, for TLC |
| `PipelineInvariant`, `IntakeInvariant`, `RecordsInvariant` | the inductive invariants of `Pipeline`, `Intake` and `Records` |
| `PipelineProofs` | types, and one file at a time |
| `PipelineRunProofs` | that `RunInvariant` is inductive |
| `PipelineSafetyProofs` | what follows from it, the refinement of `FileImport`, and the counts |
| `FoldTheorems` | least elements, and sums over finite sets |
| `IntakeProofs` | types; names, contents and claims |
| `RecordsProofs` | types, foreign keys, alerts and e-mails |
| `RecordsHistoryProofs` | that the tables of leads and facts are what the log makes of them |
| `ColdStorageProofs` | types, what is kept, what is zipped |

`Pipeline` is the middle. `Intake` stands before it and uses it by its promise,
`FileImport`; `Records` opens two of its actions, `persist_to_database` and
`clean_up`, which `Pipeline` takes as one step each; `ColdStorage` comes after it,
when a handler has moved a file to its end.

### Pipeline

*State.* `db`, `entities` and `quarantine` are the three tables; `disk` is where
each file lies; `locks` the halt locks. `file`, `cur`, `step`, `attempt`,
`commands` and `events` are the run of the bus: all its messages carry one file
id, so the file is a variable and not a field of each message. `entities` keeps
the batches of a file whose rows are stored, not the rows. `quarantine` maps a
payload hash to the file that owns the row, because the column is unique.

*Grain.* A handler is cut where another thread, a crash or an exception can tell
the difference: each transaction and each move is an action. `audit_csv` is
`audit_csv_passes`, `audit_csv_counts` (its first commit) and `audit_csv_chunks`
(its second); `validate_data` is a claim, a pass over the rows and a commit;
`handle_schema_drift` is a move, the commit inside `clean_up`, and a commit.
Everything between two effects belongs to the effect that follows it. Actions
carry the name of their handler, with a suffix for the branch or the effect.

*File contents.* A file is a `Shape`: the types its header matches and, for each
type, what reading it gives (a `Reading`: how many rows lack a required field,
and the batches with the rows pydantic accepts or not). pandas and pydantic are
functions of the content, so a retry reads the same again. `content` is chosen
in `Init` and never changes. `ReadingsAssumption` says that a reading accounts
for every row and that no batch is empty; TLC evaluates it in every run.

*Faults.* `operational_error` is the wrapper's answer to an `OperationalError`
in any transaction: the handler starts over, or a `SystemFaultEvent` is
returned. `unhandled_error` is any other exception: the bus turns that of a
command into a `SystemFaultEvent` and swallows that of an event. `crash` ends
the process and its queues; the tables and the directories stay. `staging_fault`
is the registration of a file that the database refuses three times.
`persist_to_database_unanswered` is the connection that breaks after the database
has committed a batch: the wrapper starts the handler over, which finds the batch
not yet among `completed_batches` and persists it again over its own rows.
`MaxOutages` (both kinds of `OperationalError`), `MaxErrors` and `MaxCrashes` bound
them.

*Left out.* Timestamps, `status_reason` and log lines; the audit's intermediate
commit after every 1000 quarantined rows; the lost answer of a commit other than a
batch's; two files of one name (see `Intake`). A successful
`clean_up` of sales is modelled although the code could not delete a sale
(`sales/repo_adapter.py:239`): `NothingToRollBack` shows that it never has one to
delete. `check_file_validation` is subscribed to no event and has no action, and
`validated_batches` therefore stays empty.

### Intake

`Pipeline` names a file by its hash and takes for granted that it lies in
`processing/`. The code names it by its bare file name, so `Intake` keeps names,
hashes and deliveries apart: `disk` says which delivery has a name in a directory,
`row` is the table `files` by hash, with the name each row gives.

`deliver` is the sender. `on_created` and `poll_directory` take a name up into
`seen`; from there each thread goes through the effects of `stage_file` and
`file_staged_handler` one at a time (`work[t].at` is the next one): the move, the
look at the file, the hash, the lookup, the insert, or the move of a duplicate or
a bad file. The look at the file is `stage_file`: its MIME type, and by
`identify_from_headers` its type, from the types whose key fields its header has.
The two threads and the dispatcher interleave between any two steps. A step
that needs a file and finds none under the name is `staged_file_is_gone` or
`registered_file_is_gone`, and what it does depends on whether a command or an
event was being handled: the bus answers an error in the former with a
`SystemFaultEvent` (for the path `unknown`, since a `StageFileCommand` has no
`filepath`) and swallows that in the latter.

The dispatched file is begun (`dispatch_pending_files`), read (`audit_csv`,
which records in `imports` under whose row which content was read) and settled
(`finish`), as in `FileImport`; the five directories of the outcomes are one,
`finished`. `operational_error` retries the lookup and the insert from the hash
on, and the third time the file goes to `system_failure/`; `commit_unanswered` is
the same error after the database has committed the row, so that the retry meets
its own registration. `crash` empties what the process remembers, `created` and
`seen` among it; `main` starts anew.

*Left out.* A file that is still being written when it is staged
(`watchdog_runner.py:31` renames it to itself, which on Linux notices no writer).
An empty file has no text's MIME type, so the `StopIteration` that `stage_file`
catches (`handlers/staging.py:54`) is never raised.

### Records

*State.* `db` holds the leads by address, the facts in the order they were stored
and the ids of the dimensions' rows. `uow` is the session of the batch in hand: the
rows still to do, the tables as it sees them, the facts that are pending (autoflush
is off, `infrastructure/database.py:15`, so no query sees those before a flush or
the commit), the caches `seen_sales` and `seen_dims` of the sales repository, and
the next id of the sequences. `serial` is that id outside a session: PostgreSQL
takes no id back when it rolls back. `alerts` is the table `lead_alerts`, `outbox`
the e-mails written, `job` the run of `handle_mql_alerts`.

*Actions.* `persist_to_database` opens a session, `persist_lead` and `persist_sale`
do one row of it, `commit` ends it. A lead's row adds the lead if there is none and
applies the update (`apply_update` with `marketing_qualify`, then the snapshot unless
there is one of the same file and time). A sale's row is looked up by transaction
and SKU among what the session has added and what is stored, gets or creates its
three dimensions, each with a flush, and is left pending. `clean_up` and
`clean_up_raises` roll a file back with any number of its batches committed.
`handle_mql_alerts` reads team and leads and splits the leads among the members;
`send_email` and `alert_email_failed` do one member each; `commit_mql_alerts` records
what was sent, all or nothing. `operational_error` rolls the session back and runs
the handler again with new repositories, three times; a third error, or a `crash`,
leaves the file busy. `commit_unanswered` is an `OperationalError` after the database
has committed: the handler begins anew with tables that hold the batch already, and
`check_exists`, the key of a snapshot and the comparison of times make the second
pass change nothing (`FactsAreFirstSales` and `LeadsAreTheirHistory` would break).

*The log.* `LeadsAreTheirHistory` and `FactsAreFirstSales` compare the tables with a log
that the code does not keep: the rows of all committed batches of the files that were
not rolled back (`Stored`), each with its place (its file in the order of dispatch, its
batch, its row) and its key. `Firsts` are the entries that no earlier one of their key
precedes: a later snapshot of one address, file and time adds nothing, nor does a later
sale of one transaction and SKU.

*Data.* Of `LeadData` the model keeps the time, the status, the score and the
sector, of a sale its keys and a quantity that tells two sales of one identifier
apart. Addresses, SKUs and customer numbers are as pydantic leaves them
(`leads/schemas.py`, `sales/schemas.py`), stripped and in one case. Which of several
newest snapshots of one time `rollback` chooses depends on the order in which the
history was loaded, and is left open.

*Left out.* Fields that decide nothing (`custos_timestamp`, names, prices);
`seen_in_batch` of `persist_to_database`, since what is in it is in `seen_sales` or
stored.

### ColdStorage

`disk` says which file each place (a directory and a name) has, `old` which files
are older than 30 days, `zips` what each closed archive holds. `job` is the run of
`handle_file_archiving`: `handle_file_archiving` lists the old files, `zip_file` and
`remove_file` are one turn of each loop of `archive_files`, `close_zip` is between
them. `move` is a handler that brings a file to its end, over whatever has the name
there, at any moment. `Interrupted` is the end of a run before its time, by an exception,
which the wrapper does not retry, or by a crash: what was written and deleted stays.
`write_failed` is an exception while a file is written: the `with` block
(`file_storage_manager.py:54`) closes the zip on the way out, so it becomes an archive of
the files before that one, though all originals stay and will be archived again.
`interrupted` is the rest: a crash, whose zip is not closed and no archive, or an error in
opening or closing the zip or in deleting. An archive may have a torn copy of the file
that could not be read to its end; `zips` counts whole copies only. Two entries of one name
in a zip are both kept; that two zips of one second would have one name is left out,
since the job runs once a night.

A definition under a comment "Slip" is a plausible mistake in the definition
after it. The specification does not use it; with it in the place of the
definition, the property named beside it in `PROJECT.json` fails.

## The runs

`tlc -config X.cfg M`, with the times of two workers on a small machine.

| run | module | instance | shows |
|---|---|---|---|
| `Mishaps` | `MCPipeline` | 2 files, 6 shapes, 3 outages, 1 error, 1 crash; 193,290 states | `TypeOK`, `OneBusy`, `ProcessedIsComplete`, `ThresholdKept`, `NothingToRollBack`, `ImplementsFileImport` |
| `Restarts` | `MCPipeline` | 2 files, 10 shapes, 2 errors, 1 crash; 39,088 states | `FailedLeavesNothing`, `SettledIsLocated`, `CountsAddUp`, `SettledForGood`, `EveryFileSettles` |
| `Stall` | `MCPipeline` | 2 files, 3 shapes, no fault | violates `PendingFileIsFed` |
| `AuditRetry` | `MCPipeline` | 2 files at the threshold, 1 outage | violates `OnlyDriftFails` |
| `ValidationRetry` | `MCPipeline` | 2 clean files, 1 outage | violates `OneOutageIsRetried` |
| `MoveRetry` | `MCPipeline` | 2 files that drift, 1 outage | violates `DriftIsMarked` |
| `Arrivals` | `MCIntake` | 3 deliveries, 2 hashes, 4 manifests, 3 faults; 302,286 states, 2 minutes | `TypeOK`, `PendingIsInPlace`, `ImportedOnce`, `DuplicateHasAnOriginal`, `StraysAreKnown`, `EveryDeliveryIsDealtWith`, `PolledFilesAreTakenIn` |
| `Halt` | `MCIntake` | 3 deliveries, 3 faults | violates `HaltHolds` |
| `SameName` | `MCIntake` | 3 deliveries of one name, no fault | violates `NothingIsReplaced` |
| `Records` | `MCRecords` | 3 files, 3 worlds of contents, 3 faults; 938,641 states, 2 minutes | `TypeOK`, `LeadsAreTheirHistory`, `FactsAreFirstSales`, `DimensionsHold`, `AlertIsBacked`, `SentOnceButForMishaps` |
| `ColdStorage` | `MCColdStorage` | 3 files, 3 manifests, 2 interruptions; 43,516 states | `TypeOK`, `NothingIsLost`, `ZippedOnceButForMishaps`, `OldFilesGoCold` |
| `ArchiveRace` | `MCColdStorage` | 3 files, two of one place, no interruption | violates `DeletedIsArchived` |

*Bounds.* Two files are enough for every interference there is: one waits while
the other runs, shares a payload hash with it, or inherits what a crash left
busy. Two batches give a first and a last one, with persistence of the first
queued behind validation of the second. Three outages are the most one handler
takes before it gives up, and let two handlers be retried once; a crash and an
exception on top of them reach the mixed cases. The shapes lie on both sides of
each boundary: a fifth of the rows and one more, in the audit, in a batch and
over both; equal rows; one type, two types, two types of which none fits; no
rows; a batch without a valid row; a registry entry that does not fit.

In `Arrivals` three deliveries are two threads racing over one content and a third
file that arrives while they do, or afterwards under a hash that is settled; the
manifests are three equal files, different files one of which is ambiguous and one
no text, files that are refused or unknown, and two files of one name and content. The
last is there for `TypeOK` and the steps that find a file gone: the other properties assume
`DistinctNames`, and of files of one name they do not hold (`ImportedOnce` because rows of
the second file are stored under the row of the first, when their contents differ). Three
faults of any kinds let one registration be refused until it is given up, or be
refused and then committed without an answer, or an exception and a restart fall on
a retry. `PendingIsInPlace` and `DuplicateHasAnOriginal` excuse a commit without an
answer, because the code has no answer to it either: the retry sets the registered
file aside as a duplicate of itself. `ImportedOnce` and `StraysAreKnown` do not.
For `PolledFilesAreTakenIn` a restart cuts off the staging of a file, or finds it
delivered, and does so up to three times.

In `Records` three files are an order in which snapshots arrive, another in which
files are rolled back, and one that stays. The worlds are: one address in all three,
out of order, with equal times in a file and across files and scores on both sides
of 50; two addresses that qualify for different members, one by the sector "Other"
that nobody else is in charge of; sales whose transactions, products, customers and
dates come again in a batch, in a later one and in another file, beside a file of
leads. Three faults exhaust the attempts of one batch, or lose the commit of two
runs of `handle_mql_alerts` and refuse a batch.

In `ColdStorage` one manifest has two files of one place, for `TypeOK`; the other
properties assume `DistinctPlaces`, and without it `ArchiveRace` shows what is lost.
Three files in two or three directories let one arrive, and one grow old, in each
stage of the job on another; two interruptions, by an error while zipping, by a crash or
by one of each, put a file into three archives.

The runs do not check deadlock: a system whose files are all settled, or one of
which is left busy, really rests. `Restarts` has no outages because with them
`SettledIsLocated` and `EveryFileSettles` do not hold; `MoveRetry` and
`AuditRetry` show why.

*Fairness.* `FairSpec` has weak fairness of the scheduler's thread: the job
`dispatch_pending_files` runs every `interval_seconds`, and its thread goes on
with the bus until both queues are empty, since `handle` is a loop that waits
for nothing. No fault is fair, and neither is staging, so no file is promised to
arrive. `EveryFileSettles` speaks of runs without mishaps: the code recovers no
file that a crash or a system fault left busy. In `Intake` each of the three threads
is weakly fair by itself: the observer's handles what it was told of, the two jobs
run every `interval_seconds`, and none waits for another. Senders and faults are
not fair, and `EveryDeliveryIsDealtWith` excuses runs with a mishap: leads that are
delivered while the process is down are never staged. `PolledFilesAreTakenIn` excuses
less, since the poller lists its directory anew: it holds through crashes, as long as the
process is up again, which is not promised (`main` is not fair). In `ColdStorage` the job is
weakly fair: it is started every night, and its loops wait for nothing; moves, time
and interruptions are not. `Records` states no liveness: `EveryFileSettles` says of
`Pipeline` that a file is finished, and nothing in the repository calls
`handle_mql_alerts`.

## What the runs found

1. A file with a header and no rows, or whose last batch has no valid row, is
   never finished, and nothing is dispatched after it
   (`handlers/auditing.py:186-202`, `handlers/validation.py:158`).
2. A retry of `audit_csv` counts the incomplete rows twice
   (`handlers/auditing.py:150`), so a good file fails as schema drift.
3. A retry of `validate_data` finds rows whose `csv_line_number` it has popped
   (`handlers/validation.py:72`): one outage is a system fault.
4. A retry of `handle_schema_drift` cannot move the file again
   (`handlers/finishing.py:132`): it stays busy in `schema_failure/`.
5. The halt check looks for `/incoming/SYSTEM_HALTED.lock`
   (`system_check_wrapper.py:12`), the fault handler touches
   `data/incoming/SYSTEM_HALTED.lock` (`handlers/finishing.py:77`): nothing halts.
6. Files of one name replace each other in `processing/`
   (`handlers/staging.py:44`), though leads and sales arrive in different
   directories.
7. `archive_files` deletes by path what it zipped by path: a file that a handler moves
   to a listed place in between is deleted and in no archive
   (`infrastructure/adapters/file_storage_manager.py:61`).

Not as findings but worth knowing: since every validation comes before any
persistence, no run ever rolls an entity back (`NothingToRollBack`), and the
rollback of leads and the deletion of sales in `clean_up` act on nothing. A
retry that doubled the audit's count and then crashes leaves `FAILURE_SCHEMA` on
a file still in `processing/`, with its quarantined rows. A batch whose commit is not
answered is counted twice in `total_processed_rows`, and stored once. A file with an unknown
header (whose abortion names the path `UNKNOWN`, `safety_wrappers.py:41`), and the file
of the thread that loses the race for a hash, stay in `processing/` with no row and no
report (`StraysAreKnown` lists the cases). So does a file whose `stage_file` ends in a
system fault, since a `StageFileCommand` has no path to give (`message_bus.py:103`).

`Records` lets `clean_up` meet a file with stored rows, which `Pipeline` never does,
because the repositories promise it. There a file with a sale cannot be rolled back,
since `session.delete` is handed a generator (`sales/repo_adapter.py:239`), nor can
one whose going would take a lead that is on record in `lead_alerts`. A rollback may
leave a lead with another `source_file_id` than it had, and, when its newest
snapshots are of one time, with other data: `LeadsAreTheirHistory` allows both. No
constraint makes transaction and SKU unique (`sales/orm.py:144`); that
`FactsAreFirstSales` holds rests on one thread persisting.
`handle_quarantine_alerts` calls `count_all`, which the quarantine repository does not
define.

## The proofs

`tlapm PipelineProofs.tla`, and the same of `PipelineRunProofs`, `PipelineSafetyProofs`,
`FoldTheorems`, `IntakeProofs`, `RecordsProofs`, `RecordsHistoryProofs` and
`ColdStorageProofs`.

**Pipeline.** The assumptions are finitely many files and hashes of rows
(`FilesAssumption`, for the numbering of registrations, and `RowsAssumption`, so that
hashes can be counted), well-formed shapes (`ShapesAssumption`), numbers of faults
(`BoundsAssumption`), and readings (`ReadingsAssumption`) that account for every row,
have no empty batch, and have at least one hash for rows that are turned away and at
most one for each.

`TypeCorrect` proves `Spec => []TypeOK` for every set of files, types,
hashes and shapes and every number of faults. `TypeOK` says more than types, and needs
to: a batch command, in hand or queued, names a batch that its file has when read as
the command's type, and a run that is not over has a file. Without the first, the
counts that validation and persistence add would not be numbers; without the second,
the row they are added to would not exist. The argument has one lemma for each group
of actions, one step for each action, and two lemmas, `ReplyThread` and
`CommitTables`, for what all handlers share.

`OneFileAtATime` proves `Spec => []OneBusy`. `OneBusy` is not inductive: a handler
that commits a busy status keeps it only if no other file is busy. The invariant
adds `RunOwnsBusy`: until both queues are empty, the only file that can be busy is
the file of the run. It holds because `dispatch_pending_files` starts a run only
when no file is busy, no handler writes another row than that of its run
(`HandlerWritesOwnRow`), and staging writes only `PENDING` rows; a crash ends the
run and leaves at most its file busy.

The other safety properties rest on one invariant, `RunInvariant` of module
`PipelineInvariant`, since none of them is inductive: what a failure may find in the
tables depends on what is still queued. It says that an event is alone (`EventAlone`),
that a run is first an audit with one message at a time (`AuditRun`) and then has
one type, commands to validate queued before commands to save, and only saves once
anything is stored (`BatchRun`), and what every other file is by its status
(`FileFits`). `FailureFits` and the steps of `HandFits` carry what the first
transactions of a handler did to its later ones, over retries. That a row which was
turned away is kept although another file's failure deletes by file is `Kept`: it is
the file's own, or that of another file whose run is over. From it follow
`RollBackIsEmpty`, `ProcessedFilesAreComplete`, `FailuresLeaveNothing`,
`SettledFilesAreLocated` and, with the invariant of types, `SettledStaysSettled`.
`FailuresLeaveNothing` and `SettledFilesAreLocated` are said of behaviours in which the
database has refused nothing so far (`mishaps.outages = 0`), and with outages their
properties are false: a retried `audit_csv` that finds its doubled count over the
threshold commits `FAILURE_SCHEMA`, and a crash then leaves the file in `processing/`.
`SettledFilesAreReported` is what holds with outages, with exactly that exception.

`PipelineImplementsFileImport` proves `Spec => ImplementsFileImport`, which is
the whole of `FileImport!Spec`, as that states no fairness. Each action takes its file
from one phase to the next or leaves it (`PhaseFits`, `Effect`, `AuditEffect`), and
`RunInvariant` gives what the abstract step demands of the tables.

`SumsInvariant` is of the counts. In an audit the processed rows are the
quarantined ones; in the batches, at least the incomplete rows and the invalid rows of
the batches passed are counted as quarantined, and exactly those while the database
refuses nothing, when also the processed rows are the quarantined ones and the valid
ones of the stored batches; and every batch is asked for once, in hand or queued. At
the end every batch has passed, which gives the two theorems. `ThresholdHolds` proves
`Spec => []ThresholdKept` with all faults, because a retry may count a row twice and
never forgets one. `CountsAreExact` proves `CountsAddUp` while
the database refuses nothing; a retried audit and an unanswered commit count twice.

`FoldTheorems` has the facts of sums these need: a fold of the community modules is a
recursive function, so that what it computes for every set needs an induction. It is
done without the induction theorems of the library, by the least counterexample: a
non-empty set of finite sets has a least one (`LeastSet`).

**Intake.** `TypeCorrect` is of any deliveries. The invariant of the others,
`NamesInvariant`, assumes `DistinctNames`, since `SameName` shows what equal names do.
A name is then one file in one directory, and belongs to the thread of the directory
into which it was delivered, so that the two threads never meet over a file, only over
a hash. A row gives the name of a file of its hash that was taken in, what a
thread is about to do says what it knows of the file, and what was
imported is not pending again. The last is why `ContentIsImportedOnce` holds, though
both threads may find a hash unknown before either inserts it: the second
`add` finds the key taken. It needs no more; nor does it matter whether the
commit was answered. `PendingFilesAreInPlace` and `DuplicatesHaveOriginals` need
`ClaimsFit` too: no thread works on a file that is registered, which an
unanswered commit breaks. `NoFileIsForgotten` follows a file in `processing/` to the
work, the row or the equal file that accounts for it.

**Records.** From `ContentsAssumption`, `TeamAssumption`, `NoFileAssumption` and
`KeysAssumption` (the three dimensions have keys of their own, and a date is no
number). `TypeCorrect` and `ForeignKeysHold` share the invariant
`StoreInv == TypeOK /\ References`. `DimensionsHold` speaks of what is committed and
says nothing of the session that will be committed next, so `References` says of the
tables, and of the open session (`Session`), that no two rows of the dimensions share
an id and the sequence is ahead of every id (`Numbered`), that all facts, pending
ones too, refer to rows that are there (`AllRefer`), and of the caches that they know
no id its tables do not give. The last is what a rollback of the session would
destroy if the repositories outlived it; `Retried` makes new ones. `GetOrCreate`
and `AddSession` are the two lemmas that carry it through a row, `EndStore` through
a commit, a rollback and a commit whose answer is lost.

`AlertsAreBacked` proves `Spec => []AlertIsBacked` from `AlertsInv`, which adds that an
open session keeps every stored lead with its id (`Keeps`; otherwise a commit could
drop a lead that was alerted while the session was open), and that a run of
`handle_mql_alerts` has written an e-mail on each lead it is about to record. That a
lead is still there when it is recorded is not in the invariant, and not true: it is
the foreign key of `lead_alerts`, in `commit_mql_alerts`.

`LeadsAreSentOnce` proves `Spec => []SentOnceButForMishaps` by counting. The excuses
are the outages, the crashes and the files that failed. A lead is in at most one more
e-mail than there are excuses, and in no more than excuses while it is neither on
record nor sent by the run that is under way (`CountFits`). A run that has lost a lead,
because the lead was rolled back, cannot commit, so that its e-mails will be written
again: it owes an excuse, which is the failed file. The ids of leads
are never given again, because the sequence is ahead of all of them (`IdsInv`).

`LeadsFollowTheirHistory` and `FactsFollowTheLog` prove `Spec => []LeadsAreTheirHistory`
and `Spec => []FactsAreFirstSales`, with all faults. Both speak of what is committed, and
a commit makes the session's tables the committed ones; so neither is inductive.
`LogInvariant`, in `RecordsInvariant`, says the same of the open session and of the log
with the rows that the session has taken (`SessionLog`), and what that needs:

- A file is dispatched once, and the file in hand last (`DispatchedOnce`); its session
  goes through the next batch, or again through the last (`InOrder`). So a row that is
  taken is in the log already, after an unanswered commit, or its place is after all
  others (`NextEntry`), and the first entries change by one or not at all (`FirstsGrow`).
- A lead's row: `apply_update` and the check of the snapshots' key turn what the history
  makes of a lead into what the longer history does (`HistoryGrows`, `UpdateOfLead`).
- A sale's row: `check_exists` answers yes exactly if the log has its transaction and SKU
  (`KnownSale`). It asks for the product's id, so this rests on `Numbered`, and on
  `seen_sales` knowing the facts that no query sees before a flush (`SeenFits`); a fact
  that is added is then the last of a longer list (`FactsOfNewSale`).
- A commit: the session's log, all rows taken, is the log (`AllTaken`). A rollback of the
  session, or of the process, leaves tables and log as they were.
- `clean_up` takes the file's rows out of the log (`FileTakenOut`), its snapshots out of
  each history (`HistoryWithout`), and `rollback` makes of a lead what the rest of its
  history does (`RollbackIsMadeOf`). The log of sales stays, since a file with a sale
  cannot be rolled back.

That a key which is in the log has a first entry is an induction over places, and is
done by the least one (`LeastNumber` of `FoldTheorems`). TLC found `LogInvariant` to hold in all states of `Records` before it
was proved.

**ColdStorage.** `ArchivingLosesNothing` proves `Spec => []NothingIsLost`. The invariant
`Conserved` follows a listed file through the two loops: while the zip is written its
place has it, and the zip too once its turn has come; while files are deleted, those
still to be deleted are in a closed archive. `FilesAreZippedOnce` proves
`Spec => []ZippedOnceButForMishaps` from `Counted`: a file that is not about to be
deleted, and has not been, is in at most as many archives as the job was interrupted,
and any other in at most one more. An interruption pays for the archive that it leaves of
a file still in its place, be it that the zip was finished (`CloseCounts`) or that the
interruption itself closed it (`FailureCounts`).

*Only model-checked.* Every safety property of the passing runs is proved.
`FailedLeavesNothing`, `SettledIsLocated` and `CountsAddUp` are invariants of `Restarts`,
which has no outages; the theorems say of them what they say there.
`EveryFileSettles`, `EveryDeliveryIsDealtWith`, `PolledFilesAreTakenIn` and
`OldFilesGoCold` are liveness properties under fairness and out of the prover's reach,
as is `ENABLED`. The runs that violate their property show it on an instance, which is
all there is to show.

## What is left

The components are modelled and their safety is proved. Four hazards have no property:
that `seen_files` is never pruned (`apscheduler_runner.py:108`), which is a file that is
staged late and never lost; that a file may be staged while it is written
(`watchdog_runner.py:31`), which needs a model of the writer; and that the system fault of
`stage_file` and the abortion for an unknown header name no path (`message_bus.py:103`,
`safety_wrappers.py:41`), which the model does as the code does and the properties
take as given. The rest would be the
liveness properties, once a prover can take fairness apart.

## Not modelled

Configuration, logging, error classes, migrations and the abstract interfaces keep no
state a property could speak of. MIME detection, hashing, pandas and pydantic are
external and appear as what a file's content gives; the masks with which `audit_csv`
finds incomplete rows and the order of its chunks are in the `Reading` of a file, not
computed. `handle_quarantine_alerts` writes log lines only, and
`send_system_failure_alert` one file nobody reads. Commits whose answer is lost are
modelled for the registration of a file and for a batch; in the other transactions
they are left out.

-------------------------------- MODULE Intake --------------------------------
(***************************************************************************)
(* How files enter Custos.  Senders put files into two directories; the    *)
(* watcher's thread stages those of one as it is told of them, the job     *)
(* _poll_directory those of the other as it finds them, and both move them *)
(* by their bare names into the one directory processing/, hash them, and  *)
(* register a hash the table "files" does not hold.  The job               *)
(* dispatch_pending_files takes the registered files, one by one, by the   *)
(* name in the row.                                                        *)
(*                                                                         *)
(* Module Pipeline follows one registered file through every handler and   *)
(* takes for granted that the file lies in processing/.  Here that is what *)
(* is in question, and the pipeline is what it promises in FileImport: a   *)
(* registered file is begun, read, and settled.                            *)
(*                                                                         *)
(* An action is one effect on a directory or on the table; between two     *)
(* effects of a thread the other threads run.  A definition under a        *)
(* comment "Slip" is as in module Pipeline.                                *)
(***************************************************************************)
EXTENDS Naturals, Sequences, FiniteSets

CONSTANTS
  Deliveries,  \* the files that senders put, each at most once
  Names,       \* file names
  Hashes,      \* hashes of file contents
  Nothing,     \* no file, no name, no hash
  Manifests,   \* what the deliveries may be
  MaxMishaps   \* bound on the faults, of all kinds together

(***************************************************************************)
(* What stage_file can tell of a file: its name does not end in .csv, its  *)
(* MIME type is not that of a text, or it is a text, whose header has key  *)
(* fields of some of the registered types.  (An empty file has no text's   *)
(* MIME type, so its answer to a missing header is never given.)           *)
(***************************************************************************)
Kinds     == {"not_csv", "bad_mime", "text"}
FileTypes == {"leads", "sales"}

Threads  == {"watcher", "poller"}
Incoming == [watcher |-> "leads", poller |-> "sales"]

Directories ==
  {"leads", "sales", "processing", "bad_files", "duplicate_files", "system_failure", "finished"}

Parcel ==
  [directory : {"leads", "sales"}, name : Names, kind : Kinds, matches : SUBSET FileTypes,
   hash : Hashes]

ASSUME DeliveriesAssumption == IsFiniteSet(Hashes) /\ Nothing \notin Deliveries \cup Names \cup Hashes \cup FileTypes
ASSUME ManifestsAssumption == Manifests \subseteq [Deliveries -> Parcel]
ASSUME BoundsAssumption == MaxMishaps \in Nat

-------------------------------------------------------------------------------
VARIABLES
  parcel,     \* what each delivery is, fixed
  delivered,  \* the deliveries made so far
  disk,       \* the file of each name in each directory
  up,         \* whether the process runs
  created,    \* the names the observer has still to report to on_created
  seen,       \* the attribute seen_files of each runner
  work,       \* what each staging thread is doing
  row,        \* the table "files", by hashed_file, which is unique
  job,        \* what the job dispatch_pending_files is doing
  imports,    \* the reads of the pipeline so far: the row's hash and the file's
  locked,     \* whether data/incoming/SYSTEM_HALTED.lock exists
  mishaps     \* how many faults of each kind there were

memory  == <<created, seen, work, job>>
vars    == <<parcel, delivered, disk, up, memory, row, imports, locked, mishaps>>

Steps ==
  {"rest", "stage_file", "check_headers", "handle_bad_file", "refuse_arrival",
   "get_file_hash", "check_exists", "add", "handle_duplicate_file"}

Work == [at : Steps, name : Names \cup {Nothing}, hash : Hashes \cup {Nothing}, attempt : 1..3]
Row  == [status : {"ABSENT", "PENDING", "BUSY", "SETTLED"},
         filename : Names \cup {Nothing}, created_at : Nat]
Job  == [at : {"rest", "audit_csv", "finish"}, hash : Hashes \cup {Nothing}]

Resting == [at |-> "rest", name |-> Nothing, hash |-> Nothing, attempt |-> 1]
NoJob   == [at |-> "rest", hash |-> Nothing]
Absent  == [status |-> "ABSENT", filename |-> Nothing, created_at |-> 0]

Init ==
  /\ parcel \in Manifests
  /\ delivered = {}
  /\ disk = [place \in Directories |-> [n \in Names |-> Nothing]]
  /\ up = TRUE
  /\ created = {}
  /\ seen = [t \in Threads |-> {}]
  /\ work = [t \in Threads |-> Resting]
  /\ row = [h \in Hashes |-> Absent]
  /\ job = NoJob
  /\ imports = << >>
  /\ locked = FALSE
  /\ mishaps = [outages |-> 0, unanswered |-> 0, errors |-> 0, crashes |-> 0]

-------------------------------------------------------------------------------
(***************************************************************************)
(* The directories.  shutil.move renames: a file that has the name in the  *)
(* destination is gone.                                                    *)
(***************************************************************************)
Has(place, n) == disk[place][n] # Nothing

Move(from, to, n) ==
  /\ Has(from, n)
  /\ disk' = [disk EXCEPT ![from][n] = Nothing, ![to][n] = disk[from][n]]

Staged(n) == parcel[disk["processing"][n]]

\* A sender puts a file; it does not overwrite one that still waits.  The observer
\* reports what arrives in its directory while it runs.
deliver(d) ==
  LET p == parcel[d]
  IN  /\ d \notin delivered
      /\ ~Has(p.directory, p.name)
      /\ delivered' = delivered \cup {d}
      /\ disk' = [disk EXCEPT ![p.directory][p.name] = d]
      /\ created' = IF up /\ p.directory = Incoming["watcher"]
                    THEN created \cup {p.name} ELSE created
      /\ UNCHANGED <<up, seen, work, row, job, imports, locked, mishaps>>

(***************************************************************************)
(* The threads.  system_halt_check looks for /incoming/SYSTEM_HALTED.lock, *)
(* which nothing creates: it never stops a runner.                         *)
(***************************************************************************)
At(t, s) == up /\ work[t].at = s

\* Thread t goes on with step s of what it is doing, or is done with it.
Continue(t, s) == work' = [work EXCEPT ![t].at = s]
Rest(t)        == work' = [work EXCEPT ![t] = Resting]

TakeUp(t, n, s) ==
  /\ seen' = [seen EXCEPT ![t] = @ \cup {n}]
  /\ work' = [work EXCEPT ![t] = [Resting EXCEPT !.at = s, !.name = n]]

IsCSV(place, n) == parcel[disk[place][n]].kind # "not_csv"

\* wait_for_file_ready returns at once: no one else takes a file from the directory.
on_created(n) ==
  /\ At("watcher", "rest")
  /\ n \in created
  /\ created' = created \ {n}
  /\ IF n \in seen["watcher"]
     THEN UNCHANGED <<seen, work>>
     ELSE TakeUp("watcher", n, IF IsCSV("leads", n) THEN "stage_file" ELSE "refuse_arrival")
  /\ UNCHANGED <<delivered, disk, up, row, job, imports, locked, mishaps>>

poll_directory(n) ==
  /\ At("poller", "rest")
  /\ Has("sales", n)
  /\ IsCSV("sales", n)
  /\ n \notin seen["poller"]
  /\ TakeUp("poller", n, "stage_file")
  /\ UNCHANGED <<delivered, disk, up, created, row, job, imports, locked, mishaps>>

\* The type of a file; "Nothing" is an UnknownTypeError.
identify_from_headers(assumed_type, matches) ==
  IF Cardinality(matches) = 1
  THEN CHOOSE type \in matches : TRUE
  ELSE IF assumed_type \in matches THEN assumed_type ELSE Nothing

(***************************************************************************)
(* stage_file: moves the file, then looks at it.  A header of no type is   *)
(* answered with FileProcessingAborted for the path 'UNKNOWN', since a     *)
(* StageFileCommand has no filepath: its handler finds nothing to move.    *)
(***************************************************************************)
stage_file_moves(t) ==
  /\ At(t, "stage_file")
  /\ Move(Incoming[t], "processing", work[t].name)
  /\ Continue(t, "check_headers")
  /\ UNCHANGED <<delivered, up, created, seen, row, job, imports, locked, mishaps>>

stage_file(t) ==
  /\ At(t, "check_headers")
  /\ Has("processing", work[t].name)
  /\ LET staged == Staged(work[t].name)
         type   == identify_from_headers(Incoming[t], staged.matches)
     IN  CASE staged.kind # "text" -> Continue(t, "handle_bad_file")
           [] staged.kind = "text" /\ type = Nothing -> Rest(t)
           [] staged.kind = "text" /\ type # Nothing -> Continue(t, "get_file_hash")
  /\ UNCHANGED <<delivered, disk, up, created, seen, row, job, imports, locked, mishaps>>

\* BadFileDetected, from the watcher for what arrives and from stage_file.
handle_bad_file(t) ==
  /\ \/ At(t, "refuse_arrival") /\ Move(Incoming[t], "bad_files", work[t].name)
     \/ At(t, "handle_bad_file") /\ Move("processing", "bad_files", work[t].name)
  /\ Rest(t)
  /\ UNCHANGED <<delivered, up, created, seen, row, job, imports, locked, mishaps>>

(***************************************************************************)
(* file_staged_handler: the hash is taken of the file that now has the     *)
(* name; the lookup and the insert are two statements.                     *)
(***************************************************************************)
get_file_hash(t) ==
  /\ At(t, "get_file_hash")
  /\ Has("processing", work[t].name)
  /\ work' = [work EXCEPT ![t].at = "check_exists", ![t].hash = Staged(work[t].name).hash]
  /\ UNCHANGED <<delivered, disk, up, created, seen, row, job, imports, locked, mishaps>>

Registered(h) == row[h].status # "ABSENT"

existing_file(t) == Registered(work[t].hash)

check_exists(t) ==
  /\ At(t, "check_exists")
  /\ Continue(t, IF existing_file(t) THEN "handle_duplicate_file" ELSE "add")
  /\ UNCHANGED <<delivered, disk, up, created, seen, row, job, imports, locked, mishaps>>

NewRow(n) ==
  [status |-> "PENDING", filename |-> n,
   created_at |-> 1 + Cardinality({h \in Hashes : Registered(h)})]

\* Slip: an upsert.
AfterAdd_replacing(t) == [row EXCEPT ![work[t].hash] = NewRow(work[t].name)]

\* The unique index refuses a hash that was registered since the lookup: an
\* IntegrityError, which the bus swallows.
AfterAdd(t) ==
  IF existing_file(t) THEN row ELSE [row EXCEPT ![work[t].hash] = NewRow(work[t].name)]

file_staged_handler(t) ==
  /\ At(t, "add")
  /\ row' = AfterAdd(t)
  /\ Rest(t)
  /\ UNCHANGED <<delivered, disk, up, created, seen, job, imports, locked, mishaps>>

\* Slip: the file that is registered is moved, not the one that was staged.
DuplicateName_of_row(t) == row[work[t].hash].filename

DuplicateName(t) == work[t].name

handle_duplicate_file(t) ==
  /\ At(t, "handle_duplicate_file")
  /\ Move("processing", "duplicate_files", DuplicateName(t))
  /\ Rest(t)
  /\ UNCHANGED <<delivered, up, created, seen, row, job, imports, locked, mishaps>>

\* Another thread has taken the file of the name away.  The error of stage_file is
\* a system fault of the path 'unknown'; those of the events are swallowed.
staged_file_is_gone(t) ==
  /\ up
  /\ work[t].at \in {"check_headers", "handle_bad_file", "get_file_hash", "handle_duplicate_file"}
  /\ ~Has("processing", work[t].name)
  /\ locked' = (locked \/ work[t].at = "check_headers")
  /\ Rest(t)
  /\ UNCHANGED <<delivered, disk, up, created, seen, row, job, imports, mishaps>>

-------------------------------------------------------------------------------
(***************************************************************************)
(* The pipeline, by what it promises.                                      *)
(***************************************************************************)
\* Slip: a pending file counts as busy.
check_for_busy_files_or_pending == \E h \in Hashes : row[h].status \in {"PENDING", "BUSY"}

check_for_busy_files == \E h \in Hashes : row[h].status = "BUSY"

oldest_pending(h) ==
  /\ row[h].status = "PENDING"
  /\ \A g \in Hashes : row[g].status = "PENDING" => row[h].created_at <= row[g].created_at

dispatch_pending_files(h) ==
  /\ up
  /\ job = NoJob
  /\ ~check_for_busy_files
  /\ oldest_pending(h)
  /\ row' = [row EXCEPT ![h].status = "BUSY"]
  /\ job' = [at |-> "audit_csv", hash |-> h]
  /\ UNCHANGED <<delivered, disk, up, created, seen, work, imports, locked, mishaps>>

\* The rows that are imported are those of the file that has the name now.
audit_csv ==
  LET n == row[job.hash].filename
  IN  /\ up
      /\ job.at = "audit_csv"
      /\ Has("processing", n)
      /\ imports' = Append(imports, [row |-> job.hash, file |-> Staged(n).hash])
      /\ job' = [job EXCEPT !.at = "finish"]
      /\ UNCHANGED <<delivered, disk, up, created, seen, work, row, locked, mishaps>>

\* The file is moved to the directory of its outcome, and the status says so.
finish ==
  /\ up
  /\ job.at = "finish"
  /\ Move("processing", "finished", row[job.hash].filename)
  /\ row' = [row EXCEPT ![job.hash].status = "SETTLED"]
  /\ job' = NoJob
  /\ UNCHANGED <<delivered, up, created, seen, work, imports, locked, mishaps>>

\* A registered file that is not there: a system fault of the audit, or an error of
\* the last event; the row stays busy.
registered_file_is_gone ==
  /\ up
  /\ job.at # "rest"
  /\ ~Has("processing", row[job.hash].filename)
  /\ locked' = (locked \/ job.at = "audit_csv")
  /\ job' = NoJob
  /\ UNCHANGED <<delivered, disk, up, created, seen, work, row, imports, mishaps>>

-------------------------------------------------------------------------------
(***************************************************************************)
(* What may go wrong.                                                      *)
(***************************************************************************)
\* "outages" are operations the database refuses, "unanswered" commits it does not
\* answer, "errors" other exceptions.
Mishap(kind) ==
  /\ mishaps.outages + mishaps.unanswered + mishaps.errors + mishaps.crashes < MaxMishaps
  /\ mishaps' = [mishaps EXCEPT ![kind] = @ + 1]

\* Slip: the event has no filepath.
MovedToSystemFailure_unknown(n) == disk

\* handle_system_fault: the lock first, then the move, if there is a file to move.
MovedToSystemFailure(n) ==
  IF Has("processing", n)
  THEN [disk EXCEPT !["processing"][n] = Nothing, !["system_failure"][n] = disk["processing"][n]]
  ELSE disk

\* Slip: repositories commit, and what add inserted survives its transaction.
AfterRollback_of_nothing(t) == IF work[t].at = "add" THEN AfterAdd(t) ELSE row

AfterRollback(t) == row

\* OperationalError in the lookup or the insert: file_staged_handler is run again
\* from its first line, and the third time the file is moved away.
Again(t) ==
  \/ /\ work[t].attempt < 3
     /\ work' = [work EXCEPT ![t] =
          [work[t] EXCEPT !.at = "get_file_hash", !.hash = Nothing, !.attempt = @ + 1]]
     /\ UNCHANGED <<disk, locked>>
  \/ /\ work[t].attempt = 3
     /\ locked' = TRUE
     /\ disk' = MovedToSystemFailure(work[t].name)
     /\ Rest(t)

operational_error(t) ==
  /\ up
  /\ work[t].at \in {"check_exists", "add"}
  /\ Mishap("outages")
  /\ row' = AfterRollback(t)
  /\ Again(t)
  /\ UNCHANGED <<delivered, up, created, seen, job, imports>>

\* The connection breaks after the database has committed: the same error, and the
\* handler that is run again meets its own row.
commit_unanswered(t) ==
  /\ At(t, "add")
  /\ ~existing_file(t)
  /\ Mishap("unanswered")
  /\ row' = AfterAdd(t)
  /\ Again(t)
  /\ UNCHANGED <<delivered, up, created, seen, job, imports>>

\* Any other exception ends what the thread does with the file.
unhandled_error(t) ==
  /\ up
  /\ work[t].at # "rest"
  /\ Mishap("errors")
  /\ locked' = (locked \/ work[t].at \in {"stage_file", "check_headers"})
  /\ Rest(t)
  /\ UNCHANGED <<delivered, disk, up, created, seen, row, job, imports>>

\* A file that module Pipeline leaves busy, in processing/ or moved away.
pipeline_fault ==
  /\ up
  /\ job.at # "rest"
  /\ Mishap("errors")
  /\ job' = NoJob
  /\ \/ UNCHANGED <<disk, locked>>
     \/ locked' = TRUE /\ disk' = MovedToSystemFailure(row[job.hash].filename)
  /\ UNCHANGED <<delivered, up, created, seen, work, row, imports>>

\* Slip: seen_files is kept in the database, and outlives the process.
crash_but_seen ==
  /\ up
  /\ Mishap("crashes")
  /\ up' = FALSE
  /\ created' = {}
  /\ work' = [t \in Threads |-> Resting]
  /\ job' = NoJob
  /\ UNCHANGED <<delivered, disk, seen, row, imports, locked>>

crash ==
  /\ up
  /\ Mishap("crashes")
  /\ up' = FALSE
  /\ created' = {}
  /\ seen' = [t \in Threads |-> {}]
  /\ work' = [t \in Threads |-> Resting]
  /\ job' = NoJob
  /\ UNCHANGED <<delivered, disk, row, imports, locked>>

\* main: new runners.  The observer reports nothing that is already there.
main ==
  /\ ~up
  /\ up' = TRUE
  /\ UNCHANGED <<delivered, disk, memory, row, imports, locked, mishaps>>

-------------------------------------------------------------------------------
Watcher == \E n \in Names : on_created(n)
Poller  == \E n \in Names : poll_directory(n)

Staging(t) ==
  \/ stage_file_moves(t) \/ stage_file(t) \/ handle_bad_file(t)
  \/ get_file_hash(t) \/ check_exists(t) \/ file_staged_handler(t)
  \/ handle_duplicate_file(t) \/ staged_file_is_gone(t)

Dispatcher ==
  \/ \E h \in Hashes : dispatch_pending_files(h)
  \/ audit_csv \/ finish \/ registered_file_is_gone

Faults ==
  \/ \E t \in Threads : operational_error(t) \/ commit_unanswered(t) \/ unhandled_error(t)
  \/ pipeline_fault \/ crash \/ main

Next ==
  /\ \/ \E d \in Deliveries : deliver(d)
     \/ Watcher \/ Poller \/ \E t \in Threads : Staging(t)
     \/ Dispatcher
     \/ Faults
  /\ UNCHANGED parcel

Spec == Init /\ [][Next]_vars

\* The observer's thread handles what it is told of, the two jobs run every
\* interval_seconds, and none of the three waits for another.
FairSpec ==
  /\ Spec
  /\ WF_vars((Watcher \/ Staging("watcher")) /\ UNCHANGED parcel)
  /\ WF_vars((Poller \/ Staging("poller")) /\ UNCHANGED parcel)
  /\ WF_vars(Dispatcher /\ UNCHANGED parcel)
===============================================================================

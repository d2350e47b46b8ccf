--------------------------- MODULE IntakeProperties ---------------------------
(***************************************************************************)
(* What the intake of module Intake must and must not do.  Most of it      *)
(* rests on names: every file that was staged and not yet finished lies in *)
(* one directory, under its bare name.                                     *)
(***************************************************************************)
EXTENDS Intake

\* The deliveries bear different names, in both directories and for ever.
DistinctNames == \A d, e \in Deliveries : parcel[d].name = parcel[e].name => d = e

Working(t) == work[t].at # "rest"

\* Delivery d lies in the directory of that name.
LiesIn(d, place) == disk[place][parcel[d].name] = d

RowOf(d) == row[parcel[d].hash]

DirectoriesOK ==
  /\ parcel \in Manifests
  /\ delivered \subseteq Deliveries
  /\ disk \in [Directories -> [Names -> delivered \cup {Nothing}]]
  /\ \A place \in Directories, n \in Names : Has(place, n) => parcel[disk[place][n]].name = n

ProcessOK ==
  /\ up \in BOOLEAN
  /\ created \subseteq Names
  /\ seen \in [Threads -> SUBSET Names]
  /\ work \in [Threads -> Work]
  /\ \A t \in Threads :
       /\ Working(t) => work[t].name \in seen[t]
       /\ work[t].at \in {"check_exists", "add", "handle_duplicate_file"} => work[t].hash \in Hashes
  /\ job \in Job
  /\ job.at # "rest" => job.hash \in Hashes /\ row[job.hash].status = "BUSY"
  /\ ~up => job = NoJob /\ \A t \in Threads : work[t] = Resting

\* The variables have their types; a file bears its own name wherever it lies, and
\* the job works on a busy row.
TypeOK ==
  /\ DirectoriesOK
  /\ ProcessOK
  /\ row \in [Hashes -> Row]
  /\ \A h \in Hashes : Registered(h) => row[h].filename \in Names
  /\ imports \in Seq([row : Hashes, file : Hashes])
  /\ locked \in BOOLEAN
  /\ mishaps \in [outages : Nat, unanswered : Nat, errors : Nat, crashes : Nat]

-------------------------------------------------------------------------------
EveryCommitIsAnswered == mishaps.unanswered = 0

\* A pending row is a claim on a file in processing/ that two staging threads, their
\* retries and the duplicates they move away must not disturb: it is there, and it
\* is the one that was hashed.  (A registration whose answer is lost breaks it: its
\* retry takes the file it has registered for a duplicate.)
PendingIsInPlace ==
  DistinctNames /\ EveryCommitIsAnswered =>
    \A h \in Hashes : row[h].status = "PENDING" =>
      Has("processing", row[h].filename) /\ Staged(row[h].filename).hash = h

\* Idempotency by hash: the rows of one content are imported once, under its own
\* row, however many equal files both threads stage at the same time and whatever
\* is retried though it was committed.
ImportedOnce ==
  DistinctNames =>
    \A i, j \in DOMAIN imports :
      /\ imports[i].row = imports[i].file
      /\ imports[i].file = imports[j].file => i = j

\* A file is set aside as a duplicate of another: never the one that is registered,
\* but for the retry of a commit that was not answered.
DuplicateHasAnOriginal ==
  DistinctNames /\ EveryCommitIsAnswered =>
    \A d \in delivered : LiesIn(d, "duplicate_files") =>
      RowOf(d).status # "ABSENT" /\ RowOf(d).filename # parcel[d].name

IsText(d)       == parcel[d].kind = "text"
Unidentified(d) == IsText(d) /\ parcel[d].matches = {}

\* As long as the process lives and the disk obeys, a file rests in processing/ for
\* one of three reasons: it is registered and not settled, it is equal to a file
\* that was registered between its lookup and its insert, or its header is of no
\* type.  (For the last two there is neither a row nor a handler that moves them.)
StraysAreKnown ==
  DistinctNames /\ mishaps.errors = 0 /\ mishaps.crashes = 0 =>
    \A d \in delivered : LiesIn(d, "processing") =>
      \/ \E t \in Threads : Working(t) /\ work[t].name = parcel[d].name
      \/ RowOf(d).status \in {"PENDING", "BUSY"}
      \/ RowOf(d).status = "SETTLED" /\ RowOf(d).filename # parcel[d].name
      \/ Unidentified(d)

NoMishap == mishaps = [outages |-> 0, unanswered |-> 0, errors |-> 0, crashes |-> 0]

\* A file no glob matches, or whose header is of no type, is dealt with by leaving it.
DealtWith(d) ==
  CASE Unidentified(d)              -> LiesIn(d, "processing")
    [] ~Unidentified(d) /\ IsText(d) -> RowOf(d).status = "SETTLED"
    [] parcel[d].kind = "bad_mime"  -> LiesIn(d, "bad_files")
    [] parcel[d].kind = "not_csv"   ->
         LiesIn(d, IF parcel[d].directory = "sales" THEN "sales" ELSE "bad_files")

\* Every delivery is dealt with, whichever runner must notice it, when nothing goes
\* wrong: its content is settled, or it is refused.
EveryDeliveryIsDealtWith ==
  DistinctNames => \A d \in Deliveries : d \in delivered ~> (DealtWith(d) \/ ~NoMishap)

\* Delivery d waits for the poller, under a name that its glob matches.
Waits(d) == LiesIn(d, "sales") /\ parcel[d].kind # "not_csv"

\* The poller finds its files again: as long as the process runs, the time comes when
\* none of them waits, however often it was down before and whatever a crash cut off.
\* (Runs with an exception are excused: one in the poller's thread before the move
\* leaves a file there until the next start.)
PolledFilesAreTakenIn ==
  DistinctNames => []<>(mishaps.errors > 0 \/ ~up \/ ~\E d \in Deliveries : Waits(d))

-------------------------------------------------------------------------------
(***************************************************************************)
(* What the repository says of the program and the program does not do.    *)
(***************************************************************************)

\* alerts.py:134, "The Custos ETL Pipeline has automatically halted to prevent data
\* corruption": once the lock is there the watcher takes up no file and no job is
\* dispatched.  (The poller checks once for all files that lie there.)
HaltHolds ==
  [][locked => /\ ~Working("watcher") => ~Working("watcher")'
               /\ job = NoJob => job' = NoJob]_vars

\* staging.py:40, "Moves the file from 'incoming' to a matching subfolder in
\* 'processing'": files of the two directories do not meet, and a file that was
\* delivered is somewhere.
NothingIsReplaced ==
  \A d \in delivered : \E place \in Directories : LiesIn(d, place)
===============================================================================

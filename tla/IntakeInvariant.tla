---------------------------- MODULE IntakeInvariant ----------------------------
(***************************************************************************)
(* The inductive invariant of module Intake, for deliveries that bear      *)
(* different names.  A name is then one file, and belongs to the thread of *)
(* the directory into which the file was delivered.                        *)
(***************************************************************************)
EXTENDS IntakeProperties

\* A delivered file has that name and that content, or came to thread t.
Content(n, h) == \E d \in delivered : parcel[d].name = n /\ parcel[d].hash = h
Came(t, n)    == \E d \in delivered : parcel[d].name = n /\ parcel[d].directory = Incoming[t]

TakenIn(n)      == ~Has("leads", n) /\ ~Has("sales", n)
IsRegistered(n) == \E h \in Hashes : Registered(h) /\ row[h].filename = n

\* A file lies in one directory, and in an incoming one only where it was put.
OneCopy ==
  /\ \A n \in Names, p, q \in Directories : Has(p, n) /\ Has(q, n) => p = q
  /\ \A n \in Names : Has("sales", n) => Came("poller", n)

\* What a runner has seen came to it; what the observer has still to report lies
\* where it was put, and was not taken up.
ReportsFit ==
  /\ \A t \in Threads, n \in Names : n \in seen[t] => Came(t, n)
  /\ \A n \in created : Came("watcher", n) /\ Has("leads", n) /\ n \notin seen["watcher"]

\* The name in a row is that of a file with the row's hash, which was taken in.
RowsFit ==
  /\ \A h \in Hashes : Registered(h) => Content(row[h].filename, h)
  /\ \A n \in Names : IsRegistered(n) => TakenIn(n)

\* Where a thread is in its work tells what is already known of the file.  A file of
\* its own that is registered, it meets only when it starts again.
WorkFits(t) ==
  LET n == work[t].name
  IN  /\ Working(t) /\ work[t].at \notin {"stage_file", "refuse_arrival"} => TakenIn(n)
      /\ work[t].at \in {"check_exists", "add", "handle_duplicate_file"} => Content(n, work[t].hash)
      /\ work[t].at = "handle_duplicate_file" => existing_file(t)
      /\ work[t].at \in {"stage_file", "refuse_arrival", "check_headers", "handle_bad_file", "add"} =>
           ~IsRegistered(n)

\* What was imported is no longer pending, and what the job is about to read is new.
ImportsFit ==
  /\ \A i \in DOMAIN imports :
       /\ imports[i].row = imports[i].file
       /\ row[imports[i].row].status \in {"BUSY", "SETTLED"}
       /\ job.at = "audit_csv" => imports[i].row # job.hash
  /\ \A i, j \in DOMAIN imports : imports[i].row = imports[j].row => i = j

NamesInvariant ==
  /\ OneCopy
  /\ ReportsFit
  /\ RowsFit
  /\ \A t \in Threads : WorkFits(t)
  /\ ImportsFit

\* While every commit is answered no thread works on a file that is registered, so
\* that what it moves is its own, and a pending file stays where it was hashed.
ClaimsFit ==
  /\ \A t \in Threads : Working(t) => ~IsRegistered(work[t].name)
  /\ \A t \in Threads :
       Working(t) /\ work[t].at \notin {"stage_file", "refuse_arrival"} =>
         Has("processing", work[t].name)
  /\ \A h \in Hashes : row[h].status = "PENDING" => Has("processing", row[h].filename)
  /\ \A n \in Names : Has("duplicate_files", n) =>
       \E h \in Hashes : Content(n, h) /\ Registered(h) /\ row[h].filename # n

IntakeInv ==
  DistinctNames =>
    /\ NamesInvariant
    /\ EveryCommitIsAnswered => ClaimsFit
===============================================================================

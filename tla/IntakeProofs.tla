----------------------------- MODULE IntakeProofs -----------------------------
(***************************************************************************)
(* Theorems about the intake, for every set of deliveries, of names and of *)
(* contents, and for any number of faults.  The second part is about the   *)
(* files of deliveries that bear different names: that what one thread     *)
(* does with a name disturbs no file of another thread, no row and no      *)
(* import.                                                                 *)
(***************************************************************************)
EXTENDS IntakeInvariant, FiniteSetTheorems, TLAPS

LEMMA Places ==
  /\ Directories # {} /\ \A t \in Threads : Incoming[t] \in {"leads", "sales"}
  /\ {"leads", "sales", "processing", "bad_files", "duplicate_files", "system_failure", "finished"}
       \subseteq Directories
BY DEF Directories, Threads, Incoming

(***************************************************************************)
(* Moving a file.                                                          *)
(***************************************************************************)
\* What is moved bears its name where it comes to lie.
LEMMA MoveKeepsTypes ==
  ASSUME DirectoriesOK, delivered' = delivered, parcel' = parcel,
         NEW from \in Directories, NEW to \in Directories, NEW n \in Names,
         Move(from, to, n)
  PROVE  DirectoriesOK'
<1>1. /\ disk \in [Directories -> [Names -> delivered \cup {Nothing}]]
      /\ disk[from][n] \in delivered \cup {Nothing}
  BY DEF DirectoriesOK
<1>2. disk' \in [Directories -> [Names -> delivered \cup {Nothing}]]
  BY <1>1 DEF Move
<1>3. ASSUME NEW place \in Directories, NEW m \in Names, Has(place, m)'
      PROVE  parcel[disk'[place][m]].name = m
  <2>1. \/ disk'[place][m] = disk[place][m] /\ Has(place, m)
        \/ m = n /\ disk'[place][m] = disk[from][n] /\ Has(from, n)
    BY <1>1, <1>3 DEF Move, Has
  <2> QED BY <2>1 DEF DirectoriesOK
<1> QED BY <1>2, <1>3 DEF DirectoriesOK

LEMMA SystemFailureKeepsTypes ==
  ASSUME DirectoriesOK, delivered' = delivered, parcel' = parcel,
         NEW n \in Names, disk' = MovedToSystemFailure(n)
  PROVE  DirectoriesOK'
<1>1. CASE Has("processing", n)
  <2>1. Move("processing", "system_failure", n)
    BY <1>1 DEF MovedToSystemFailure, Move
  <2> QED BY <2>1, MoveKeepsTypes, Places
<1>2. CASE ~Has("processing", n)
  BY <1>2 DEF MovedToSystemFailure, DirectoriesOK, Has
<1> QED BY <1>1, <1>2

LEMMA DeliverKeepsTypes ==
  ASSUME DirectoriesOK, parcel' = parcel, NEW d \in Deliveries, deliver(d)
  PROVE  DirectoriesOK'
<1> DEFINE p == parcel[d]
<1>1. p \in Parcel
  BY ManifestsAssumption DEF DirectoriesOK
<1>2. p.directory \in Directories /\ p.name \in Names
  BY <1>1 DEF Parcel, Directories
<1>3. disk' \in [Directories -> [Names -> delivered' \cup {Nothing}]]
  BY <1>2 DEF DirectoriesOK, deliver
<1>4. ASSUME NEW place \in Directories, NEW m \in Names, Has(place, m)'
      PROVE  parcel[disk'[place][m]].name = m
  <2>1. \/ disk'[place][m] = disk[place][m] /\ Has(place, m)
        \/ m = p.name /\ disk'[place][m] = d
    BY <1>2, <1>4 DEF DirectoriesOK, deliver, Has
  <2> QED BY <2>1 DEF DirectoriesOK
<1> QED BY <1>3, <1>4 DEF DirectoriesOK, deliver

LEMMA DiskSame ==
  ASSUME DirectoriesOK, UNCHANGED <<parcel, delivered, disk>>
  PROVE  DirectoriesOK'
BY DEF DirectoriesOK, Has

(***************************************************************************)
(* The threads.                                                            *)
(***************************************************************************)
\* A file a thread works on has a name.
LEMMA WorkHasName ==
  ASSUME ProcessOK, NEW t \in Threads, Working(t)
  PROVE  work[t].name \in Names
BY DEF ProcessOK

LEMMA RestIsWork == Resting \in Work /\ Resting.at = "rest"
BY DEF Resting, Work, Steps

LEMMA WorkEdits ==
  ASSUME NEW w \in Work, NEW s \in Steps, NEW h \in Hashes \cup {Nothing}, NEW k \in 1..3
  PROVE  /\ [w EXCEPT !.at = s] \in Work
         /\ [w EXCEPT !.at = s, !.hash = h] \in Work
         /\ [w EXCEPT !.at = s, !.hash = h, !.attempt = k] \in Work
BY DEF Work

(***************************************************************************)
(* Parts of the type invariant.                                            *)
(***************************************************************************)
ThreadOK(t) ==
  /\ Working(t) => work[t].name \in seen[t]
  /\ work[t].at \in {"check_exists", "add", "handle_duplicate_file"} => work[t].hash \in Hashes

ThreadsOK ==
  /\ created \subseteq Names
  /\ seen \in [Threads -> SUBSET Names]
  /\ work \in [Threads -> Work]
  /\ \A t \in Threads : ThreadOK(t)

JobOK ==
  /\ job \in Job
  /\ job.at # "rest" => job.hash \in Hashes /\ row[job.hash].status = "BUSY"

StoppedOK == up \in BOOLEAN /\ (~up => job = NoJob /\ \A t \in Threads : work[t] = Resting)

RowsOK ==
  /\ row \in [Hashes -> Row]
  /\ \A h \in Hashes : Registered(h) => row[h].filename \in Names

RecordsOK ==
  /\ imports \in Seq([row : Hashes, file : Hashes])
  /\ locked \in BOOLEAN
  /\ mishaps \in [outages : Nat, unanswered : Nat, errors : Nat, crashes : Nat]

LEMMA TypeParts ==
  TypeOK <=> DirectoriesOK /\ ThreadsOK /\ JobOK /\ StoppedOK /\ RowsOK /\ RecordsOK
BY DEF TypeOK, ProcessOK, ThreadsOK, ThreadOK, JobOK, StoppedOK, RowsOK, RecordsOK

LEMMA TypePartsNext ==
  DirectoriesOK' /\ ThreadsOK' /\ JobOK' /\ StoppedOK' /\ RowsOK' /\ RecordsOK' => TypeOK'
BY DEF TypeOK, ProcessOK, ThreadsOK, ThreadOK, JobOK, StoppedOK, RowsOK, RecordsOK

\* Thread t goes on with its file, or is done with it.
LEMMA ThreadGoesOn ==
  ASSUME ThreadsOK, UNCHANGED <<created, seen>>, NEW t \in Threads, Working(t),
         NEW w \in Work, work' = [work EXCEPT ![t] = w], w.name = work[t].name,
         w.at \in {"check_exists", "add", "handle_duplicate_file"} => w.hash \in Hashes
  PROVE  ThreadsOK'
<1>1. work' \in [Threads -> Work]
  BY DEF ThreadsOK
<1>2. ASSUME NEW u \in Threads PROVE ThreadOK(u)'
  <2>1. CASE u = t
    BY <2>1 DEF ThreadsOK, ThreadOK, Working
  <2>2. CASE u # t
    <3>1. work'[u] = work[u]
      BY <2>2 DEF ThreadsOK
    <3> QED BY <3>1 DEF ThreadsOK, ThreadOK, Working
  <2> QED BY <2>1, <2>2
<1> QED BY <1>1, <1>2 DEF ThreadsOK

LEMMA ThreadContinues ==
  ASSUME ThreadsOK, UNCHANGED <<created, seen>>, NEW t \in Threads, Working(t),
         NEW s \in Steps, Continue(t, s),
         s \in {"check_exists", "add", "handle_duplicate_file"} => work[t].hash \in Hashes
  PROVE  ThreadsOK'
<1> DEFINE w == [work[t] EXCEPT !.at = s]
<1>1. w \in Work /\ w.name = work[t].name /\ w.at = s /\ w.hash = work[t].hash
  BY DEF ThreadsOK, Work
<1>2. work' = [work EXCEPT ![t] = w]
  BY DEF Continue
<1> QED BY <1>1, <1>2, ThreadGoesOn

LEMMA ThreadRests ==
  ASSUME ThreadsOK, UNCHANGED <<created, seen>>, NEW t \in Threads, Rest(t)
  PROVE  ThreadsOK'
<1>1. work' \in [Threads -> Work]
  BY RestIsWork DEF ThreadsOK, Rest
<1>2. ASSUME NEW u \in Threads PROVE ThreadOK(u)'
  <2>1. CASE u = t
    <3>1. work'[u] = Resting
      BY <2>1 DEF ThreadsOK, Rest
    <3> QED BY <3>1, RestIsWork DEF ThreadOK, Working
  <2>2. CASE u # t
    <3>1. work'[u] = work[u]
      BY <2>2 DEF ThreadsOK, Rest
    <3> QED BY <3>1 DEF ThreadsOK, ThreadOK, Working
  <2> QED BY <2>1, <2>2
<1> QED BY <1>1, <1>2 DEF ThreadsOK

LEMMA ThreadTakesUp ==
  ASSUME ThreadsOK, created' \subseteq created, NEW t \in Threads, NEW n \in Names,
         NEW s \in {"stage_file", "refuse_arrival"}, TakeUp(t, n, s)
  PROVE  ThreadsOK'
<1> DEFINE w == [Resting EXCEPT !.at = s, !.name = n]
<1>1. w \in Work /\ w.name = n /\ w.at = s
  <2>1. ASSUME NEW r \in Work
        PROVE  LET x == [r EXCEPT !.at = s, !.name = n]
               IN  x \in Work /\ x.name = n /\ x.at = s
    BY DEF Work, Steps
  <2> QED BY <2>1, RestIsWork
<1>2. /\ work' = [work EXCEPT ![t] = w]
      /\ seen' = [seen EXCEPT ![t] = @ \cup {n}]
  BY DEF TakeUp
<1>3. work' \in [Threads -> Work] /\ seen' \in [Threads -> SUBSET Names]
  BY <1>1, <1>2 DEF ThreadsOK
<1>4. ASSUME NEW u \in Threads PROVE ThreadOK(u)'
  <2>1. CASE u = t
    BY <1>1, <1>2, <2>1 DEF ThreadsOK, ThreadOK, Working
  <2>2. CASE u # t
    <3>1. work'[u] = work[u] /\ seen'[u] = seen[u]
      BY <1>2, <2>2 DEF ThreadsOK
    <3> QED BY <3>1 DEF ThreadsOK, ThreadOK, Working
  <2> QED BY <2>1, <2>2
<1> QED BY <1>3, <1>4 DEF ThreadsOK

LEMMA ThreadsSame ==
  ASSUME ThreadsOK, UNCHANGED <<created, seen, work>>
  PROVE  ThreadsOK'
BY DEF ThreadsOK, ThreadOK, Working

LEMMA JobSame ==
  ASSUME JobOK, UNCHANGED <<job, row>>
  PROVE  JobOK'
BY DEF JobOK

LEMMA StoppedSame ==
  ASSUME up, up' = up
  PROVE  StoppedOK'
BY DEF StoppedOK

LEMMA RowsSame ==
  ASSUME RowsOK, UNCHANGED row
  PROVE  RowsOK'
BY DEF RowsOK, Registered

LEMMA RecordsSame ==
  ASSUME RecordsOK, UNCHANGED imports, locked' \in BOOLEAN,
         UNCHANGED mishaps \/ \E kind \in {"outages", "unanswered", "errors", "crashes"} : Mishap(kind)
  PROVE  RecordsOK'
<1>1. mishaps' \in [outages : Nat, unanswered : Nat, errors : Nat, crashes : Nat]
  <2>1. CASE UNCHANGED mishaps
    BY <2>1 DEF RecordsOK
  <2>2. CASE \E kind \in {"outages", "unanswered", "errors", "crashes"} : Mishap(kind)
    <3>1. PICK kind \in {"outages", "unanswered", "errors", "crashes"} :
            mishaps' = [mishaps EXCEPT ![kind] = @ + 1]
      BY <2>2 DEF Mishap
    <3>2. \A k \in {"outages", "unanswered", "errors", "crashes"} :
            mishaps[k] \in Nat /\ mishaps[k] + 1 \in Nat
      BY DEF RecordsOK
    <3>3. mishaps \in [{"outages", "unanswered", "errors", "crashes"} -> Nat]
      BY DEF RecordsOK
    <3>4. mishaps' \in [{"outages", "unanswered", "errors", "crashes"} -> Nat]
      BY <3>1, <3>2, <3>3, Zenon
    <3> QED BY <3>4
  <2> QED BY <2>1, <2>2
<1> QED BY <1>1 DEF RecordsOK

\* A registration is of a hash that has no row, and the job's row is not touched.
LEMMA NewRowIsRow ==
  ASSUME NEW n \in Names
  PROVE  NewRow(n) \in Row /\ NewRow(n).status = "PENDING" /\ NewRow(n).filename = n
<1>1. Cardinality({h \in Hashes : Registered(h)}) \in Nat
  <2>1. IsFiniteSet({h \in Hashes : Registered(h)})
    BY DeliveriesAssumption, FS_Subset
  <2> QED BY <2>1, FS_CardinalityType
<1> QED BY <1>1 DEF NewRow, Row

LEMMA AddKeepsTypes ==
  ASSUME RowsOK, JobOK, ThreadsOK, NEW t \in Threads, work[t].at = "add",
         row' = AfterAdd(t), UNCHANGED job
  PROVE  RowsOK' /\ JobOK'
<1>1. work[t].name \in Names /\ work[t].hash \in Hashes
  BY DEF ThreadsOK, ThreadOK, Working
<1>2. CASE existing_file(t)
  BY <1>2, RowsSame, JobSame DEF AfterAdd
<1>3. CASE ~existing_file(t)
  <2>1. row' = [row EXCEPT ![work[t].hash] = NewRow(work[t].name)]
    BY <1>3 DEF AfterAdd
  <2>2. PICK r \in Row : r = NewRow(work[t].name)
    BY <1>1, NewRowIsRow
  <2>3. r.status = "PENDING" /\ r.filename = work[t].name
    BY <1>1, <2>2, NewRowIsRow
  <2>4. RowsOK'
    BY <1>1, <2>1, <2>2, <2>3 DEF RowsOK, Registered
  <2>5. JobOK'
    <3>1. ASSUME job.at # "rest" PROVE job.hash # work[t].hash
      BY <1>3, <3>1 DEF JobOK, existing_file, Registered
    <3> QED BY <1>1, <2>1, <3>1 DEF JobOK, RowsOK
  <2> QED BY <2>4, <2>5
<1> QED BY <1>2, <1>3

(***************************************************************************)
(* Every action keeps the types.                                           *)
(***************************************************************************)
LEMMA RunnersKeepTypes ==
  ASSUME TypeOK, UNCHANGED parcel, NEW n \in Names, on_created(n) \/ poll_directory(n)
  PROVE  TypeOK'
<1>1. ThreadsOK'
  <2>1. CASE on_created(n)
    <3>1. CASE n \in seen["watcher"]
      BY <2>1, <3>1, TypeParts DEF on_created, ThreadsOK, ThreadOK, Working
    <3>2. CASE n \notin seen["watcher"]
      <4>1. PICK s \in {"stage_file", "refuse_arrival"} : TakeUp("watcher", n, s)
        BY <2>1, <3>2 DEF on_created
      <4> QED BY <2>1, <4>1, TypeParts, ThreadTakesUp DEF on_created, Threads
    <3> QED BY <3>1, <3>2
  <2>2. CASE poll_directory(n)
    <3>1. TakeUp("poller", n, "stage_file") /\ created' = created
      BY <2>2 DEF poll_directory
    <3> QED BY <3>1, TypeParts, ThreadTakesUp DEF Threads
  <2> QED BY <2>1, <2>2
<1>2. up /\ UNCHANGED <<delivered, disk, up, row, job, imports, locked, mishaps>>
  BY DEF on_created, poll_directory, At
<1> QED BY <1>1, <1>2, TypeParts, TypePartsNext, DiskSame, JobSame, StoppedSame, RowsSame,
           RecordsSame DEF RecordsOK

LEMMA DeliveryKeepsTypes ==
  ASSUME TypeOK, UNCHANGED parcel, NEW d \in Deliveries, deliver(d)
  PROVE  TypeOK'
<1>1. parcel[d].name \in Names
  BY ManifestsAssumption, TypeParts DEF DirectoriesOK, Parcel
<1>2. ThreadsOK'
  BY <1>1, TypeParts DEF deliver, ThreadsOK, ThreadOK, Working
<1>3. UNCHANGED <<up, seen, work, row, job, imports, locked, mishaps>>
  BY DEF deliver
<1>4. StoppedOK'
  BY <1>3, TypeParts DEF StoppedOK
<1> QED BY <1>2, <1>3, <1>4, TypeParts, TypePartsNext, DeliverKeepsTypes, JobSame, RowsSame,
           RecordsSame DEF RecordsOK

LEMMA StagingKeepsTypes ==
  ASSUME TypeOK, UNCHANGED parcel, NEW t \in Threads, Staging(t)
  PROVE  TypeOK'
<1>1. DirectoriesOK /\ ThreadsOK /\ JobOK /\ StoppedOK /\ RowsOK /\ RecordsOK
  BY TypeParts
<1>2. /\ up /\ up' = up /\ Working(t) /\ work[t].name \in Names
      /\ UNCHANGED <<delivered, created, seen, job, imports, mishaps>> /\ locked' \in BOOLEAN
  <2>1. /\ up /\ up' = up /\ Working(t)
        /\ UNCHANGED <<delivered, created, seen, job, imports, mishaps>> /\ locked' \in BOOLEAN
    BY <1>1 DEF Staging, stage_file_moves, stage_file, handle_bad_file, get_file_hash, check_exists,
                file_staged_handler, handle_duplicate_file, staged_file_is_gone, At, Working,
                RecordsOK
  <2> QED BY <2>1, WorkHasName DEF TypeOK
<1>3. StoppedOK' /\ RecordsOK'
  BY <1>1, <1>2, StoppedSame, RecordsSame
<1>4. SUFFICES DirectoriesOK' /\ ThreadsOK' /\ JobOK' /\ RowsOK'
  BY <1>3, TypePartsNext
<1>5. CASE stage_file_moves(t)
  <2>1. /\ Move(Incoming[t], "processing", work[t].name) /\ Continue(t, "check_headers")
        /\ UNCHANGED row
    BY <1>5 DEF stage_file_moves
  <2>2. DirectoriesOK'
    BY <1>1, <1>2, <2>1, MoveKeepsTypes, Places
  <2>3. ThreadsOK'
    BY <1>1, <1>2, <2>1, ThreadContinues DEF Steps
  <2> QED BY <1>1, <1>2, <2>1, <2>2, <2>3, JobSame, RowsSame
<1>6. CASE stage_file(t)
  <2>1. /\ UNCHANGED <<disk, row>>
        /\ Rest(t) \/ \E s \in {"handle_bad_file", "get_file_hash"} : Continue(t, s)
    <3>1. Staged(work[t].name).kind = "text" \/ Staged(work[t].name).kind # "text"
      OBVIOUS
    <3>2. identify_from_headers(Incoming[t], Staged(work[t].name).matches) = Nothing
          \/ identify_from_headers(Incoming[t], Staged(work[t].name).matches) # Nothing
      OBVIOUS
    <3> QED BY <1>6, <3>1, <3>2 DEF stage_file
  <2>2. ThreadsOK'
    BY <1>1, <1>2, <2>1, ThreadRests, ThreadContinues DEF Steps
  <2> QED BY <1>1, <1>2, <2>1, <2>2, DiskSame, JobSame, RowsSame
<1>7. CASE handle_bad_file(t)
  <2>1. /\ \E from \in {Incoming[t], "processing"} : Move(from, "bad_files", work[t].name)
        /\ Rest(t) /\ UNCHANGED row
    BY <1>7 DEF handle_bad_file
  <2>2. DirectoriesOK'
    BY <1>1, <1>2, <2>1, MoveKeepsTypes, Places
  <2> QED BY <1>1, <1>2, <2>1, <2>2, ThreadRests, JobSame, RowsSame
<1>8. CASE get_file_hash(t)
  <2>1. /\ UNCHANGED <<disk, row>> /\ Has("processing", work[t].name)
        /\ work' = [work EXCEPT ![t].at = "check_exists", ![t].hash = Staged(work[t].name).hash]
    BY <1>8 DEF get_file_hash
  <2>2. Staged(work[t].name).hash \in Hashes
    BY <1>1, <1>2, <2>1, ManifestsAssumption, Places DEF DirectoriesOK, Has, Staged, Parcel
  <2>3. PICK h \in Hashes : h = Staged(work[t].name).hash
    BY <2>2
  <2>4. PICK w : w = [work[t] EXCEPT !.at = "check_exists", !.hash = h]
    OBVIOUS
  <2>5. w \in Work /\ w.name = work[t].name /\ w.hash \in Hashes
    BY <1>1, <2>4 DEF ThreadsOK, Work, Steps
  <2>6. work' = [work EXCEPT ![t] = w]
    BY <1>1, <2>1, <2>3, <2>4 DEF ThreadsOK
  <2>7. ThreadsOK'
    BY <1>1, <1>2, <2>5, <2>6, ThreadGoesOn
  <2> QED BY <1>1, <1>2, <2>1, <2>7, DiskSame, JobSame, RowsSame
<1>9. CASE check_exists(t)
  <2>1. /\ UNCHANGED <<disk, row>> /\ work[t].at = "check_exists"
        /\ \E s \in {"handle_duplicate_file", "add"} : Continue(t, s)
    BY <1>9 DEF check_exists, At
  <2>2. work[t].hash \in Hashes
    BY <1>1, <2>1 DEF ThreadsOK, ThreadOK
  <2>3. ThreadsOK'
    BY <1>1, <1>2, <2>1, <2>2, ThreadContinues DEF Steps
  <2> QED BY <1>1, <1>2, <2>1, <2>3, DiskSame, JobSame, RowsSame
<1>10. CASE file_staged_handler(t)
  <2>1. UNCHANGED disk /\ work[t].at = "add" /\ row' = AfterAdd(t) /\ Rest(t)
    BY <1>10 DEF file_staged_handler, At
  <2> QED BY <1>1, <1>2, <2>1, DiskSame, ThreadRests, AddKeepsTypes
<1>11. CASE handle_duplicate_file(t)
  <2>1. /\ Move("processing", "duplicate_files", work[t].name) /\ Rest(t) /\ UNCHANGED row
    BY <1>11 DEF handle_duplicate_file, DuplicateName
  <2>2. DirectoriesOK'
    BY <1>1, <1>2, <2>1, MoveKeepsTypes, Places
  <2> QED BY <1>1, <1>2, <2>1, <2>2, ThreadRests, JobSame, RowsSame
<1>12. CASE staged_file_is_gone(t)
  BY <1>1, <1>2, <1>12, DiskSame, ThreadRests, JobSame, RowsSame DEF staged_file_is_gone
<1> QED BY <1>5, <1>6, <1>7, <1>8, <1>9, <1>10, <1>11, <1>12 DEF Staging

LEMMA DispatcherKeepsTypes ==
  ASSUME TypeOK, UNCHANGED parcel, Dispatcher
  PROVE  TypeOK'
<1>1. DirectoriesOK /\ ThreadsOK /\ JobOK /\ StoppedOK /\ RowsOK /\ RecordsOK
  BY TypeParts
<1>2. /\ up /\ up' = up /\ UNCHANGED <<delivered, created, seen, work, mishaps>>
      /\ locked' \in BOOLEAN
  BY <1>1 DEF Dispatcher, dispatch_pending_files, audit_csv, finish, registered_file_is_gone,
              RecordsOK
<1>3. StoppedOK' /\ ThreadsOK'
  BY <1>1, <1>2, StoppedSame, ThreadsSame
<1>4. SUFFICES DirectoriesOK' /\ JobOK' /\ RowsOK' /\ RecordsOK'
  BY <1>3, TypePartsNext
<1>5. ASSUME job.at # "rest"
      PROVE  job.hash \in Hashes /\ row[job.hash].filename \in Names
  BY <1>1, <1>5 DEF JobOK, RowsOK, Registered
<1>6. CASE \E h \in Hashes : dispatch_pending_files(h)
  <2>1. PICK h \in Hashes : dispatch_pending_files(h)
    BY <1>6
  <2>2. /\ row' = [row EXCEPT ![h].status = "BUSY"] /\ row[h].status = "PENDING"
        /\ job' = [at |-> "audit_csv", hash |-> h] /\ UNCHANGED <<disk, imports, locked>>
    BY <2>1 DEF dispatch_pending_files, oldest_pending
  <2>3. RowsOK'
    BY <1>1, <2>2 DEF RowsOK, Row, Registered
  <2>4. JobOK'
    BY <1>1, <2>2 DEF RowsOK, JobOK, Job, Row
  <2> QED BY <1>1, <1>2, <2>2, <2>3, <2>4, DiskSame, RecordsSame
<1>7. CASE audit_csv
  <2>1. /\ UNCHANGED <<disk, row, locked>> /\ job.at = "audit_csv"
        /\ Has("processing", row[job.hash].filename)
        /\ imports' = Append(imports, [row |-> job.hash, file |-> Staged(row[job.hash].filename).hash])
        /\ job' = [job EXCEPT !.at = "finish"]
    BY <1>7 DEF audit_csv
  <2>2. Staged(row[job.hash].filename).hash \in Hashes
    BY <1>1, <1>5, <2>1, ManifestsAssumption, Places DEF DirectoriesOK, Has, Staged, Parcel
  <2>3. RecordsOK'
    BY <1>1, <1>2, <1>5, <2>1, <2>2 DEF RecordsOK
  <2>4. JobOK'
    BY <1>1, <1>5, <2>1 DEF JobOK, Job
  <2> QED BY <1>1, <1>2, <2>1, <2>3, <2>4, DiskSame, RowsSame
<1>8. CASE finish
  <2>1. /\ Move("processing", "finished", row[job.hash].filename) /\ job.at = "finish"
        /\ row' = [row EXCEPT ![job.hash].status = "SETTLED"] /\ job' = NoJob
        /\ UNCHANGED <<imports, locked>>
    BY <1>8 DEF finish
  <2>2. DirectoriesOK'
    BY <1>1, <1>2, <1>5, <2>1, MoveKeepsTypes, Places
  <2>3. RowsOK'
    BY <1>1, <1>5, <2>1 DEF RowsOK, Row, Registered
  <2>4. JobOK'
    BY <2>1 DEF JobOK, NoJob, Job
  <2> QED BY <1>1, <1>2, <2>1, <2>2, <2>3, <2>4, RecordsSame
<1>9. CASE registered_file_is_gone
  <2>1. UNCHANGED <<disk, row, imports>> /\ job' = NoJob
    BY <1>9 DEF registered_file_is_gone
  <2>2. JobOK'
    BY <2>1 DEF JobOK, NoJob, Job
  <2> QED BY <1>1, <1>2, <2>1, <2>2, DiskSame, RowsSame, RecordsSame
<1> QED BY <1>6, <1>7, <1>8, <1>9 DEF Dispatcher

\* A handler that is run again, or whose file is moved to system_failure/.
LEMMA AgainKeepsTypes ==
  ASSUME TypeOK, UNCHANGED <<parcel, delivered, created, seen>>, NEW t \in Threads, Working(t), Again(t)
  PROVE  DirectoriesOK' /\ ThreadsOK' /\ locked' \in BOOLEAN
<1>1. DirectoriesOK /\ ThreadsOK /\ RecordsOK /\ work[t].name \in Names
  BY TypeParts, WorkHasName DEF TypeOK
<1>2. CASE /\ work[t].attempt < 3
           /\ work' = [work EXCEPT ![t] =
                [work[t] EXCEPT !.at = "get_file_hash", !.hash = Nothing, !.attempt = @ + 1]]
           /\ UNCHANGED <<disk, locked>>
  <2>1. PICK k \in 1..3 : k = work[t].attempt + 1
    BY <1>1, <1>2 DEF ThreadsOK, Work
  <2>2. PICK w : w = [work[t] EXCEPT !.at = "get_file_hash", !.hash = Nothing, !.attempt = @ + 1]
    OBVIOUS
  <2>3. w \in Work /\ w.name = work[t].name /\ w.at = "get_file_hash"
    BY <1>1, <2>1, <2>2 DEF ThreadsOK, Work, Steps
  <2>4. work' = [work EXCEPT ![t] = w]
    BY <1>2, <2>2
  <2>5. ThreadsOK'
    BY <1>1, <2>3, <2>4, ThreadGoesOn
  <2> QED BY <1>1, <1>2, <2>5, DiskSame DEF RecordsOK
<1>3. CASE locked' = TRUE /\ disk' = MovedToSystemFailure(work[t].name) /\ Rest(t)
  BY <1>1, <1>3, SystemFailureKeepsTypes, ThreadRests
<1> QED BY <1>2, <1>3 DEF Again

LEMMA FaultsKeepTypes ==
  ASSUME TypeOK, UNCHANGED parcel, Faults
  PROVE  TypeOK'
<1>1. DirectoriesOK /\ ThreadsOK /\ JobOK /\ StoppedOK /\ RowsOK /\ RecordsOK
  BY TypeParts
<1>2. ASSUME NEW t \in Threads, operational_error(t) \/ commit_unanswered(t)
      PROVE  TypeOK'
  <2>1. /\ up /\ up' = up /\ Working(t) /\ Again(t)
        /\ \E kind \in {"outages", "unanswered"} : Mishap(kind)
        /\ UNCHANGED <<delivered, created, seen, job, imports>>
        /\ \/ row' = row
           \/ work[t].at = "add" /\ row' = AfterAdd(t)
    BY <1>2 DEF operational_error, commit_unanswered, AfterRollback, At, Working
  <2>2. DirectoriesOK' /\ ThreadsOK' /\ locked' \in BOOLEAN
    BY <2>1, AgainKeepsTypes
  <2>3. RowsOK' /\ JobOK'
    BY <1>1, <2>1, RowsSame, JobSame, AddKeepsTypes
  <2>4. StoppedOK' /\ RecordsOK'
    BY <1>1, <2>1, <2>2, StoppedSame, RecordsSame
  <2> QED BY <2>2, <2>3, <2>4, TypePartsNext
<1>3. ASSUME NEW t \in Threads, unhandled_error(t)
      PROVE  TypeOK'
  <2>1. /\ up /\ up' = up /\ Rest(t) /\ Mishap("errors") /\ locked' \in BOOLEAN
        /\ UNCHANGED <<delivered, disk, created, seen, row, job, imports>>
    BY <1>1, <1>3 DEF unhandled_error, RecordsOK
  <2> QED BY <1>1, <2>1, DiskSame, ThreadRests, JobSame, StoppedSame, RowsSame, RecordsSame,
             TypePartsNext
<1>4. CASE pipeline_fault
  <2>1. /\ up /\ up' = up /\ job.at # "rest" /\ job' = NoJob /\ Mishap("errors")
        /\ locked' \in BOOLEAN /\ UNCHANGED <<delivered, created, seen, work, row, imports>>
        /\ disk' = disk \/ disk' = MovedToSystemFailure(row[job.hash].filename)
    BY <1>1, <1>4 DEF pipeline_fault, RecordsOK
  <2>2. row[job.hash].filename \in Names
    BY <1>1, <2>1 DEF JobOK, RowsOK, Registered
  <2>3. DirectoriesOK'
    BY <1>1, <2>1, <2>2, DiskSame, SystemFailureKeepsTypes
  <2>4. JobOK'
    BY <2>1 DEF JobOK, NoJob, Job
  <2> QED BY <1>1, <2>1, <2>3, <2>4, ThreadsSame, StoppedSame, RowsSame, RecordsSame,
             TypePartsNext
<1>5. CASE crash
  <2>1. /\ up' = FALSE /\ created' = {} /\ seen' = [t \in Threads |-> {}]
        /\ work' = [t \in Threads |-> Resting] /\ job' = NoJob /\ Mishap("crashes")
        /\ UNCHANGED <<delivered, disk, row, imports, locked>>
    BY <1>5 DEF crash
  <2>2. ThreadsOK'
    BY <2>1, RestIsWork DEF ThreadsOK, ThreadOK, Working
  <2>3. JobOK' /\ StoppedOK'
    BY <2>1 DEF JobOK, NoJob, Job, StoppedOK
  <2>4. locked' \in BOOLEAN
    BY <1>1, <2>1 DEF RecordsOK
  <2> QED BY <1>1, <2>1, <2>2, <2>3, <2>4, DiskSame, RowsSame, RecordsSame, TypePartsNext
<1>6. CASE main
  <2>1. up' = TRUE /\ UNCHANGED <<delivered, disk, created, seen, work, job, row, imports, locked, mishaps>>
    BY <1>6 DEF main, memory
  <2>2. StoppedOK'
    BY <2>1 DEF StoppedOK
  <2>3. locked' \in BOOLEAN
    BY <1>1, <2>1 DEF RecordsOK
  <2> QED BY <1>1, <2>1, <2>2, <2>3, DiskSame, ThreadsSame, JobSame, RowsSame, RecordsSame,
             TypePartsNext
<1> QED BY <1>2, <1>3, <1>4, <1>5, <1>6 DEF Faults

LEMMA NextKeepsTypes ==
  ASSUME TypeOK, [Next]_vars
  PROVE  TypeOK'
<1>1. CASE Next
  <2>1. UNCHANGED parcel
    BY <1>1 DEF Next
  <2> QED BY <1>1, <2>1, DeliveryKeepsTypes, RunnersKeepTypes, StagingKeepsTypes,
             DispatcherKeepsTypes, FaultsKeepTypes DEF Next, Watcher, Poller
<1>2. CASE UNCHANGED vars
  BY <1>2, TypeParts, TypePartsNext, DiskSame, ThreadsSame, JobSame, RowsSame
     DEF vars, memory, StoppedOK, RecordsOK
<1> QED BY <1>1, <1>2

\* The variables have their types: a file bears its own name in whatever directory
\* the threads have moved it to, a thread works on what it has seen, and the job on
\* a row that is busy.
THEOREM TypeCorrect == Spec => []TypeOK
<1>1. ASSUME Init PROVE TypeOK
  <2>1. DirectoriesOK
    BY <1>1 DEF Init, DirectoriesOK, Has
  <2>2. ThreadsOK
    BY <1>1, RestIsWork DEF Init, ThreadsOK, ThreadOK, Working
  <2>3. JobOK /\ StoppedOK
    BY <1>1 DEF Init, JobOK, NoJob, Job, StoppedOK
  <2>4. RowsOK
    BY <1>1 DEF Init, RowsOK, Registered, Absent, Row
  <2>5. RecordsOK
    <3>1. << >> \in Seq([row : Hashes, file : Hashes])
      OBVIOUS
    <3> QED BY <1>1, <3>1 DEF Init, RecordsOK
  <2> QED BY <2>1, <2>2, <2>3, <2>4, <2>5, TypeParts
<1> QED BY <1>1, NextKeepsTypes, PTL DEF Spec

-------------------------------------------------------------------------------
(***************************************************************************)
(* A name is one file.                                                     *)
(***************************************************************************)
LEMMA NameIsOneFile ==
  ASSUME TypeOK, DistinctNames, NEW d \in delivered, NEW e \in delivered,
         parcel[d].name = parcel[e].name
  PROVE  d = e
BY DEF TypeOK, DirectoriesOK, DistinctNames

LEMMA FileInPlace ==
  ASSUME TypeOK, NEW place \in Directories, NEW n \in Names, Has(place, n)
  PROVE  disk[place][n] \in delivered /\ parcel[disk[place][n]].name = n
BY DEF TypeOK, DirectoriesOK, Has

LEMMA DeliveredIsNotNothing ==
  ASSUME TypeOK, NEW d \in delivered
  PROVE  d # Nothing
BY DeliveriesAssumption DEF TypeOK, DirectoriesOK

LEMMA ThreadsAreApart ==
  ASSUME TypeOK, DistinctNames, NEW t \in Threads, NEW u \in Threads, NEW n,
         Came(t, n), Came(u, n)
  PROVE  t = u
<1>1. PICK d \in delivered : parcel[d].name = n /\ parcel[d].directory = Incoming[t]
  BY DEF Came
<1>2. PICK e \in delivered : parcel[e].name = n /\ parcel[e].directory = Incoming[u]
  BY DEF Came
<1>3. Incoming[t] = Incoming[u]
  BY <1>1, <1>2, NameIsOneFile
<1> QED BY <1>3 DEF Threads, Incoming

LEMMA ContentsAreApart ==
  ASSUME TypeOK, DistinctNames, NEW n, NEW g, NEW h, Content(n, g), Content(n, h)
  PROVE  g = h
BY NameIsOneFile DEF Content

LEMMA WorkCame ==
  ASSUME TypeOK, ReportsFit, NEW t \in Threads, Working(t)
  PROVE  work[t].name \in Names /\ Came(t, work[t].name)
BY DEF TypeOK, ProcessOK, ReportsFit

\* The files two rows claim are two.
LEMMA RowsAreApart ==
  ASSUME TypeOK, DistinctNames, RowsFit, NEW g \in Hashes, NEW h \in Hashes,
         Registered(g), Registered(h), row[g].filename = row[h].filename
  PROVE  g = h
BY ContentsAreApart DEF RowsFit

(***************************************************************************)
(* What a step does to the directories.                                    *)
(***************************************************************************)
\* Thread t, done with a step, has moved the file it works on out of a directory.
MovedByThread(t) ==
  /\ Working(t) /\ work'[t] # work[t]
  /\ \E from \in {Incoming[t], "processing"},
        to \in {"processing", "bad_files", "duplicate_files", "system_failure"} :
       /\ from # to /\ Move(from, to, work[t].name)
       /\ to = "duplicate_files" => handle_duplicate_file(t)
       /\ to = "processing" => stage_file_moves(t)

MovedByJob ==
  /\ job.at # "rest"
  /\ \E to \in {"finished", "system_failure"} : Move("processing", to, row[job.hash].filename)

DiskStep ==
  /\ parcel' = parcel
  /\ \/ \E d \in Deliveries : deliver(d)
     \/ UNCHANGED <<delivered, disk>>
     \/ delivered' = delivered /\ \E t \in Threads : MovedByThread(t)
     \/ delivered' = delivered /\ MovedByJob

LEMMA SystemFailureMove ==
  ASSUME NEW n, disk' = MovedToSystemFailure(n)
  PROVE  disk' = disk \/ Move("processing", "system_failure", n)
BY DEF MovedToSystemFailure, Move

LEMMA RestChanges ==
  ASSUME TypeOK, NEW t \in Threads, Working(t), Rest(t) \/ \E s : s # work[t].at /\ Continue(t, s)
  PROVE  work'[t] # work[t]
<1>1. work \in [Threads -> Work]
  BY DEF TypeOK, ProcessOK
<1>2. CASE Rest(t)
  BY <1>1, <1>2, RestIsWork DEF Rest, Working
<1>3. CASE \E s : s # work[t].at /\ Continue(t, s)
  BY <1>1, <1>3 DEF Continue, Work
<1> QED BY <1>2, <1>3

LEMMA StepOnDisk ==
  ASSUME TypeOK, Next
  PROVE  DiskStep
<1>1. parcel' = parcel
  BY DEF Next
<1>2. CASE \E d \in Deliveries : deliver(d)
  BY <1>1, <1>2 DEF DiskStep
<1>3. CASE Watcher \/ Poller
  <2>1. UNCHANGED <<delivered, disk>>
    BY <1>3 DEF Watcher, Poller, on_created, poll_directory
  <2> QED BY <1>1, <2>1 DEF DiskStep
<1>4. ASSUME NEW t \in Threads, Staging(t) PROVE DiskStep
  <2>1. delivered' = delivered
    BY <1>4 DEF Staging, stage_file_moves, stage_file, handle_bad_file, get_file_hash,
                check_exists, file_staged_handler, handle_duplicate_file, staged_file_is_gone
  <2>2. CASE stage_file_moves(t)
    <3>1. Working(t) /\ work'[t] # work[t] /\ Move(Incoming[t], "processing", work[t].name)
      <4>1. Working(t) /\ work[t].at # "check_headers" /\ Continue(t, "check_headers")
        BY <2>2 DEF stage_file_moves, At, Working
      <4> QED BY <2>2, <4>1, RestChanges DEF stage_file_moves
    <3>2. Incoming[t] # "processing"
      BY Places
    <3> QED BY <1>1, <2>1, <2>2, <3>1, <3>2 DEF DiskStep, MovedByThread
  <2>3. CASE handle_bad_file(t)
    <3>1. /\ Working(t) /\ work'[t] # work[t]
          /\ \E from \in {Incoming[t], "processing"} : Move(from, "bad_files", work[t].name)
      BY <2>3, RestChanges DEF handle_bad_file, At, Working
    <3>2. Incoming[t] # "bad_files"
      BY Places
    <3> QED BY <1>1, <2>1, <3>1, <3>2 DEF DiskStep, MovedByThread
  <2>4. CASE handle_duplicate_file(t)
    <3>1. /\ Working(t) /\ work'[t] # work[t]
          /\ Move("processing", "duplicate_files", work[t].name)
      BY <2>4, RestChanges DEF handle_duplicate_file, DuplicateName, At, Working
    <3> QED BY <1>1, <2>1, <2>4, <3>1 DEF DiskStep, MovedByThread
  <2>5. CASE \/ stage_file(t) \/ get_file_hash(t) \/ check_exists(t)
             \/ file_staged_handler(t) \/ staged_file_is_gone(t)
    <3>1. UNCHANGED disk
      BY <2>5 DEF stage_file, get_file_hash, check_exists, file_staged_handler,
                  staged_file_is_gone
    <3> QED BY <1>1, <2>1, <3>1 DEF DiskStep
  <2> QED BY <1>4, <2>2, <2>3, <2>4, <2>5 DEF Staging
<1>5. CASE Dispatcher
  <2>1. delivered' = delivered
    BY <1>5 DEF Dispatcher, dispatch_pending_files, audit_csv, finish, registered_file_is_gone
  <2>2. CASE finish
    BY <1>1, <2>1, <2>2 DEF DiskStep, MovedByJob, finish
  <2>3. CASE ~finish
    <3>1. UNCHANGED disk
      BY <1>5, <2>3 DEF Dispatcher, dispatch_pending_files, audit_csv, registered_file_is_gone
    <3> QED BY <1>1, <2>1, <3>1 DEF DiskStep
  <2> QED BY <2>2, <2>3
<1>6. CASE Faults
  <2>1. delivered' = delivered
    BY <1>6 DEF Faults, operational_error, commit_unanswered, unhandled_error, pipeline_fault,
                crash, main
  <2>2. ASSUME NEW t \in Threads, operational_error(t) \/ commit_unanswered(t)
        PROVE  DiskStep
    <3>1. Working(t) /\ Again(t)
      BY <2>2 DEF operational_error, commit_unanswered, At, Working
    <3>2. \/ UNCHANGED disk
          \/ Rest(t) /\ disk' = MovedToSystemFailure(work[t].name)
      BY <3>1 DEF Again
    <3>3. CASE UNCHANGED disk
      BY <1>1, <2>1, <3>3 DEF DiskStep
    <3>4. CASE Rest(t) /\ Move("processing", "system_failure", work[t].name)
      <4>1. work'[t] # work[t]
        BY <3>1, <3>4, RestChanges
      <4> QED BY <1>1, <2>1, <3>1, <3>4, <4>1 DEF DiskStep, MovedByThread
    <3> QED BY <3>2, <3>3, <3>4, SystemFailureMove
  <2>3. CASE pipeline_fault
    <3>1. UNCHANGED disk \/ disk' = MovedToSystemFailure(row[job.hash].filename)
      BY <2>3 DEF pipeline_fault
    <3>2. UNCHANGED disk \/ Move("processing", "system_failure", row[job.hash].filename)
      BY <3>1, SystemFailureMove
    <3> QED BY <1>1, <2>1, <2>3, <3>2 DEF DiskStep, MovedByJob, pipeline_fault
  <2>4. CASE (\E t \in Threads : unhandled_error(t)) \/ crash \/ main
    <3>1. UNCHANGED disk
      BY <2>4 DEF unhandled_error, crash, main
    <3> QED BY <1>1, <2>1, <3>1 DEF DiskStep
  <2> QED BY <1>6, <2>2, <2>3, <2>4 DEF Faults
<1> QED BY <1>2, <1>3, <1>4, <1>5, <1>6 DEF Next

\* A step that moves a file moves the file of one name; in the incoming directories
\* only the thread that works on it takes a file.
LEMMA FilesThatStay ==
  ASSUME TypeOK, DiskStep, NEW place \in Directories, NEW n \in Names,
         ~ \E t \in Threads : MovedByThread(t) /\ n = work[t].name,
         ~ (MovedByJob /\ n = row[job.hash].filename),
         ~ \E d \in Deliveries : deliver(d) /\ n = parcel[d].name
  PROVE  disk'[place][n] = disk[place][n]
<1>1. disk \in [Directories -> [Names -> delivered \cup {Nothing}]]
  BY DEF TypeOK, DirectoriesOK
<1>2. ASSUME NEW d \in Deliveries, deliver(d)
      PROVE  disk'[place][n] = disk[place][n]
  BY <1>1, <1>2 DEF deliver
<1>3. ASSUME NEW from \in Directories, NEW to \in Directories, NEW m, m # n, Move(from, to, m)
      PROVE  disk'[place][n] = disk[place][n]
  BY <1>1, <1>3 DEF Move
<1>4. ASSUME NEW t \in Threads, MovedByThread(t)
      PROVE  disk'[place][n] = disk[place][n]
  BY <1>3, <1>4, Places DEF MovedByThread
<1>5. ASSUME MovedByJob
      PROVE  disk'[place][n] = disk[place][n]
  BY <1>3, <1>5, Places DEF MovedByJob
<1> QED BY <1>2, <1>4, <1>5 DEF DiskStep

LEMMA IncomingStays ==
  ASSUME TypeOK, DiskStep, NEW place \in {"leads", "sales"}, NEW n \in Names,
         ~ \E t \in Threads : MovedByThread(t) /\ n = work[t].name /\ Incoming[t] = place,
         ~ \E d \in Deliveries : deliver(d) /\ n = parcel[d].name
  PROVE  disk'[place][n] = disk[place][n]
<1>1. disk \in [Directories -> [Names -> delivered \cup {Nothing}]] /\ place \in Directories
  BY Places DEF TypeOK, DirectoriesOK
<1>2. ASSUME NEW from \in Directories, NEW to \in Directories, NEW m, Move(from, to, m),
             place # to, place # from \/ m # n
      PROVE  disk'[place][n] = disk[place][n]
  BY <1>1, <1>2 DEF Move
<1>3. CASE \E t \in Threads : MovedByThread(t) /\ n = work[t].name
  <2>1. PICK t \in Threads : MovedByThread(t) /\ n = work[t].name
    BY <1>3
  <2>2. Incoming[t] # place
    BY <2>1
  <2> QED BY <1>2, <2>1, <2>2, Places DEF MovedByThread
<1>4. CASE MovedByJob
  BY <1>2, <1>4, Places DEF MovedByJob
<1> QED BY <1>1, <1>3, <1>4, FilesThatStay

\* Nothing is put into an incoming directory but by its sender.
LEMMA IncomingIsTakenFrom ==
  ASSUME TypeOK, DiskStep, NEW place \in {"leads", "sales"}, NEW n \in Names,
         Has(place, n)', ~Has(place, n)
  PROVE  \E d \in Deliveries : deliver(d) /\ n = parcel[d].name /\ place = parcel[d].directory
<1>1. disk \in [Directories -> [Names -> delivered \cup {Nothing}]] /\ place \in Directories
  BY Places DEF TypeOK, DirectoriesOK
<1>2. ASSUME NEW from \in Directories, NEW to \in Directories, NEW m, Move(from, to, m), place # to
      PROVE  FALSE
  BY <1>1, <1>2 DEF Move, Has
<1>3. ASSUME NEW t \in Threads, MovedByThread(t) PROVE FALSE
  BY <1>2, <1>3, Places DEF MovedByThread
<1>4. ASSUME MovedByJob PROVE FALSE
  BY <1>2, <1>4, Places DEF MovedByJob
<1>5. ASSUME NEW d \in Deliveries, deliver(d)
      PROVE  n = parcel[d].name /\ place = parcel[d].directory
  BY <1>1, <1>5 DEF deliver, Has
<1> QED BY <1>3, <1>4, <1>5 DEF DiskStep, Has

LEMMA KnownFilesStay ==
  ASSUME DiskStep
  PROVE  /\ delivered \subseteq delivered' /\ parcel' = parcel
         /\ \A n, h : Content(n, h) => Content(n, h)'
         /\ \A t, n : Came(t, n) => Came(t, n)'
<1>1. delivered \subseteq delivered' /\ parcel' = parcel
  BY DEF DiskStep, deliver
<1> QED BY <1>1 DEF Content, Came

\* A name that was delivered is not delivered again.
LEMMA DeliveredIsNew ==
  ASSUME TypeOK, DistinctNames, NEW d \in Deliveries, deliver(d), NEW e \in delivered
  PROVE  parcel[e].name # parcel[d].name
BY DEF deliver, TypeOK, DirectoriesOK, DistinctNames

LEMMA TakenInStays ==
  ASSUME TypeOK, DistinctNames, DiskStep, NEW n \in Names, TakenIn(n),
         \E e \in delivered : parcel[e].name = n
  PROVE  TakenIn(n)'
BY IncomingIsTakenFrom, DeliveredIsNew DEF TakenIn

LEMMA OneCopyStays ==
  ASSUME TypeOK, TypeOK', DistinctNames, OneCopy, DiskStep
  PROVE  OneCopy'
<1>1. disk \in [Directories -> [Names -> delivered \cup {Nothing}]]
  BY DEF TypeOK, DirectoriesOK
<1>2. ASSUME NEW n \in Names, NEW p \in Directories, NEW q \in Directories, Has(p, n)', Has(q, n)'
      PROVE  p = q
  <2>1. ASSUME NEW d \in Deliveries, deliver(d) PROVE p = q
    <3>1. CASE n = parcel[d].name
      <4>1. \A place \in Directories : ~Has(place, n)
        BY <2>1, <3>1, FileInPlace, DeliveredIsNew
      <4>2. p = parcel[d].directory /\ q = parcel[d].directory
        BY <1>1, <1>2, <2>1, <4>1 DEF deliver, Has
      <4> QED BY <4>2
    <3>2. CASE n # parcel[d].name
      <4>1. Has(p, n) /\ Has(q, n)
        BY <1>1, <1>2, <2>1, <3>2 DEF deliver, Has
      <4> QED BY <4>1 DEF OneCopy
    <3> QED BY <3>1, <3>2
  <2>2. ASSUME NEW from \in Directories, NEW to \in Directories, NEW m, Move(from, to, m)
        PROVE  p = q
    <3>1. CASE n = m
      <4>1. Has(from, n) /\ \A place \in Directories : Has(place, n) => place = from
        BY <2>2, <3>1 DEF Move, OneCopy
      <4>2. p = to /\ q = to
        BY <1>1, <1>2, <2>2, <3>1, <4>1 DEF Move, Has
      <4> QED BY <4>2
    <3>2. CASE n # m
      <4>1. Has(p, n) /\ Has(q, n)
        BY <1>1, <1>2, <2>2, <3>2 DEF Move, Has
      <4> QED BY <4>1 DEF OneCopy
    <3> QED BY <3>1, <3>2
  <2>3. CASE UNCHANGED disk
    BY <1>2, <2>3 DEF OneCopy, Has
  <2>4. ASSUME NEW t \in Threads, MovedByThread(t) PROVE p = q
    BY <2>2, <2>4, Places DEF MovedByThread
  <2>5. CASE MovedByJob
    BY <2>2, <2>5, Places DEF MovedByJob
  <2> QED BY <2>1, <2>3, <2>4, <2>5 DEF DiskStep
<1>3. ASSUME NEW n \in Names, Has("sales", n)'
      PROVE  Came("poller", n)'
  <2>1. CASE Has("sales", n)
    BY <2>1, KnownFilesStay DEF OneCopy
  <2>2. CASE ~Has("sales", n)
    <3>1. PICK d \in Deliveries : deliver(d) /\ n = parcel[d].name /\ "sales" = parcel[d].directory
      BY <1>3, <2>2, IncomingIsTakenFrom
    <3>2. d \in delivered' /\ parcel' = parcel
      BY <3>1 DEF deliver, DiskStep
    <3> QED BY <3>1, <3>2 DEF Came, Incoming
  <2> QED BY <2>1, <2>2
<1> QED BY <1>2, <1>3 DEF OneCopy

(***************************************************************************)
(* What a step does to the reports and to what was seen.                   *)
(***************************************************************************)
ReportedBy(d, n) == deliver(d) /\ n = parcel[d].name /\ parcel[d].directory = "leads"

LEMMA StepOnReports ==
  ASSUME TypeOK, Next
  PROVE  /\ \A t \in Threads, n \in Names : n \in seen'[t] =>
              \/ n \in seen[t]
              \/ on_created(n) /\ t = "watcher"
              \/ poll_directory(n) /\ t = "poller"
         /\ \A n \in created' : n \in created \/ \E d \in Deliveries : ReportedBy(d, n)
<1>1. seen \in [Threads -> SUBSET Names]
  BY DEF TypeOK, ProcessOK
<1>2. ASSUME NEW d \in Deliveries, deliver(d)
      PROVE  seen' = seen /\ \A n \in created' : n \in created \/ ReportedBy(d, n)
  BY <1>2 DEF deliver, Incoming, ReportedBy
<1>3. ASSUME NEW m \in Names, on_created(m)
      PROVE  /\ created' \subseteq created
             /\ \/ seen' = seen
                \/ seen' = [seen EXCEPT !["watcher"] = @ \cup {m}]
  BY <1>3 DEF on_created, TakeUp
<1>4. ASSUME NEW m \in Names, poll_directory(m)
      PROVE  created' = created /\ seen' = [seen EXCEPT !["poller"] = @ \cup {m}]
  BY <1>4 DEF poll_directory, TakeUp
<1>5. ASSUME (\E t \in Threads : Staging(t)) \/ Dispatcher \/ Faults
      PROVE  created' \subseteq created /\ (seen' = seen \/ seen' = [t \in Threads |-> {}])
  <2>1. ASSUME NEW t \in Threads, Staging(t) PROVE UNCHANGED <<created, seen>>
    BY <2>1 DEF Staging, stage_file_moves, stage_file, handle_bad_file, get_file_hash,
                check_exists, file_staged_handler, handle_duplicate_file, staged_file_is_gone
  <2>2. ASSUME Dispatcher PROVE UNCHANGED <<created, seen>>
    BY <2>2 DEF Dispatcher, dispatch_pending_files, audit_csv, finish, registered_file_is_gone
  <2>3. ASSUME Faults
        PROVE  created' \subseteq created /\ (seen' = seen \/ seen' = [t \in Threads |-> {}])
    BY <2>3 DEF Faults, operational_error, commit_unanswered, unhandled_error, pipeline_fault,
                crash, main, memory
  <2> QED BY <1>5, <2>1, <2>2, <2>3
<1>6. CASE \E d \in Deliveries : deliver(d)
  BY <1>2, <1>6
<1>7. CASE \E n \in Names : on_created(n)
  BY <1>1, <1>3, <1>7
<1>8. CASE \E n \in Names : poll_directory(n)
  BY <1>1, <1>4, <1>8
<1>9. CASE (\E t \in Threads : Staging(t)) \/ Dispatcher \/ Faults
  BY <1>1, <1>5, <1>9
<1> QED BY <1>6, <1>7, <1>8, <1>9 DEF Next, Watcher, Poller

LEMMA ReportsStay ==
  ASSUME TypeOK, TypeOK', DistinctNames, OneCopy, ReportsFit, Next
  PROVE  ReportsFit'
<1>1. DiskStep
  BY StepOnDisk
<1>2. ASSUME NEW t \in Threads, NEW n \in Names, n \in seen'[t]
      PROVE  Came(t, n)'
  <2>1. Came(t, n)
    BY <1>2, StepOnReports DEF on_created, poll_directory, ReportsFit, OneCopy
  <2> QED BY <1>1, <2>1, KnownFilesStay
<1>3. ASSUME NEW n \in created'
      PROVE  Came("watcher", n)' /\ Has("leads", n)' /\ n \notin seen'["watcher"]
  <2>1. n \in Names /\ "watcher" \in Threads
    BY <1>3 DEF TypeOK, ProcessOK, Threads
  <2>2. ~on_created(n)
    BY <1>3 DEF on_created
  <2>3. ASSUME NEW d \in Deliveries, ReportedBy(d, n)
        PROVE  Came("watcher", n)' /\ Has("leads", n)' /\ n \notin seen'["watcher"]
    <3>1. Came("watcher", n)'
      <4>1. d \in delivered' /\ parcel' = parcel
        BY <1>1, <2>3 DEF ReportedBy, deliver, DiskStep
      <4> QED BY <2>3, <4>1 DEF Came, Incoming, ReportedBy
    <3>2. Has("leads", n)'
      <4>1. d # Nothing /\ "leads" \in Directories
        BY Places, DeliveriesAssumption
      <4> QED BY <2>1, <2>3, <4>1 DEF ReportedBy, deliver, Has, TypeOK, DirectoriesOK
    <3>3. n \notin seen["watcher"]
      BY <2>1, <2>3, DeliveredIsNew DEF ReportedBy, ReportsFit, Came
    <3> QED BY <2>1, <2>2, <3>1, <3>2, <3>3, StepOnReports
  <2>4. ASSUME n \in created
        PROVE  Came("watcher", n)' /\ Has("leads", n)' /\ n \notin seen'["watcher"]
    <3>1. Came("watcher", n) /\ Has("leads", n) /\ n \notin seen["watcher"]
      BY <2>4 DEF ReportsFit
    <3>2. ASSUME NEW t \in Threads, MovedByThread(t), n = work[t].name, Incoming[t] = "leads"
          PROVE  FALSE
      <4>1. t = "watcher" /\ n \in seen[t]
        BY <3>2 DEF MovedByThread, TypeOK, ProcessOK, Threads, Incoming
      <4> QED BY <3>1, <4>1
    <3>3. ~ \E d \in Deliveries : deliver(d) /\ n = parcel[d].name
      BY <3>1, DeliveredIsNew DEF Came
    <3>4. disk'["leads"][n] = disk["leads"][n]
      BY <1>1, <2>1, <3>2, <3>3, IncomingStays
    <3> QED BY <1>1, <2>1, <2>2, <3>1, <3>4, StepOnReports, KnownFilesStay DEF Has
  <2> QED BY <1>3, <2>3, <2>4, StepOnReports
<1> QED BY <1>2, <1>3 DEF ReportsFit

(***************************************************************************)
(* What a step does to the table.                                          *)
(***************************************************************************)
\* Thread t registers the file it works on.
AddedBy(t) ==
  /\ file_staged_handler(t) \/ commit_unanswered(t)
  /\ At(t, "add") /\ ~existing_file(t)
  /\ work'[t] # work[t]
  /\ UNCHANGED <<delivered, job>>
  /\ row' = [row EXCEPT ![work[t].hash] = NewRow(work[t].name)]

RowStep ==
  \/ UNCHANGED row
  \/ \E t \in Threads : AddedBy(t)
  \/ \E h \in Hashes : dispatch_pending_files(h)
  \/ finish

LEMMA AgainChanges ==
  ASSUME TypeOK, NEW t \in Threads, work[t].at \in {"check_exists", "add"}, Again(t)
  PROVE  work'[t] # work[t]
<1>1. work \in [Threads -> Work]
  BY DEF TypeOK, ProcessOK
<1>2. CASE Rest(t)
  BY <1>2, RestChanges DEF Working
<1>3. CASE work' = [work EXCEPT ![t] =
                 [work[t] EXCEPT !.at = "get_file_hash", !.hash = Nothing, !.attempt = @ + 1]]
  <2>1. PICK w : w = [work[t] EXCEPT !.at = "get_file_hash", !.hash = Nothing, !.attempt = @ + 1]
    OBVIOUS
  <2>2. w.at = "get_file_hash"
    BY <1>1, <2>1 DEF Work
  <2>3. work' = [work EXCEPT ![t] = w]
    BY <1>3, <2>1
  <2> QED BY <1>1, <2>2, <2>3
<1> QED BY <1>2, <1>3 DEF Again

LEMMA StepOnRows ==
  ASSUME TypeOK, Next
  PROVE  RowStep
<1>1. CASE (\E d \in Deliveries : deliver(d)) \/ Watcher \/ Poller
  BY <1>1 DEF deliver, Watcher, Poller, on_created, poll_directory, RowStep
<1>2. ASSUME NEW t \in Threads, Staging(t)
      PROVE  RowStep
  <2>1. CASE file_staged_handler(t)
    <3>1. CASE existing_file(t)
      BY <2>1, <3>1 DEF file_staged_handler, AfterAdd, RowStep
    <3>2. CASE ~existing_file(t)
      <4>1. work'[t] # work[t]
        BY <2>1, RestChanges DEF file_staged_handler, At, Working
      <4> QED BY <2>1, <3>2, <4>1 DEF file_staged_handler, AfterAdd, At, RowStep, AddedBy
    <3> QED BY <3>1, <3>2
  <2>2. CASE ~file_staged_handler(t)
    BY <1>2, <2>2 DEF Staging, stage_file_moves, stage_file, handle_bad_file, get_file_hash,
                check_exists, handle_duplicate_file, staged_file_is_gone, RowStep
  <2> QED BY <2>1, <2>2
<1>3. CASE Dispatcher
  BY <1>3 DEF Dispatcher, audit_csv, registered_file_is_gone, RowStep
<1>4. CASE Faults
  <2>1. ASSUME NEW t \in Threads, commit_unanswered(t)
        PROVE  AddedBy(t)
    BY <2>1, AgainChanges DEF commit_unanswered, At, AfterAdd, AddedBy
  <2>2. CASE (\E t \in Threads : operational_error(t) \/ unhandled_error(t)) \/ pipeline_fault
             \/ crash \/ main
    BY <2>2 DEF operational_error, AfterRollback, unhandled_error, pipeline_fault, crash, main,
                RowStep
  <2> QED BY <1>4, <2>1, <2>2 DEF Faults, RowStep
<1> QED BY <1>1, <1>2, <1>3, <1>4 DEF Next

\* A row keeps its file and is never pending again; a new one is pending and is of the
\* thread that adds it.
LEMMA RowsStay ==
  ASSUME TypeOK, RowStep, NEW h \in Hashes
  PROVE  /\ Registered(h) => Registered(h)' /\ row'[h].filename = row[h].filename
         /\ row[h].status \in {"BUSY", "SETTLED"} => row'[h].status \in {"BUSY", "SETTLED"}
         /\ row[h].status = "SETTLED" => row'[h].status = "SETTLED"
         /\ row'[h].status = "PENDING" /\ Registered(h) => row[h].status = "PENDING"
         /\ Registered(h)' /\ ~Registered(h) =>
              \E t \in Threads : /\ AddedBy(t) /\ h = work[t].hash
                                 /\ row'[h].filename = work[t].name /\ row'[h].status = "PENDING"
<1>1. row \in [Hashes -> Row]
  BY DEF TypeOK
<1>2. CASE UNCHANGED row
  BY <1>2 DEF Registered
<1>3. ASSUME NEW t \in Threads, AddedBy(t)
      PROVE  /\ h # work[t].hash => row'[h] = row[h]
             /\ h = work[t].hash => /\ ~Registered(h) /\ row'[h].filename = work[t].name
                                    /\ row'[h].status = "PENDING"
  <2>1. work[t].hash \in Hashes /\ work[t].name \in Names
    BY <1>3 DEF AddedBy, At, TypeOK, ProcessOK, Working
  <2>2. PICK r \in Row : r = NewRow(work[t].name)
    BY <2>1, NewRowIsRow
  <2>3. r.status = "PENDING" /\ r.filename = work[t].name
    BY <2>1, <2>2, NewRowIsRow
  <2> QED BY <1>1, <1>3, <2>1, <2>2, <2>3 DEF AddedBy, existing_file
<1>4. ASSUME NEW g \in Hashes, dispatch_pending_files(g)
      PROVE  /\ h # g => row'[h] = row[h]
             /\ h = g => /\ row[h].status = "PENDING" /\ row'[h].status = "BUSY"
                         /\ row'[h].filename = row[h].filename
  BY <1>1, <1>4 DEF dispatch_pending_files, oldest_pending, Row
<1>5. ASSUME finish
      PROVE  /\ h # job.hash => row'[h] = row[h]
             /\ h = job.hash => /\ row[h].status = "BUSY" /\ row'[h].status = "SETTLED"
                                /\ row'[h].filename = row[h].filename
  BY <1>1, <1>5 DEF finish, Row, TypeOK, ProcessOK
<1>6. CASE \E t \in Threads : AddedBy(t)
  BY <1>3, <1>6 DEF Registered
<1>7. CASE (\E g \in Hashes : dispatch_pending_files(g)) \/ finish
  BY <1>4, <1>5, <1>7 DEF Registered
<1> QED BY <1>2, <1>6, <1>7 DEF RowStep

LEMMA NewlyRegistered ==
  ASSUME TypeOK, RowStep, NEW n, IsRegistered(n)', ~IsRegistered(n)
  PROVE  \E t \in Threads : AddedBy(t) /\ n = work[t].name
<1>1. PICK h \in Hashes : Registered(h)' /\ row'[h].filename = n
  BY DEF IsRegistered
<1> QED BY <1>1, RowsStay DEF IsRegistered

LEMMA RowsFitStays ==
  ASSUME TypeOK, TypeOK', DistinctNames, NamesInvariant, Next
  PROVE  RowsFit'
<1>1. DiskStep /\ RowStep
  BY StepOnDisk, StepOnRows
<1>2. ASSUME NEW h \in Hashes, Registered(h)'
      PROVE  Content(row[h].filename, h)'
  <2>1. CASE Registered(h)
    <3>1. Content(row[h].filename, h) /\ row'[h].filename = row[h].filename
      BY <1>1, <2>1, RowsStay DEF NamesInvariant, RowsFit
    <3> QED BY <1>1, <3>1, KnownFilesStay DEF Content
  <2>2. CASE ~Registered(h)
    <3>1. PICK t \in Threads : AddedBy(t) /\ h = work[t].hash /\ row'[h].filename = work[t].name
      BY <1>1, <1>2, <2>2, RowsStay
    <3>2. Content(work[t].name, h)
      BY <3>1 DEF AddedBy, At, NamesInvariant, WorkFits
    <3> QED BY <1>1, <3>1, <3>2, KnownFilesStay DEF Content
  <2> QED BY <2>1, <2>2
<1>3. ASSUME NEW n \in Names, IsRegistered(n)'
      PROVE  TakenIn(n)'
  <2>1. CASE IsRegistered(n)
    <3>1. TakenIn(n) /\ \E e \in delivered : parcel[e].name = n
      BY <2>1 DEF NamesInvariant, RowsFit, IsRegistered, Content
    <3> QED BY <1>1, <3>1, TakenInStays
  <2>2. CASE ~IsRegistered(n)
    <3>1. PICK t \in Threads : AddedBy(t) /\ n = work[t].name
      BY <1>1, <1>3, <2>2, NewlyRegistered
    <3>2. TakenIn(n) /\ Content(n, work[t].hash)
      BY <3>1 DEF AddedBy, At, Working, NamesInvariant, WorkFits
    <3> QED BY <1>1, <3>2, TakenInStays DEF Content
  <2> QED BY <2>1, <2>2
<1> QED BY <1>2, <1>3 DEF RowsFit

(***************************************************************************)
(* What a step leaves of the work of a thread.                             *)
(***************************************************************************)
\* No other thread registers the file a thread works on.
LEMMA NotRegisteredStays ==
  ASSUME TypeOK, DistinctNames, NamesInvariant, RowStep, NEW t \in Threads, Working(t),
         work'[t] = work[t], ~IsRegistered(work[t].name), ~AddedBy(t)
  PROVE  ~IsRegistered(work[t].name)'
<1> SUFFICES ASSUME IsRegistered(work[t].name)' PROVE FALSE
  OBVIOUS
<1>1. PICK u \in Threads : AddedBy(u) /\ work[t].name = work[u].name
  BY NewlyRegistered DEF IsRegistered
<1>2. Working(u) /\ ReportsFit
  BY <1>1 DEF AddedBy, At, Working, NamesInvariant
<1>3. t = u
  BY <1>1, <1>2, WorkCame, ThreadsAreApart
<1> QED BY <1>1, <1>3

LEMMA WorkFitsUntouched ==
  ASSUME TypeOK, TypeOK', DistinctNames, NamesInvariant, Next, NEW t \in Threads,
         work'[t] = work[t]
  PROVE  WorkFits(t)'
<1>1. DiskStep /\ RowStep /\ ~AddedBy(t) /\ WorkFits(t)
  BY StepOnDisk, StepOnRows DEF AddedBy, NamesInvariant
<1>2. CASE ~Working(t)
  BY <1>2 DEF WorkFits, Working
<1>3. CASE Working(t)
  <2>1. work[t].name \in Names /\ \E e \in delivered : parcel[e].name = work[t].name
    BY <1>3, WorkCame DEF NamesInvariant, Came
  <2>2. TakenIn(work[t].name) => TakenIn(work[t].name)'
    BY <1>1, <2>1, TakenInStays DEF TakenIn, Has
  <2>3. Content(work[t].name, work[t].hash) => Content(work[t].name, work[t].hash)'
    BY <1>1, KnownFilesStay DEF Content
  <2>4. work[t].hash \in Hashes => (existing_file(t) => existing_file(t)')
    BY <1>1, RowsStay DEF existing_file, Registered
  <2>5. ~IsRegistered(work[t].name) => ~IsRegistered(work[t].name)'
    BY <1>1, <1>3, NotRegisteredStays
  <2>6. work[t].at = "handle_duplicate_file" => work[t].hash \in Hashes
    BY DEF TypeOK, ProcessOK
  <2> QED BY <1>1, <1>3, <2>2, <2>3, <2>4, <2>5, <2>6 DEF WorkFits, Working
<1> QED BY <1>2, <1>3

\* A file a thread takes up lies where it was put, and is not registered.
LEMMA WorkFitsTakenUp ==
  ASSUME TypeOK, TypeOK', DistinctNames, NamesInvariant, NEW t \in Threads, NEW n \in Names,
         NEW s \in {"stage_file", "refuse_arrival"}, TakeUp(t, n, s), Has(Incoming[t], n), UNCHANGED row
  PROVE  WorkFits(t)' /\ work'[t].at = s /\ work'[t].name = n /\ ~IsRegistered(n)'
<1>1. work'[t].at = s /\ work'[t].name = n
  <2>1. ASSUME NEW r \in Work
        PROVE  LET x == [r EXCEPT !.at = s, !.name = n] IN x.name = n /\ x.at = s
    BY DEF Work, Steps
  <2> QED BY <2>1, RestIsWork DEF TakeUp, TypeOK, ProcessOK
<1>2. ~TakenIn(n)
  BY DEF TakenIn, Threads, Incoming
<1>3. ~IsRegistered(n)
  BY <1>2 DEF NamesInvariant, RowsFit
<1>4. ~IsRegistered(n)'
  BY <1>3 DEF IsRegistered, Registered
<1> QED BY <1>1, <1>3, <1>4 DEF WorkFits, Working

\* The step of a thread, what is known of its file, and the file itself.
LEMMA StepsOfWork ==
  ASSUME TypeOK, NEW t \in Threads, NEW s \in Steps, Continue(t, s)
  PROVE  work'[t].at = s /\ work'[t].name = work[t].name /\ work'[t].hash = work[t].hash
BY DEF TypeOK, ProcessOK, Continue, Work

LEMMA WorkFitsAtRest ==
  ASSUME TypeOK, NEW t \in Threads, Rest(t)
  PROVE  WorkFits(t)' /\ ~Working(t)' /\ work'[t] = Resting
BY RestIsWork DEF TypeOK, ProcessOK, Rest, WorkFits, Working

LEMMA WorkFitsStaging ==
  ASSUME TypeOK, TypeOK', DistinctNames, NamesInvariant, Next, NEW t \in Threads, Staging(t)
  PROVE  WorkFits(t)'
<1>1. DiskStep /\ RowStep /\ WorkFits(t) /\ parcel' = parcel
  BY StepOnDisk, StepOnRows DEF NamesInvariant, DiskStep
<1>2. Working(t) /\ UNCHANGED delivered
  BY DEF Staging, stage_file_moves, stage_file, handle_bad_file, get_file_hash, check_exists,
         file_staged_handler, handle_duplicate_file, staged_file_is_gone, At, Working
<1>3. work[t].name \in Names /\ \E e \in delivered : parcel[e].name = work[t].name
  BY <1>2, WorkCame DEF NamesInvariant, Came
<1>4. ASSUME NEW s \in Steps, Continue(t, s), UNCHANGED row
      PROVE  /\ work'[t].at = s /\ work'[t].name = work[t].name /\ work'[t].hash = work[t].hash
             /\ IsRegistered(work[t].name)' <=> IsRegistered(work[t].name)
             /\ Content(work[t].name, work[t].hash)' <=> Content(work[t].name, work[t].hash)
             /\ existing_file(t)' <=> existing_file(t)
  BY <1>1, <1>2, <1>4, StepsOfWork DEF IsRegistered, Registered, Content, existing_file
<1>5. CASE stage_file_moves(t)
  <2>1. /\ work[t].at = "stage_file" /\ Continue(t, "check_headers") /\ UNCHANGED row
        /\ Move(Incoming[t], "processing", work[t].name)
    BY <1>5 DEF stage_file_moves, At
  <2>2. "check_headers" \in Steps
    BY DEF Steps
  <2>3. TakenIn(work[t].name)'
    <3>1. \A place \in Directories : Has(place, work[t].name) => place = Incoming[t]
      BY <1>3, <2>1, Places DEF Move, NamesInvariant, OneCopy
    <3>2. disk \in [Directories -> [Names -> delivered \cup {Nothing}]]
      BY DEF TypeOK, DirectoriesOK
    <3>3. ~Has("leads", work[t].name)' /\ ~Has("sales", work[t].name)'
      BY <1>3, <1>4, <2>1, <2>2, <3>1, <3>2, Places DEF Move, Has
    <3> QED BY <3>3 DEF TakenIn
  <2> QED BY <1>1, <1>2, <1>4, <2>1, <2>2, <2>3 DEF WorkFits, Working
<1>6. ASSUME NEW s \in {"handle_bad_file", "get_file_hash"}, Continue(t, s),
             work[t].at = "check_headers", UNCHANGED <<disk, row>>
      PROVE  WorkFits(t)'
  <2>1. s \in Steps
    BY DEF Steps
  <2>2. TakenIn(work[t].name)'
    BY <1>1, <1>2, <1>3, <1>4, <1>6, <2>1, TakenInStays DEF WorkFits, TakenIn, Has
  <2> QED BY <1>1, <1>2, <1>4, <1>6, <2>1, <2>2 DEF WorkFits, Working
<1>7. CASE stage_file(t)
  <2>1. Staged(work[t].name).kind = "text" \/ Staged(work[t].name).kind # "text"
    OBVIOUS
  <2>2. identify_from_headers(Incoming[t], Staged(work[t].name).matches) = Nothing
        \/ identify_from_headers(Incoming[t], Staged(work[t].name).matches) # Nothing
    OBVIOUS
  <2>3. /\ work[t].at = "check_headers" /\ UNCHANGED <<disk, row>>
        /\ Rest(t) \/ \E s \in {"handle_bad_file", "get_file_hash"} : Continue(t, s)
    BY <1>7, <2>1, <2>2 DEF stage_file, At
  <2> QED BY <1>6, <2>3, WorkFitsAtRest
<1>8. CASE get_file_hash(t)
  <2>1. /\ work[t].at = "get_file_hash" /\ Has("processing", work[t].name) /\ UNCHANGED <<disk, row>>
        /\ work' = [work EXCEPT ![t].at = "check_exists", ![t].hash = Staged(work[t].name).hash]
    BY <1>8 DEF get_file_hash, At
  <2>2. /\ work'[t].at = "check_exists" /\ work'[t].name = work[t].name
        /\ work'[t].hash = Staged(work[t].name).hash
    BY <2>1 DEF TypeOK, ProcessOK, Work
  <2>3. Content(work[t].name, Staged(work[t].name).hash)
    BY <1>3, <2>1, FileInPlace, Places DEF Content, Staged
  <2>4. TakenIn(work[t].name)
    BY <1>1, <1>2, <2>1 DEF WorkFits
  <2>5. TakenIn(work[t].name)' /\ Content(work[t].name, work[t].hash)'
    <3>1. PICK n, h : n = work[t].name /\ h = Staged(work[t].name).hash
      OBVIOUS
    <3>2. TakenIn(n)' /\ Content(n, h)'
      BY <1>1, <2>1, <2>3, <2>4, <3>1, KnownFilesStay DEF TakenIn, Has
    <3> QED BY <2>2, <3>1, <3>2
  <2> QED BY <2>2, <2>5 DEF WorkFits, Working
<1>9. CASE check_exists(t)
  <2>1. /\ work[t].at = "check_exists" /\ UNCHANGED <<disk, row>>
        /\ \/ existing_file(t) /\ Continue(t, "handle_duplicate_file")
           \/ ~existing_file(t) /\ Continue(t, "add")
    BY <1>9 DEF check_exists, At
  <2>2. "handle_duplicate_file" \in Steps /\ "add" \in Steps
    BY DEF Steps
  <2>3. Content(work[t].name, work[t].hash) /\ TakenIn(work[t].name)
    BY <1>1, <1>2, <2>1 DEF WorkFits
  <2>4. ~existing_file(t) => ~IsRegistered(work[t].name)
    BY <2>3, ContentsAreApart DEF existing_file, IsRegistered, NamesInvariant, RowsFit
  <2>5. work'[t].name = work[t].name /\ work'[t].hash = work[t].hash /\ TakenIn(work[t].name)'
    BY <1>4, <2>1, <2>2, <2>3 DEF TakenIn, Has
  <2>6. CASE existing_file(t) /\ Continue(t, "handle_duplicate_file")
    BY <1>4, <2>1, <2>2, <2>3, <2>5, <2>6 DEF WorkFits
  <2>7. CASE ~existing_file(t) /\ Continue(t, "add")
    BY <1>4, <2>1, <2>2, <2>3, <2>4, <2>5, <2>7 DEF WorkFits
  <2> QED BY <2>1, <2>6, <2>7
<1>10. CASE \/ handle_bad_file(t) \/ file_staged_handler(t) \/ handle_duplicate_file(t)
            \/ staged_file_is_gone(t)
  BY <1>10, WorkFitsAtRest DEF handle_bad_file, file_staged_handler, handle_duplicate_file,
                               staged_file_is_gone
<1> QED BY <1>5, <1>7, <1>8, <1>9, <1>10 DEF Staging

\* A handler that is run again begins with the hash.
LEMMA AgainRestarts ==
  ASSUME TypeOK, NEW t \in Threads, Again(t)
  PROVE  \/ Rest(t) /\ disk' = MovedToSystemFailure(work[t].name)
         \/ work'[t].at = "get_file_hash" /\ work'[t].name = work[t].name /\ UNCHANGED disk
<1>1. CASE Rest(t) /\ disk' = MovedToSystemFailure(work[t].name)
  BY <1>1
<1>2. CASE /\ UNCHANGED disk
           /\ work' = [work EXCEPT ![t] =
                 [work[t] EXCEPT !.at = "get_file_hash", !.hash = Nothing, !.attempt = @ + 1]]
  <2>1. work \in [Threads -> Work]
    BY DEF TypeOK, ProcessOK
  <2>2. PICK w : w = [work[t] EXCEPT !.at = "get_file_hash", !.hash = Nothing, !.attempt = @ + 1]
    OBVIOUS
  <2>3. w.at = "get_file_hash" /\ w.name = work[t].name
    BY <2>1, <2>2 DEF Work
  <2>4. work' = [work EXCEPT ![t] = w]
    BY <1>2, <2>2
  <2> QED BY <1>2, <2>1, <2>3, <2>4
<1> QED BY <1>1, <1>2 DEF Again

LEMMA WorkFitsAgain ==
  ASSUME TypeOK, TypeOK', DistinctNames, NamesInvariant, Next, NEW t \in Threads,
         work[t].at \in {"check_exists", "add"}, Again(t)
  PROVE  WorkFits(t)'
<1>1. CASE Rest(t)
  BY <1>1, WorkFitsAtRest
<1>2. CASE work'[t].at = "get_file_hash" /\ work'[t].name = work[t].name /\ UNCHANGED disk
  <2>1. TakenIn(work[t].name)
    BY DEF NamesInvariant, WorkFits, Working
  <2>2. TakenIn(work[t].name)'
    BY <1>2, <2>1 DEF TakenIn, Has
  <2> QED BY <1>2, <2>2 DEF WorkFits
<1> QED BY <1>1, <1>2, AgainRestarts

\* Whose work a step does.
LEMMA StepOfWork ==
  ASSUME TypeOK, Next, NEW t \in Threads
  PROVE  \/ work'[t] = work[t]
         \/ Staging(t)
         \/ t = "watcher" /\ \E n \in Names : on_created(n) /\ n \notin seen["watcher"]
         \/ t = "poller" /\ \E n \in Names : poll_directory(n)
         \/ operational_error(t) \/ commit_unanswered(t)
         \/ work'[t] = Resting /\ (unhandled_error(t) \/ crash)
<1>1. work \in [Threads -> Work]
  BY DEF TypeOK, ProcessOK
<1>2. ASSUME NEW u \in Threads, u # t, Rest(u) \/ \E s : Continue(u, s)
      PROVE  work'[t] = work[t]
  BY <1>1, <1>2 DEF Rest, Continue
<1>3. CASE \E d \in Deliveries : deliver(d)
  BY <1>3 DEF deliver
<1>4. ASSUME NEW n \in Names, on_created(n)
      PROVE  \/ work'[t] = work[t]
             \/ t = "watcher" /\ n \notin seen["watcher"]
  BY <1>1, <1>4 DEF on_created, TakeUp
<1>5. ASSUME NEW n \in Names, poll_directory(n)
      PROVE  work'[t] = work[t] \/ t = "poller"
  BY <1>1, <1>5 DEF poll_directory, TakeUp
<1>6. ASSUME NEW u \in Threads, u # t, Staging(u)
      PROVE  work'[t] = work[t]
  <2>1. CASE get_file_hash(u)
    BY <1>1, <1>6, <2>1 DEF get_file_hash
  <2>2. CASE stage_file(u)
    <3>1. Staged(work[u].name).kind = "text" \/ Staged(work[u].name).kind # "text"
      OBVIOUS
    <3>2. identify_from_headers(Incoming[u], Staged(work[u].name).matches) = Nothing
          \/ identify_from_headers(Incoming[u], Staged(work[u].name).matches) # Nothing
      OBVIOUS
    <3> QED BY <1>2, <1>6, <2>2, <3>1, <3>2 DEF stage_file
  <2>3. CASE \/ stage_file_moves(u) \/ handle_bad_file(u) \/ check_exists(u)
             \/ file_staged_handler(u) \/ handle_duplicate_file(u) \/ staged_file_is_gone(u)
    BY <1>2, <1>6, <2>3 DEF stage_file_moves, handle_bad_file, check_exists, file_staged_handler,
                            handle_duplicate_file, staged_file_is_gone
  <2> QED BY <1>6, <2>1, <2>2, <2>3 DEF Staging
<1>7. CASE Dispatcher
  BY <1>7 DEF Dispatcher, dispatch_pending_files, audit_csv, finish, registered_file_is_gone
<1>8. ASSUME NEW u \in Threads, u # t, operational_error(u) \/ commit_unanswered(u)
      PROVE  work'[t] = work[t]
  BY <1>1, <1>2, <1>8 DEF operational_error, commit_unanswered, Again
<1>9. ASSUME NEW u \in Threads, unhandled_error(u)
      PROVE  \/ work'[t] = work[t]
             \/ u = t /\ work'[t] = Resting
  BY <1>1, <1>9 DEF unhandled_error, Rest
<1>10. CASE pipeline_fault \/ crash \/ main
  BY <1>10 DEF pipeline_fault, crash, main, memory
<1> QED BY <1>3, <1>4, <1>5, <1>6, <1>7, <1>8, <1>9, <1>10
        DEF Next, Watcher, Poller, Faults

LEMMA WorkFitsStays ==
  ASSUME TypeOK, TypeOK', DistinctNames, NamesInvariant, Next, NEW t \in Threads
  PROVE  WorkFits(t)'
<1>1. ASSUME NEW n \in Names, on_created(n), n \notin seen["watcher"], t = "watcher"
      PROVE  WorkFits(t)'
  <2>1. PICK s \in {"stage_file", "refuse_arrival"} : TakeUp("watcher", n, s)
    BY <1>1 DEF on_created
  <2>2. Has(Incoming["watcher"], n) /\ UNCHANGED row
    BY <1>1 DEF on_created, NamesInvariant, ReportsFit, Incoming
  <2> QED BY <1>1, <2>1, <2>2, WorkFitsTakenUp
<1>2. ASSUME NEW n \in Names, poll_directory(n), t = "poller"
      PROVE  WorkFits(t)'
  <2>1. TakeUp("poller", n, "stage_file") /\ Has(Incoming["poller"], n) /\ UNCHANGED row
    BY <1>2 DEF poll_directory, Incoming
  <2> QED BY <1>2, <2>1, WorkFitsTakenUp
<1>3. CASE operational_error(t) \/ commit_unanswered(t)
  BY <1>3, WorkFitsAgain DEF operational_error, commit_unanswered, At
<1>4. CASE work'[t] = Resting
  BY <1>4, RestIsWork DEF WorkFits, Working
<1> QED BY <1>1, <1>2, <1>3, <1>4, StepOfWork, WorkFitsUntouched, WorkFitsStaging

(***************************************************************************)
(* What a step does to the imports.                                        *)
(***************************************************************************)
LEMMA StepOnImports ==
  ASSUME Next
  PROVE  \/ audit_csv
         \/ /\ UNCHANGED imports
            /\ job' = job \/ job'.at = "rest" \/ \E h \in Hashes : dispatch_pending_files(h)
<1>1. NoJob.at = "rest"
  BY DEF NoJob
<1>2. CASE (\E d \in Deliveries : deliver(d)) \/ Watcher \/ Poller
  BY <1>2 DEF deliver, Watcher, Poller, on_created, poll_directory
<1>3. CASE \E t \in Threads : Staging(t)
  BY <1>3 DEF Staging, stage_file_moves, stage_file, handle_bad_file, get_file_hash,
              check_exists, file_staged_handler, handle_duplicate_file, staged_file_is_gone
<1>4. CASE Dispatcher
  BY <1>1, <1>4 DEF Dispatcher, dispatch_pending_files, finish, registered_file_is_gone
<1>5. CASE Faults
  BY <1>1, <1>5 DEF Faults, operational_error, commit_unanswered, unhandled_error,
                    pipeline_fault, crash, main, memory
<1> QED BY <1>2, <1>3, <1>4, <1>5 DEF Next

\* The file of a row has the hash of the row, wherever it lies.
LEMMA FileOfRow ==
  ASSUME TypeOK, DistinctNames, RowsFit, NEW h \in Hashes, Registered(h),
         NEW place \in Directories, Has(place, row[h].filename)
  PROVE  parcel[disk[place][row[h].filename]].hash = h
<1>1. row[h].filename \in Names
  BY DEF TypeOK
<1>2. PICK d \in delivered : parcel[d].name = row[h].filename /\ parcel[d].hash = h
  BY DEF RowsFit, Content
<1> QED BY <1>1, <1>2, FileInPlace, NameIsOneFile

LEMMA ItemOfSequence ==
  ASSUME NEW S, NEW s \in Seq(S), NEW i \in DOMAIN s
  PROVE  s[i] \in S
OBVIOUS

LEMMA ImportsStay ==
  ASSUME TypeOK, TypeOK', DistinctNames, NamesInvariant, Next
  PROVE  ImportsFit'
<1>1. RowStep /\ ImportsFit /\ RowsFit
  BY StepOnRows DEF NamesInvariant
<1>2. imports \in Seq([row : Hashes, file : Hashes])
  BY DEF TypeOK
<1>3. \A i \in DOMAIN imports :
        imports[i].row \in Hashes /\ row'[imports[i].row].status \in {"BUSY", "SETTLED"}
  <2>1. ASSUME NEW i \in DOMAIN imports PROVE imports[i].row \in Hashes
    <3>1. imports[i] \in [row : Hashes, file : Hashes]
      BY <1>2, ItemOfSequence, Zenon
    <3> QED BY <3>1
  <2> QED BY <1>1, <2>1, RowsStay DEF ImportsFit
<1>4. CASE audit_csv
  <2>1. /\ job.at = "audit_csv" /\ job.hash \in Hashes /\ row[job.hash].status = "BUSY"
        /\ Has("processing", row[job.hash].filename) /\ UNCHANGED row
        /\ job' = [job EXCEPT !.at = "finish"]
        /\ imports' = Append(imports, [row |-> job.hash, file |-> Staged(row[job.hash].filename).hash])
    BY <1>4 DEF audit_csv, TypeOK, ProcessOK
  <2>2. Staged(row[job.hash].filename).hash = job.hash
    BY <1>1, <2>1, FileOfRow, Places DEF Staged, Registered
  <2>3. imports' = Append(imports, [row |-> job.hash, file |-> job.hash])
    BY <2>1, <2>2
  <2>4. PICK r \in [row : Hashes, file : Hashes] : r = [row |-> job.hash, file |-> job.hash]
    BY <2>1
  <2>5. r.row = job.hash /\ r.file = job.hash
    BY <2>4
  <2>6. /\ DOMAIN imports' = DOMAIN imports \cup {Len(imports) + 1}
        /\ \A i \in DOMAIN imports : imports'[i] = imports[i]
        /\ imports'[Len(imports) + 1] = r
        /\ Len(imports) + 1 \notin DOMAIN imports
    BY <1>2, <2>3, <2>4
  <2>7. job'.at # "audit_csv"
    BY <2>1 DEF TypeOK, ProcessOK, Job
  <2>8. \A i \in DOMAIN imports : imports[i].row # job.hash
    BY <1>1, <2>1 DEF ImportsFit
  <2>9. \A i \in DOMAIN imports' :
          imports'[i].row = imports'[i].file /\ row'[imports'[i].row].status \in {"BUSY", "SETTLED"}
    BY <1>1, <1>3, <2>1, <2>5, <2>6 DEF ImportsFit
  <2>10. \A i, j \in DOMAIN imports' : imports'[i].row = imports'[j].row => i = j
    BY <1>1, <2>5, <2>6, <2>8 DEF ImportsFit
  <2> QED BY <2>7, <2>9, <2>10 DEF ImportsFit
<1>5. CASE UNCHANGED imports /\ (job' = job \/ job'.at = "rest")
  BY <1>1, <1>3, <1>5 DEF ImportsFit
<1>6. ASSUME NEW h \in Hashes, dispatch_pending_files(h), UNCHANGED imports
      PROVE  ImportsFit'
  <2>1. row[h].status = "PENDING" /\ job'.hash = h
    BY <1>6 DEF dispatch_pending_files, oldest_pending
  <2>2. \A i \in DOMAIN imports : imports[i].row # h
    BY <1>1, <2>1 DEF ImportsFit
  <2> QED BY <1>1, <1>3, <1>6, <2>1, <2>2 DEF ImportsFit
<1> QED BY <1>4, <1>5, <1>6, StepOnImports

(***************************************************************************)
(* The invariant, and the imports.                                         *)
(***************************************************************************)
LEMMA NamesInvariantStays ==
  ASSUME TypeOK, TypeOK', DistinctNames, NamesInvariant, [Next]_vars
  PROVE  NamesInvariant'
<1>1. CASE Next
  <2>1. OneCopy' /\ ReportsFit'
    BY <1>1, StepOnDisk, OneCopyStays, ReportsStay DEF NamesInvariant
  <2>2. RowsFit' /\ ImportsFit'
    BY <1>1, RowsFitStays, ImportsStay
  <2>3. \A t \in Threads : WorkFits(t)'
    BY <1>1, WorkFitsStays
  <2> QED BY <2>1, <2>2, <2>3 DEF NamesInvariant
<1>2. CASE UNCHANGED vars
  <2>1. OneCopy' /\ ReportsFit' /\ RowsFit' /\ ImportsFit'
    BY <1>2 DEF vars, memory, NamesInvariant, OneCopy, ReportsFit, RowsFit, ImportsFit, Has, Came,
                TakenIn, IsRegistered, Registered, Content
  <2>2. \A t \in Threads : WorkFits(t)'
    BY <1>2 DEF vars, memory, NamesInvariant, WorkFits, Working, Has, TakenIn, IsRegistered,
                Registered, Content, existing_file
  <2> QED BY <2>1, <2>2 DEF NamesInvariant
<1> QED BY <1>1, <1>2

LEMMA NamesInvariantAtFirst ==
  ASSUME Init
  PROVE  NamesInvariant
<1>1. OneCopy /\ ReportsFit
  BY DEF Init, OneCopy, ReportsFit, Has, Directories, Threads
<1>2. \A h \in Hashes : ~Registered(h)
  BY DEF Init, Registered, Absent
<1>3. RowsFit
  BY <1>2 DEF RowsFit, IsRegistered
<1>4. \A t \in Threads : WorkFits(t)
  BY RestIsWork DEF Init, WorkFits, Working
<1>5. ImportsFit
  BY DEF Init, ImportsFit
<1> QED BY <1>1, <1>3, <1>4, <1>5 DEF NamesInvariant

\* For deliveries of different names, whatever fails: a file lies in one directory,
\* a thread works on a file that came to it, a row names a file of its hash that was
\* taken in, and a row is read at most once.
THEOREM NamesAreKept == Spec => [](DistinctNames => NamesInvariant)
<1>1. ASSUME Init PROVE DistinctNames => NamesInvariant
  BY <1>1, NamesInvariantAtFirst
<1>2. ASSUME TypeOK, TypeOK', DistinctNames => NamesInvariant, [Next]_vars
      PROVE  (DistinctNames => NamesInvariant)'
  <2>1. parcel' = parcel
    BY <1>2 DEF Next, vars
  <2>2. DistinctNames' => DistinctNames
    BY <2>1 DEF DistinctNames
  <2> QED BY <1>2, <2>2, NamesInvariantStays
<1> QED BY <1>1, <1>2, TypeCorrect, PTL DEF Spec

\* The rows of a content are imported at most once and under its own hash, however
\* many equal files the two threads stage at the same time and whatever is run again.
THEOREM ContentIsImportedOnce == Spec => []ImportedOnce
<1>1. ASSUME DistinctNames => NamesInvariant PROVE ImportedOnce
  BY <1>1 DEF ImportedOnce, NamesInvariant, ImportsFit
<1> QED BY <1>1, NamesAreKept, PTL

(***************************************************************************)
(* What pending rows and duplicates claim, while every commit is answered. *)
(***************************************************************************)
LEMMA WereAnswered ==
  ASSUME TypeOK, Next, EveryCommitIsAnswered'
  PROVE  EveryCommitIsAnswered /\ \A t \in Threads : ~commit_unanswered(t)
<1>1. mishaps \in [outages : Nat, unanswered : Nat, errors : Nat, crashes : Nat]
  BY DEF TypeOK
<1>2. ASSUME NEW kind \in {"outages", "errors", "crashes"}, Mishap(kind)
      PROVE  mishaps'.unanswered = mishaps.unanswered
  BY <1>1, <1>2 DEF Mishap
<1>3. ASSUME NEW t \in Threads, commit_unanswered(t)
      PROVE  FALSE
  BY <1>1, <1>3 DEF commit_unanswered, Mishap, EveryCommitIsAnswered
<1>4. CASE UNCHANGED mishaps
  BY <1>3, <1>4 DEF EveryCommitIsAnswered
<1>5. CASE \E kind \in {"outages", "errors", "crashes"} : Mishap(kind)
  BY <1>2, <1>3, <1>5 DEF EveryCommitIsAnswered
<1>6. CASE (\E d \in Deliveries : deliver(d)) \/ Watcher \/ Poller
  BY <1>4, <1>6 DEF deliver, Watcher, Poller, on_created, poll_directory
<1>7. CASE \E t \in Threads : Staging(t)
  BY <1>4, <1>7 DEF Staging, stage_file_moves, stage_file, handle_bad_file, get_file_hash,
              check_exists, file_staged_handler, handle_duplicate_file, staged_file_is_gone
<1>8. CASE Dispatcher
  BY <1>4, <1>8 DEF Dispatcher, dispatch_pending_files, audit_csv, finish, registered_file_is_gone
<1>9. CASE Faults
  BY <1>3, <1>4, <1>5, <1>9 DEF Faults, operational_error, unhandled_error, pipeline_fault,
                                crash, main
<1> QED BY <1>6, <1>7, <1>8, <1>9 DEF Next

\* A step of staging ends the work on the file or goes on with the file it has, which
\* only the first step moves.
LEMMA StagingGoesOn ==
  ASSUME TypeOK, NEW t \in Threads, Staging(t)
  PROVE  \/ Rest(t)
         \/ /\ work'[t].name = work[t].name /\ UNCHANGED row
            /\ \/ stage_file_moves(t)
               \/ /\ work[t].at \in {"check_headers", "get_file_hash", "check_exists"}
                  /\ UNCHANGED disk
<1>1. CASE stage_file_moves(t)
  <2>1. "check_headers" \in Steps
    BY DEF Steps
  <2> QED BY <1>1, <2>1, StepsOfWork DEF stage_file_moves
<1>2. CASE stage_file(t)
  <2>1. Staged(work[t].name).kind = "text" \/ Staged(work[t].name).kind # "text"
    OBVIOUS
  <2>2. identify_from_headers(Incoming[t], Staged(work[t].name).matches) = Nothing
        \/ identify_from_headers(Incoming[t], Staged(work[t].name).matches) # Nothing
    OBVIOUS
  <2>3. /\ work[t].at = "check_headers" /\ UNCHANGED <<disk, row>>
        /\ Rest(t) \/ \E s \in {"handle_bad_file", "get_file_hash"} : Continue(t, s)
    BY <1>2, <2>1, <2>2 DEF stage_file, At
  <2>4. {"handle_bad_file", "get_file_hash"} \subseteq Steps
    BY DEF Steps
  <2> QED BY <2>3, <2>4, StepsOfWork
<1>3. CASE get_file_hash(t)
  <2>1. /\ work[t].at = "get_file_hash" /\ UNCHANGED <<disk, row>>
        /\ work' = [work EXCEPT ![t].at = "check_exists", ![t].hash = Staged(work[t].name).hash]
    BY <1>3 DEF get_file_hash, At
  <2>2. work'[t].name = work[t].name
    BY <2>1 DEF TypeOK, ProcessOK, Work
  <2> QED BY <2>1, <2>2
<1>4. CASE check_exists(t)
  <2>1. /\ work[t].at = "check_exists" /\ UNCHANGED <<disk, row>>
        /\ \E s \in {"handle_duplicate_file", "add"} : Continue(t, s)
    BY <1>4 DEF check_exists, At
  <2>2. {"handle_duplicate_file", "add"} \subseteq Steps
    BY DEF Steps
  <2> QED BY <2>1, <2>2, StepsOfWork
<1>5. CASE \/ handle_bad_file(t) \/ file_staged_handler(t) \/ handle_duplicate_file(t)
           \/ staged_file_is_gone(t)
  BY <1>5 DEF handle_bad_file, file_staged_handler, handle_duplicate_file, staged_file_is_gone
<1> QED BY <1>1, <1>2, <1>3, <1>4, <1>5 DEF Staging

\* What a thread is at work on after a step, and had taken up before it.
LEMMA WorkGoesOn ==
  ASSUME TypeOK, NamesInvariant, Next, NEW t \in Threads, Working(t)', ~commit_unanswered(t)
  PROVE  \/ work'[t] = work[t]
         \/ /\ \E n \in Names, s \in {"stage_file", "refuse_arrival"} :
                 TakeUp(t, n, s) /\ Has(Incoming[t], n)
            /\ UNCHANGED <<row, disk>>
         \/ /\ work'[t].name = work[t].name /\ UNCHANGED row /\ Working(t)
            /\ \/ stage_file_moves(t)
               \/ work[t].at \notin {"stage_file", "refuse_arrival"} /\ UNCHANGED disk
<1>1. ~Rest(t)
  BY WorkFitsAtRest
<1>2. ASSUME Staging(t)
      PROVE  /\ work'[t].name = work[t].name /\ UNCHANGED row /\ Working(t)
             /\ \/ stage_file_moves(t)
                \/ work[t].at \notin {"stage_file", "refuse_arrival"} /\ UNCHANGED disk
  BY <1>1, <1>2, StagingGoesOn DEF stage_file_moves, At, Working
<1>3. ASSUME NEW n \in Names, on_created(n), n \notin seen["watcher"], t = "watcher"
      PROVE  /\ \E s \in {"stage_file", "refuse_arrival"} : TakeUp(t, n, s)
             /\ Has(Incoming[t], n) /\ UNCHANGED <<row, disk>>
  BY <1>3 DEF on_created, NamesInvariant, ReportsFit, Incoming
<1>4. ASSUME NEW n \in Names, poll_directory(n), t = "poller"
      PROVE  TakeUp(t, n, "stage_file") /\ Has(Incoming[t], n) /\ UNCHANGED <<row, disk>>
  BY <1>4 DEF poll_directory, Incoming
<1>5. ASSUME operational_error(t)
      PROVE  /\ work'[t].name = work[t].name /\ UNCHANGED <<row, disk>> /\ Working(t)
             /\ work[t].at \notin {"stage_file", "refuse_arrival"}
  BY <1>1, <1>5, AgainRestarts DEF operational_error, AfterRollback, Working
<1>6. work'[t] # Resting
  BY RestIsWork DEF Working
<1> QED BY <1>2, <1>3, <1>4, <1>5, <1>6, StepOfWork

\* A file stays where it is if its name is not that of a thread's work or of the job.
LEMMA ProcessedFilesStay ==
  ASSUME TypeOK, DistinctNames, DiskStep, NEW place \in Directories, NEW n \in Names, Has(place, n),
         \A t \in Threads : Working(t) /\ work'[t] # work[t] => n # work[t].name,
         job.at # "rest" => n # row[job.hash].filename
  PROVE  Has(place, n)' /\ disk'[place][n] = disk[place][n]
<1>1. ~ \E d \in Deliveries : deliver(d) /\ n = parcel[d].name
  BY FileInPlace, DeliveredIsNew
<1> QED BY <1>1, FilesThatStay DEF MovedByThread, MovedByJob, Has

LEMMA MovedHas ==
  ASSUME TypeOK, NEW from \in Directories, NEW to \in Directories, from # to, NEW n \in Names,
         Move(from, to, n)
  PROVE  Has(to, n)' /\ disk'[to][n] = disk[from][n]
BY DEF TypeOK, DirectoriesOK, Move, Has

LEMMA ClaimsStay ==
  ASSUME TypeOK, TypeOK', DistinctNames, NamesInvariant, NamesInvariant', Next,
         EveryCommitIsAnswered', ClaimsFit
  PROVE  ClaimsFit'
<1>1. DiskStep /\ RowStep /\ RowsFit /\ ReportsFit
  BY StepOnDisk, StepOnRows DEF NamesInvariant
<1>2. \A t \in Threads : ~commit_unanswered(t)
  BY WereAnswered
<1>3. ASSUME job.at # "rest"
      PROVE  /\ job.hash \in Hashes /\ row[job.hash].status = "BUSY"
             /\ IsRegistered(row[job.hash].filename)
  BY <1>3 DEF TypeOK, ProcessOK, IsRegistered, Registered
<1>4. ASSUME NEW t \in Threads, Working(t)'
      PROVE  ~IsRegistered(work[t].name)'
  <2>1. CASE work'[t] = work[t]
    BY <1>1, <1>4, <2>1, NotRegisteredStays DEF ClaimsFit, AddedBy, Working
  <2>2. CASE \E n \in Names, s \in {"stage_file", "refuse_arrival"} :
               TakeUp(t, n, s) /\ Has(Incoming[t], n) /\ UNCHANGED row
    <3>1. PICK n \in Names, s \in {"stage_file", "refuse_arrival"} :
            TakeUp(t, n, s) /\ Has(Incoming[t], n) /\ UNCHANGED row
      BY <2>2
    <3>2. work'[t].name = n /\ ~IsRegistered(n)'
      BY <3>1, WorkFitsTakenUp
    <3> QED BY <3>2 DEF IsRegistered
  <2>3. CASE work'[t].name = work[t].name /\ UNCHANGED row /\ Working(t)
    <3>1. ~IsRegistered(work[t].name)
      BY <2>3 DEF ClaimsFit
    <3> QED BY <2>3, <3>1 DEF IsRegistered, Registered
  <2> QED BY <1>2, <1>4, <2>1, <2>2, <2>3, WorkGoesOn
<1>5. ASSUME NEW t \in Threads, Working(t)', work'[t].at \notin {"stage_file", "refuse_arrival"}
      PROVE  Has("processing", work[t].name)'
  <2>1. CASE work'[t] = work[t]
    <3>1. /\ work[t].name \in Names /\ Has("processing", work[t].name) /\ Came(t, work[t].name)
          /\ ~IsRegistered(work[t].name)
      BY <1>1, <1>5, <2>1, WorkCame DEF ClaimsFit, Working
    <3>2. ASSUME NEW u \in Threads, Working(u), work'[u] # work[u]
          PROVE  work[t].name # work[u].name
      BY <1>1, <2>1, <3>1, <3>2, WorkCame, ThreadsAreApart
    <3>3. PICK n \in Names : n = work[t].name
      BY <3>1
    <3>4. Has("processing", n)'
      BY <1>1, <1>3, <3>1, <3>2, <3>3, ProcessedFilesStay, Places
    <3> QED BY <2>1, <3>3, <3>4 DEF Has
  <2>2. ASSUME NEW n \in Names, NEW s \in {"stage_file", "refuse_arrival"},
               TakeUp(t, n, s), Has(Incoming[t], n), UNCHANGED row
        PROVE  FALSE
    BY <1>5, <2>2, WorkFitsTakenUp
  <2>3. CASE work'[t].name = work[t].name /\ stage_file_moves(t)
    <3>1. Move(Incoming[t], "processing", work[t].name) /\ Working(t)
      BY <2>3 DEF stage_file_moves, At, Working
    <3>2. PICK n \in Names : n = work[t].name
      BY <1>1, <3>1, WorkCame
    <3>3. Has("processing", n)'
      BY <3>1, <3>2, MovedHas, Places
    <3> QED BY <2>3, <3>2, <3>3 DEF Has
  <2>4. CASE /\ work'[t].name = work[t].name /\ Working(t)
             /\ work[t].at \notin {"stage_file", "refuse_arrival"} /\ UNCHANGED disk
    <3>1. Has("processing", work[t].name)
      BY <2>4 DEF ClaimsFit
    <3> QED BY <2>4, <3>1 DEF Has
  <2> QED BY <1>2, <1>5, <2>1, <2>2, <2>3, <2>4, WorkGoesOn
<1>6. ASSUME NEW h \in Hashes, row'[h].status = "PENDING"
      PROVE  Has("processing", row[h].filename)'
  <2>1. CASE Registered(h)
    <3>1. PICK n : n = row[h].filename
      OBVIOUS
    <3>2. /\ row[h].status = "PENDING" /\ row'[h].filename = n /\ n \in Names
          /\ Has("processing", n) /\ IsRegistered(n)
      BY <1>1, <1>6, <2>1, <3>1, RowsStay DEF ClaimsFit, TypeOK, IsRegistered
    <3>3. job.at # "rest" => n # row[job.hash].filename
      BY <1>1, <1>3, <2>1, <3>1, <3>2, RowsAreApart DEF Registered
    <3>4. Has("processing", n)'
      BY <1>1, <3>2, <3>3, ProcessedFilesStay, Places DEF ClaimsFit
    <3> QED BY <3>2, <3>4 DEF Has
  <2>2. CASE ~Registered(h)
    <3>1. PICK t \in Threads : AddedBy(t) /\ row'[h].filename = work[t].name
      BY <1>1, <1>6, <2>2, RowsStay DEF Registered
    <3>2. UNCHANGED disk /\ Has("processing", work[t].name)
      BY <1>2, <3>1 DEF AddedBy, file_staged_handler, At, Working, ClaimsFit
    <3> QED BY <3>1, <3>2 DEF Has
  <2> QED BY <2>1, <2>2
<1>7. ASSUME NEW n \in Names, Has("duplicate_files", n)'
      PROVE  \E h \in Hashes : Content(n, h)' /\ Registered(h)' /\ row'[h].filename # n
  <2>1. \/ Has("duplicate_files", n)
        \/ \E t \in Threads : handle_duplicate_file(t) /\ work[t].name = n
    <3>1. disk \in [Directories -> [Names -> delivered \cup {Nothing}]]
      BY DEF TypeOK, DirectoriesOK
    <3>2. ASSUME NEW from \in Directories, NEW to \in Directories \ {"duplicate_files"}, NEW m,
                 Move(from, to, m)
          PROVE  Has("duplicate_files", n)
      BY <1>7, <3>1, <3>2, Places DEF Move, Has
    <3>3. ASSUME NEW from \in Directories, NEW m, m # n, Move(from, "duplicate_files", m)
          PROVE  Has("duplicate_files", n)
      BY <1>7, <3>1, <3>3, Places DEF Move, Has
    <3>4. ASSUME NEW d \in Deliveries, deliver(d) PROVE Has("duplicate_files", n)
      <4>1. parcel[d].directory \in {"leads", "sales"}
        BY ManifestsAssumption DEF TypeOK, DirectoriesOK, Parcel
      <4> QED BY <1>7, <3>1, <3>4, <4>1, Places DEF deliver, Has
    <3>5. ASSUME NEW t \in Threads, MovedByThread(t)
          PROVE  Has("duplicate_files", n) \/ (handle_duplicate_file(t) /\ work[t].name = n)
      BY <3>2, <3>3, <3>5, Places DEF MovedByThread
    <3>6. CASE MovedByJob
      BY <3>2, <3>6, Places DEF MovedByJob
    <3>7. CASE UNCHANGED disk
      BY <1>7, <3>7 DEF Has
    <3> QED BY <1>1, <3>4, <3>5, <3>6, <3>7 DEF DiskStep
  <2>2. ASSUME Has("duplicate_files", n)
        PROVE  \E h \in Hashes : Content(n, h) /\ Registered(h) /\ row[h].filename # n
    BY <2>2 DEF ClaimsFit
  <2>3. ASSUME NEW t \in Threads, handle_duplicate_file(t), work[t].name = n
        PROVE  \E h \in Hashes : Content(n, h) /\ Registered(h) /\ row[h].filename # n
    <3>1. /\ Working(t) /\ work[t].at = "handle_duplicate_file" /\ work[t].hash \in Hashes
      BY <2>3 DEF handle_duplicate_file, At, Working, TypeOK, ProcessOK
    <3>2. Content(n, work[t].hash) /\ Registered(work[t].hash)
      BY <2>3, <3>1 DEF NamesInvariant, WorkFits, existing_file
    <3>3. row[work[t].hash].filename # n
      BY <2>3, <3>1, <3>2 DEF ClaimsFit, IsRegistered
    <3> QED BY <3>1, <3>2, <3>3
  <2>4. PICK h \in Hashes : Content(n, h) /\ Registered(h) /\ row[h].filename # n
    BY <2>1, <2>2, <2>3
  <2>5. Content(n, h)' /\ Registered(h)' /\ row'[h].filename # n
    BY <1>1, <2>4, KnownFilesStay, RowsStay
  <2> QED BY <2>5
<1> QED BY <1>4, <1>5, <1>6, <1>7 DEF ClaimsFit

LEMMA ClaimsAtFirst ==
  ASSUME Init
  PROVE  ClaimsFit
<1>1. \A h \in Hashes : row[h].status = "ABSENT"
  BY DEF Init, Absent
<1>2. \A t \in Threads : ~Working(t)
  BY RestIsWork DEF Init, Working
<1>3. \A n \in Names : ~Has("duplicate_files", n)
  BY Places DEF Init, Has
<1> QED BY <1>1, <1>2, <1>3 DEF ClaimsFit, Working

\* For deliveries of different names and commits that are answered, whatever else
\* fails: a thread never works on a file that is registered, nobody takes from
\* processing/ a file that is pending or worked on, and what is in duplicate_files/
\* has a row of another file.
THEOREM ClaimsAreKept == Spec => []IntakeInv
<1>1. ASSUME Init PROVE IntakeInv
  BY <1>1, NamesInvariantAtFirst, ClaimsAtFirst DEF IntakeInv
<1>2. ASSUME TypeOK, TypeOK', IntakeInv, [Next]_vars
      PROVE  IntakeInv'
  <2>1. parcel' = parcel
    BY <1>2 DEF Next, vars
  <2>2. DistinctNames' <=> DistinctNames
    BY <2>1 DEF DistinctNames
  <2>3. SUFFICES ASSUME DistinctNames
                 PROVE  NamesInvariant' /\ (EveryCommitIsAnswered' => ClaimsFit')
    BY <2>2 DEF IntakeInv
  <2>4. NamesInvariant /\ (EveryCommitIsAnswered => ClaimsFit)
    BY <1>2, <2>3 DEF IntakeInv
  <2>5. NamesInvariant'
    BY <1>2, <2>3, <2>4, NamesInvariantStays
  <2>6. ASSUME EveryCommitIsAnswered' PROVE ClaimsFit'
    <3>1. CASE Next
      BY <1>2, <2>3, <2>4, <2>5, <2>6, <3>1, WereAnswered, ClaimsStay
    <3>2. CASE UNCHANGED vars
      <4>1. EveryCommitIsAnswered /\ ClaimsFit
        BY <2>4, <2>6, <3>2 DEF EveryCommitIsAnswered, vars
      <4> QED BY <3>2, <4>1 DEF vars, memory, ClaimsFit, Working, Has, IsRegistered, Registered,
                               Content
    <3> QED BY <1>2, <3>1, <3>2
  <2> QED BY <2>5, <2>6
<1> QED BY <1>1, <1>2, TypeCorrect, PTL DEF Spec

\* A pending row is a claim the threads, their retries and the duplicates they move
\* away do not disturb: the file lies in processing/ and is the one that was hashed.
THEOREM PendingFilesAreInPlace == Spec => []PendingIsInPlace
<1>1. ASSUME TypeOK, IntakeInv PROVE PendingIsInPlace
  <2>1. SUFFICES ASSUME DistinctNames, EveryCommitIsAnswered,
                        NEW h \in Hashes, row[h].status = "PENDING"
                 PROVE  Has("processing", row[h].filename) /\ Staged(row[h].filename).hash = h
    BY DEF PendingIsInPlace
  <2>2. RowsFit /\ Has("processing", row[h].filename)
    BY <1>1, <2>1 DEF IntakeInv, NamesInvariant, ClaimsFit
  <2> QED BY <1>1, <2>1, <2>2, FileOfRow, Places DEF Staged, Registered
<1> QED BY <1>1, TypeCorrect, ClaimsAreKept, PTL

\* What is set aside as a duplicate is equal to a file that is registered, and is not
\* that file.
THEOREM DuplicatesHaveOriginals == Spec => []DuplicateHasAnOriginal
<1>1. ASSUME TypeOK, IntakeInv PROVE DuplicateHasAnOriginal
  <2>1. SUFFICES ASSUME DistinctNames, EveryCommitIsAnswered,
                        NEW d \in delivered, LiesIn(d, "duplicate_files")
                 PROVE  RowOf(d).status # "ABSENT" /\ RowOf(d).filename # parcel[d].name
    BY DEF DuplicateHasAnOriginal
  <2>2. ClaimsFit
    BY <1>1, <2>1 DEF IntakeInv
  <2>3. parcel[d].name \in Names /\ Has("duplicate_files", parcel[d].name)
    <3>1. d \in Deliveries /\ d # Nothing
      BY <1>1, DeliveredIsNotNothing DEF TypeOK, DirectoriesOK
    <3> QED BY <1>1, <2>1, <3>1, ManifestsAssumption DEF LiesIn, Has, TypeOK, DirectoriesOK, Parcel
  <2>4. PICK h \in Hashes : /\ Content(parcel[d].name, h) /\ Registered(h)
                            /\ row[h].filename # parcel[d].name
    BY <2>2, <2>3 DEF ClaimsFit
  <2>5. h = parcel[d].hash
    BY <1>1, <2>1, <2>4, NameIsOneFile DEF Content
  <2> QED BY <2>4, <2>5 DEF RowOf, Registered
<1> QED BY <1>1, TypeCorrect, ClaimsAreKept, PTL

(***************************************************************************)
(* What lies in processing/, while the process lives and the disk obeys.   *)
(***************************************************************************)
DiskObeys == mishaps.errors = 0 /\ mishaps.crashes = 0

LEMMA DiskObeyed ==
  ASSUME TypeOK, Next, DiskObeys'
  PROVE  /\ DiskObeys
         /\ ~pipeline_fault /\ ~crash /\ \A t \in Threads : ~unhandled_error(t)
<1>1. mishaps \in [outages : Nat, unanswered : Nat, errors : Nat, crashes : Nat]
  BY DEF TypeOK
<1>2. ASSUME NEW kind \in {"outages", "unanswered"}, Mishap(kind)
      PROVE  mishaps'.errors = mishaps.errors /\ mishaps'.crashes = mishaps.crashes
  BY <1>1, <1>2 DEF Mishap
<1>3. ASSUME Mishap("errors") \/ Mishap("crashes")
      PROVE  FALSE
  BY <1>1, <1>3 DEF Mishap, DiskObeys
<1>4. ~pipeline_fault /\ ~crash /\ \A t \in Threads : ~unhandled_error(t)
  BY <1>3 DEF pipeline_fault, crash, unhandled_error
<1>5. UNCHANGED mishaps \/ \E kind \in {"outages", "unanswered"} : Mishap(kind)
  <2>1. CASE (\E d \in Deliveries : deliver(d)) \/ Watcher \/ Poller
    BY <2>1 DEF deliver, Watcher, Poller, on_created, poll_directory
  <2>2. CASE \E t \in Threads : Staging(t)
    BY <2>2 DEF Staging, stage_file_moves, stage_file, handle_bad_file, get_file_hash,
                check_exists, file_staged_handler, handle_duplicate_file, staged_file_is_gone
  <2>3. CASE Dispatcher
    BY <2>3 DEF Dispatcher, dispatch_pending_files, audit_csv, finish, registered_file_is_gone
  <2>4. CASE Faults
    BY <1>4, <2>4 DEF Faults, operational_error, commit_unanswered, main
  <2> QED BY <2>1, <2>2, <2>3, <2>4 DEF Next
<1> QED BY <1>2, <1>4, <1>5 DEF DiskObeys

\* A header is of no type only if it has the key fields of none.
LEMMA IdentifiedTypes ==
  ASSUME NEW t \in Threads, NEW matches \in SUBSET FileTypes, matches # {}
  PROVE  identify_from_headers(Incoming[t], matches) # Nothing
<1>1. Nothing \notin FileTypes /\ Incoming[t] \in FileTypes
  BY DeliveriesAssumption DEF Threads, Incoming, FileTypes
<1>2. CASE Cardinality(matches) = 1
  <2>1. (CHOOSE type \in matches : TRUE) \in matches
    OBVIOUS
  <2> QED BY <1>1, <1>2, <2>1 DEF identify_from_headers
<1>3. CASE Cardinality(matches) # 1
  <2>1. \A x : matches # {x}
    BY <1>3, FS_Singleton
  <2>2. FileTypes = {"leads", "sales"} /\ Incoming[t] \in {"leads", "sales"}
    BY DEF FileTypes, Threads, Incoming
  <2>3. matches # {"leads"} /\ matches # {"sales"}
    BY <2>1
  <2>4. matches = {"leads", "sales"}
    <3> HIDE DEF FileTypes
    <3> QED BY <2>2, <2>3, Zenon
  <2>5. Incoming[t] \in matches
    BY <2>2, <2>4
  <2> QED BY <1>1, <1>3, <2>5 DEF identify_from_headers
<1> QED BY <1>2, <1>3

LEMMA MovedAway ==
  ASSUME TypeOK, NEW to \in Directories, to # "processing", NEW n \in Names, Move("processing", to, n)
  PROVE  disk'["processing"][n] = Nothing
BY Places DEF TypeOK, DirectoriesOK, Move

\* Why a file stays when its thread has done with it.
LEMMA FilesThatAreLeft ==
  ASSUME TypeOK, TypeOK', DistinctNames, NamesInvariant, Next, DiskObeys',
         NEW t \in Threads, Working(t), NEW d \in delivered, work[t].name = parcel[d].name,
         LiesIn(d, "processing"), LiesIn(d, "processing")',
         ~(Working(t)' /\ work'[t].name = work[t].name)
  PROVE  \/ Unidentified(d)
         \/ RowOf(d)'.status \in {"PENDING", "BUSY"}
         \/ RowOf(d)'.status = "SETTLED" /\ RowOf(d)'.filename # parcel[d].name
<1>1. PICK n \in Names : n = work[t].name
  BY WorkCame DEF NamesInvariant
<1>2. /\ d \in Deliveries /\ d # Nothing /\ parcel' = parcel
      /\ disk["processing"][n] = d /\ disk'["processing"][n] = d /\ Has("processing", n)
      /\ parcel[d].hash \in Hashes
  <2>1. d \in Deliveries /\ d # Nothing /\ parcel' = parcel
    BY DeliveredIsNotNothing DEF TypeOK, DirectoriesOK, Next
  <2> QED BY <1>1, <2>1, ManifestsAssumption DEF LiesIn, Has, TypeOK, DirectoriesOK, Parcel
<1>3. ~ \E to \in Directories : to # "processing" /\ Move("processing", to, n)
  BY <1>2, MovedAway
<1>4. ~ \E to \in Directories : to # Incoming[t] /\ Move(Incoming[t], to, n) /\ to # "processing"
  BY <1>1, <1>2, Places DEF Move, NamesInvariant, OneCopy
<1>5. CASE stage_file(t)
  <2>1. CASE Staged(n).kind # "text" \/ identify_from_headers(Incoming[t], Staged(n).matches) # Nothing
    <3>1. \E s \in {"handle_bad_file", "get_file_hash"} : Continue(t, s)
      BY <1>1, <1>5, <2>1 DEF stage_file
    <3>2. {"handle_bad_file", "get_file_hash"} \subseteq Steps
      BY DEF Steps
    <3> QED BY <3>1, <3>2, StepsOfWork DEF Working
  <2>2. CASE Staged(n).kind = "text" /\ identify_from_headers(Incoming[t], Staged(n).matches) = Nothing
    <3>1. parcel[d].kind = "text" /\ parcel[d].matches \in SUBSET FileTypes
      BY <1>2, <2>2, ManifestsAssumption DEF Staged, TypeOK, DirectoriesOK, Parcel
    <3>2. parcel[d].matches = {}
      BY <1>2, <2>2, <3>1, IdentifiedTypes DEF Staged
    <3> QED BY <3>1, <3>2 DEF Unidentified, IsText
  <2> QED BY <2>1, <2>2
<1>6. CASE file_staged_handler(t)
  <2>1. work[t].at = "add" /\ row' = AfterAdd(t)
    BY <1>6 DEF file_staged_handler, At
  <2>2. work[t].hash = parcel[d].hash /\ ~IsRegistered(n)
    <3>1. Content(n, work[t].hash) /\ Content(n, parcel[d].hash) /\ ~IsRegistered(n)
      BY <1>1, <2>1 DEF NamesInvariant, WorkFits, Content
    <3> QED BY <3>1, ContentsAreApart
  <2>3. PICK h \in Hashes : h = parcel[d].hash
    BY <1>2
  <2>4. CASE existing_file(t)
    <3>1. row' = row /\ Registered(h) /\ row[h].filename # n
      BY <2>1, <2>2, <2>3, <2>4 DEF AfterAdd, existing_file, IsRegistered
    <3>2. row[h].status \in {"PENDING", "BUSY", "SETTLED"}
      BY <3>1 DEF TypeOK, Row, Registered
    <3> QED BY <1>1, <1>2, <2>3, <3>1, <3>2 DEF RowOf
  <2>5. CASE ~existing_file(t)
    <3>1. row' = [row EXCEPT ![h] = NewRow(n)] /\ NewRow(n).status = "PENDING"
      BY <1>1, <2>1, <2>2, <2>3, <2>5, NewRowIsRow DEF AfterAdd
    <3>2. row'[h].status = "PENDING"
      BY <3>1 DEF TypeOK
    <3> QED BY <1>2, <2>3, <3>2 DEF RowOf
  <2> QED BY <2>4, <2>5
<1>7. CASE handle_bad_file(t)
  BY <1>1, <1>3, <1>4, <1>7, Places DEF handle_bad_file
<1>8. CASE handle_duplicate_file(t)
  BY <1>1, <1>3, <1>8, Places DEF handle_duplicate_file, DuplicateName
<1>9. CASE staged_file_is_gone(t)
  BY <1>1, <1>2, <1>9 DEF staged_file_is_gone
<1>10. ASSUME NEW s \in Steps, s # "rest", Continue(t, s)
       PROVE  FALSE
  BY <1>10, StepsOfWork DEF Working
<1>11. CASE stage_file_moves(t) \/ check_exists(t)
  BY <1>10, <1>11 DEF stage_file_moves, check_exists, Steps
<1>12. CASE get_file_hash(t)
  <2>1. work'[t].at = "check_exists" /\ work'[t].name = work[t].name
    BY <1>12 DEF get_file_hash, TypeOK, ProcessOK, Work
  <2> QED BY <2>1 DEF Working
<1>13. CASE operational_error(t) \/ commit_unanswered(t)
  <2>1. Again(t)
    BY <1>13 DEF operational_error, commit_unanswered
  <2>2. CASE Rest(t) /\ disk' = MovedToSystemFailure(n)
    <3>1. Move("processing", "system_failure", n)
      BY <1>2, <2>2 DEF MovedToSystemFailure, Move
    <3> QED BY <1>3, <3>1, Places
  <2>3. CASE work'[t].at = "get_file_hash" /\ work'[t].name = work[t].name
    BY <2>3 DEF Working
  <2> QED BY <1>1, <2>1, <2>2, <2>3, AgainRestarts
<1>14. ~crash /\ ~unhandled_error(t) /\ work'[t] # work[t]
  BY DiskObeyed DEF Working
<1>15. Staging(t) \/ operational_error(t) \/ commit_unanswered(t)
  BY <1>14, StepOfWork DEF on_created, poll_directory, At, Working
<1> QED BY <1>5, <1>6, <1>7, <1>8, <1>9, <1>11, <1>12, <1>13, <1>15 DEF Staging

\* A file that a step leaves in processing/ lay there, or was just moved there.
LEMMA CameToProcessing ==
  ASSUME TypeOK, TypeOK', DiskStep, NEW d \in delivered', LiesIn(d, "processing")'
  PROVE  \/ d \in delivered /\ LiesIn(d, "processing")
         \/ \E t \in Threads : stage_file_moves(t) /\ work[t].name = parcel[d].name
<1>1. /\ disk \in [Directories -> [Names -> delivered \cup {Nothing}]]
      /\ d \in Deliveries /\ d # Nothing /\ parcel' = parcel
      /\ parcel \in [Deliveries -> Parcel]
  BY ManifestsAssumption, DeliveriesAssumption DEF TypeOK, DirectoriesOK, DiskStep
<1>2. PICK n \in Names : n = parcel[d].name
  BY <1>1 DEF Parcel
<1>3. disk'["processing"][n] = d
  BY <1>1, <1>2 DEF LiesIn
<1>4. ASSUME disk'["processing"][n] = disk["processing"][n]
      PROVE  d \in delivered /\ LiesIn(d, "processing")
  <2>1. disk["processing"][n] \in delivered \cup {Nothing}
    BY <1>1, Places
  <2> QED BY <1>1, <1>2, <1>3, <1>4, <2>1 DEF LiesIn
<1>5. ASSUME NEW e \in Deliveries, deliver(e)
      PROVE  disk'["processing"][n] = disk["processing"][n]
  <2>1. parcel[e].directory \in {"leads", "sales"}
    BY <1>1 DEF Parcel
  <2> QED BY <1>1, <1>5, <2>1, Places DEF deliver
<1>6. ASSUME NEW from \in Directories, NEW to \in Directories, NEW m \in Names, from # to,
             Move(from, to, m), to # "processing" \/ m # n
      PROVE  disk'["processing"][n] = disk["processing"][n]
  BY <1>1, <1>2, <1>3, <1>6, Places DEF Move
<1>7. CASE MovedByJob
  <2>1. row[job.hash].filename \in Names
    BY <1>7 DEF MovedByJob, TypeOK, ProcessOK, Registered
  <2> QED BY <1>4, <1>6, <1>7, <2>1, Places DEF MovedByJob
<1>8. ASSUME NEW t \in Threads, MovedByThread(t)
      PROVE  \/ disk'["processing"][n] = disk["processing"][n]
             \/ stage_file_moves(t) /\ work[t].name = n
  <2>1. work[t].name \in Names
    BY <1>8, WorkHasName DEF MovedByThread, TypeOK
  <2> QED BY <1>6, <1>8, <2>1, Places DEF MovedByThread
<1>9. CASE UNCHANGED disk
  BY <1>4, <1>9
<1> QED BY <1>2, <1>4, <1>5, <1>7, <1>8, <1>9 DEF DiskStep

LEMMA StraysStayKnown ==
  ASSUME TypeOK, TypeOK', DistinctNames, NamesInvariant, Next, DiskObeys',
         NEW d \in delivered', LiesIn(d, "processing")', StraysAreKnown
  PROVE  \/ \E t \in Threads : Working(t)' /\ work'[t].name = parcel[d].name
         \/ RowOf(d)'.status \in {"PENDING", "BUSY"}
         \/ RowOf(d)'.status = "SETTLED" /\ RowOf(d)'.filename # parcel[d].name
         \/ Unidentified(d)
<1>1. DiskStep /\ RowStep /\ parcel' = parcel /\ DiskObeys /\ ~pipeline_fault
  BY StepOnDisk, StepOnRows, DiskObeyed DEF DiskStep
<1>2. ASSUME NEW t \in Threads, stage_file_moves(t), work[t].name = parcel[d].name
      PROVE  Working(t)' /\ work'[t].name = parcel[d].name
  <2>1. "check_headers" \in Steps
    BY DEF Steps
  <2> QED BY <1>2, <2>1, StepsOfWork DEF stage_file_moves, Working
<1>3. CASE d \in delivered /\ LiesIn(d, "processing")
  <2>1. PICK h \in Hashes : h = parcel[d].hash
    BY ManifestsAssumption DEF TypeOK, DirectoriesOK, Parcel
  <2>2. RowOf(d) = row[h] /\ RowOf(d)' = row'[h]
    BY <1>1, <2>1 DEF RowOf
  <2>3. CASE \E t \in Threads : Working(t) /\ work[t].name = parcel[d].name
    BY <1>3, <2>3, FilesThatAreLeft
  <2>4. CASE row[h].status \in {"PENDING", "BUSY"}
    <3>1. row'[h].status \in {"PENDING", "BUSY", "SETTLED"} /\ row'[h].filename = row[h].filename
      BY <1>1, <2>4, RowsStay DEF TypeOK, Row, Registered
    <3>2. ASSUME row'[h].status = "SETTLED" PROVE row[h].filename # parcel[d].name
      <4>1. finish /\ h = job.hash
        <5>1. row'[h].status # row[h].status
          BY <2>4, <3>2
        <5>2. ASSUME NEW g \in Hashes, dispatch_pending_files(g) PROVE FALSE
          BY <3>2, <5>1, <5>2 DEF dispatch_pending_files, TypeOK, Row
        <5>3. ASSUME NEW t \in Threads, AddedBy(t) PROVE FALSE
          BY <2>4, <5>1, <5>3 DEF AddedBy, existing_file, Registered, TypeOK
        <5> QED BY <1>1, <5>1, <5>2, <5>3 DEF RowStep, finish, TypeOK
      <4>2. Move("processing", "finished", row[h].filename) /\ row[h].filename \in Names
        BY <2>4, <4>1 DEF finish, TypeOK, Registered
      <4>3. disk'["processing"][row[h].filename] = Nothing
        BY <4>2, MovedAway, Places
      <4> QED BY <1>1, <1>3, <4>3, DeliveredIsNotNothing DEF LiesIn
    <3> QED BY <2>2, <3>1, <3>2
  <2>5. CASE row[h].status = "SETTLED" /\ row[h].filename # parcel[d].name
    BY <1>1, <2>2, <2>5, RowsStay DEF Registered
  <2> QED BY <1>1, <1>3, <2>2, <2>3, <2>4, <2>5 DEF StraysAreKnown, DiskObeys
<1> QED BY <1>1, <1>2, <1>3, CameToProcessing

\* A file rests in processing/ because a thread works on it, because it is registered
\* and not settled, because an equal file is settled, or because its header is of no
\* type: while nothing but the database fails, none is forgotten there.
THEOREM NoFileIsForgotten == Spec => []StraysAreKnown
<1>1. ASSUME Init PROVE StraysAreKnown
  BY <1>1 DEF Init, StraysAreKnown
<1>2. ASSUME TypeOK, TypeOK', DistinctNames => NamesInvariant, StraysAreKnown, [Next]_vars
      PROVE  StraysAreKnown'
  <2>1. parcel' = parcel
    BY <1>2 DEF Next, vars
  <2>2. DistinctNames' <=> DistinctNames
    BY <2>1 DEF DistinctNames
  <2>3. CASE Next
    BY <1>2, <2>1, <2>2, <2>3, StraysStayKnown DEF StraysAreKnown, DiskObeys, Working, Unidentified, IsText
  <2>4. CASE UNCHANGED vars
    BY <1>2, <2>4 DEF vars, memory, StraysAreKnown, DistinctNames, LiesIn, Working, RowOf,
                      Unidentified, IsText
  <2> QED BY <1>2, <2>3, <2>4
<1> QED BY <1>1, <1>2, TypeCorrect, NamesAreKept, PTL DEF Spec
===============================================================================

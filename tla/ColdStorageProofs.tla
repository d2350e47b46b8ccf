-------------------------- MODULE ColdStorageProofs ---------------------------
(***************************************************************************)
(* Theorems about archiving, for every set of files and names and any      *)
(* number of interruptions.                                                *)
(***************************************************************************)
EXTENDS ColdStorageProperties, FiniteSetTheorems, TLAPS

LEMMA InitType == Init => TypeOK
BY ManifestsAssumption DEF Init, TypeOK, JobOK, NoJob

LEMMA NextType ==
  ASSUME TypeOK, [Next]_vars
  PROVE  TypeOK'
<1> USE DEF TypeOK
<1>1. CASE UNCHANGED vars
  BY <1>1 DEF vars, JobOK, Run, NoJob
<1>2. ASSUME NEW f \in Files, move(f), UNCHANGED place
      PROVE  TypeOK'
  <2>1. disk' \in [Places -> Files \cup {Nothing}]
    BY <1>2 DEF move
  <2> QED BY <1>2, <2>1 DEF move, JobOK, Run, NoJob
<1>3. ASSUME NEW f \in Files, grow_old(f), UNCHANGED place
      PROVE  TypeOK'
  BY <1>3 DEF grow_old, JobOK, Run, NoJob
<1>4. CASE handle_file_archiving /\ UNCHANGED place
  <2>1. job' \in Run /\ job'.listed # {} /\ job'.at = "zipping"
    BY <1>4 DEF handle_file_archiving, files_to_archive, Run
  <2> QED BY <1>4, <2>1 DEF handle_file_archiving, JobOK, Run
<1>5. CASE close_zip /\ UNCHANGED place
  <2>1. job \in Run /\ job.listed # {}
    BY <1>5 DEF close_zip, JobOK, NoJob
  <2>2. job' \in Run /\ job'.listed # {} /\ job'.rest # {}
    BY <1>5, <2>1 DEF close_zip, Closed, Run
  <2>3. zips' \in Seq(SUBSET Files)
    BY <1>5, <2>1 DEF close_zip, Run
  <2> QED BY <1>5, <2>2, <2>3 DEF close_zip, JobOK, Run
<1>6. ASSUME NEW p \in Places, zip_file(p), UNCHANGED place
      PROVE  TypeOK'
  <2>1. job \in Run /\ job.listed # {}
    BY <1>6 DEF zip_file, JobOK, NoJob
  <2>2. Contents(p) \subseteq Files
    BY DEF Contents
  <2>3. job' \in Run /\ job'.listed # {} /\ job'.at = "zipping"
    BY <1>6, <2>1, <2>2 DEF zip_file, Run
  <2> QED BY <1>6, <2>3 DEF zip_file, JobOK
<1>7. ASSUME NEW p \in Places, remove_file(p), UNCHANGED place
      PROVE  TypeOK'
  <2>1. job \in Run /\ job.listed # {}
    BY <1>7 DEF remove_file, JobOK, NoJob
  <2>2. disk' \in [Places -> Files \cup {Nothing}]
    BY <1>7 DEF remove_file
  <2>3. job' = NoJob \/ (job' \in Run /\ job'.listed # {} /\ job'.rest # {})
    BY <1>7, <2>1 DEF remove_file, AfterRemovalOf, Run
  <2> QED BY <1>7, <2>2, <2>3 DEF remove_file, JobOK
<1>8. CASE interrupted /\ UNCHANGED place
  BY <1>8 DEF interrupted, Interrupted, JobOK
<1>9. CASE write_failed /\ UNCHANGED place
  <2>1. job.zip \in SUBSET Files
    BY <1>9 DEF write_failed, Interrupted, JobOK, Run
  <2>2. zips' \in Seq(SUBSET Files)
    BY <1>9, <2>1 DEF write_failed
  <2> QED BY <1>9, <2>2 DEF write_failed, Interrupted, JobOK
<1> QED BY <1>1, <1>2, <1>3, <1>4, <1>5, <1>6, <1>7, <1>8, <1>9 DEF Next, Archiver

\* The variables of archiving have their types in every behaviour.
THEOREM TypeCorrect == Spec => []TypeOK
<1> QED BY InitType, NextType, PTL DEF Spec

-------------------------------------------------------------------------------
(***************************************************************************)
(* Nothing is lost.  The invariant follows a file through the job: while   *)
(* the zip is written a listed place keeps the file it had, which is in    *)
(* the zip once its turn has come; while files are deleted, those still to *)
(* be deleted are in a closed archive.                                     *)
(***************************************************************************)
Conserved ==
  /\ \A f \in settled : disk[place[f]] = f \/ Archived(f)
  /\ \A p \in Places : disk[p] # Nothing => disk[p] \in settled /\ place[disk[p]] = p
  /\ job.at = "zipping" =>
       \A p \in job.listed : disk[p] # Nothing /\ (p \notin job.rest => disk[p] \in job.zip)
  /\ job.at = "removing" => \A p \in job.rest : disk[p] # Nothing /\ Archived(disk[p])

ArchivingInv == DistinctPlaces => Conserved

\* A place with a file in it gets no other one.
LEMMA MoveConserves ==
  ASSUME TypeOK, DistinctPlaces, Conserved, NEW f \in Files, move(f), UNCHANGED place
  PROVE  Conserved'
<1>1. place[f] \in Places /\ \A g \in Files : place[g] \in Places
  BY ManifestsAssumption DEF TypeOK
<1>2. disk[place[f]] = Nothing
  <2>1. SUFFICES ASSUME disk[place[f]] # Nothing PROVE FALSE
    OBVIOUS
  <2>2. disk[place[f]] \in settled /\ place[disk[place[f]]] = place[f]
    BY <1>1, <2>1 DEF Conserved
  <2>3. disk[place[f]] = f
    BY <2>2 DEF DistinctPlaces, TypeOK
  <2> QED BY <2>2, <2>3 DEF move
<1>3. disk'[place[f]] = f /\ \A p \in Places : p # place[f] => disk'[p] = disk[p]
  BY <1>1 DEF move, TypeOK
<1>4. UNCHANGED <<zips, job>> /\ settled' = settled \cup {f}
  BY DEF move
<1>5. \A g \in Files : Archived(g)' <=> Archived(g)
  BY <1>4 DEF Archived
<1>6. (\A g \in settled : disk[place[g]] = g \/ Archived(g))'
  BY <1>1, <1>3, <1>4, <1>5 DEF Conserved, DistinctPlaces, TypeOK
<1>7. (\A p \in Places : disk[p] # Nothing => disk[p] \in settled /\ place[disk[p]] = p)'
  BY <1>3, <1>4 DEF Conserved
<1>8. \A p \in Places : disk[p] # Nothing => disk'[p] = disk[p]
  BY <1>2, <1>3
<1>9. job # NoJob => job.listed \subseteq Places /\ job.rest \subseteq Places
  BY DEF TypeOK, JobOK, Run
<1>10. (job.at = "zipping" =>
         \A p \in job.listed : disk[p] # Nothing /\ (p \notin job.rest => disk[p] \in job.zip))'
  BY <1>4, <1>8, <1>9 DEF Conserved, NoJob
<1>11. (job.at = "removing" => \A p \in job.rest : disk[p] # Nothing /\ Archived(disk[p]))'
  BY <1>4, <1>5, <1>8, <1>9 DEF Conserved, NoJob, TypeOK
<1> QED BY <1>6, <1>7, <1>10, <1>11 DEF Conserved

\* The zip becomes one more archive, and the others stay.
LEMMA OneMoreArchive ==
  ASSUME TypeOK, job # NoJob, zips' = Append(zips, job.zip)
  PROVE  /\ DOMAIN zips' = DOMAIN zips \cup {Len(zips) + 1} /\ Len(zips) + 1 \notin DOMAIN zips
         /\ \A k \in DOMAIN zips : zips'[k] = zips[k]
         /\ zips'[Len(zips) + 1] = job.zip
         /\ \A f : (Archived(f) \/ f \in job.zip) => Archived(f)'
<1>1. job.zip \in SUBSET Files /\ zips \in Seq(SUBSET Files)
  BY DEF TypeOK, JobOK, Run
<1>2. /\ DOMAIN zips' = DOMAIN zips \cup {Len(zips) + 1} /\ Len(zips) + 1 \notin DOMAIN zips
      /\ \A k \in DOMAIN zips : zips'[k] = zips[k]
      /\ zips'[Len(zips) + 1] = job.zip
  BY <1>1
<1> QED BY <1>2 DEF Archived

LEMMA CloseConserves ==
  ASSUME TypeOK, Conserved, close_zip, UNCHANGED place
  PROVE  Conserved'
<1>1. job \in Run /\ job # NoJob
  BY DEF close_zip, TypeOK, JobOK, NoJob
<1>2. job'.at = "removing" /\ job'.rest = job.listed
  BY <1>1 DEF close_zip, Closed, Run
<1>3. \A f : (Archived(f) \/ f \in job.zip) => Archived(f)'
  BY <1>1, OneMoreArchive DEF close_zip
<1>4. \A p \in job.listed : disk[p] # Nothing /\ disk[p] \in job.zip
  BY DEF close_zip, Conserved
<1> QED BY <1>2, <1>3, <1>4 DEF Conserved, close_zip

\* An error closes a zip whose files are all in place.
LEMMA FailureConserves ==
  ASSUME TypeOK, Conserved, write_failed, UNCHANGED place
  PROVE  Conserved'
<1>1. \A f : Archived(f) => Archived(f)'
  BY OneMoreArchive DEF write_failed, Interrupted
<1> QED BY <1>1 DEF Conserved, write_failed, Interrupted, NoJob

LEMMA ZipConserves ==
  ASSUME TypeOK, Conserved, NEW p \in Places, zip_file(p), UNCHANGED place
  PROVE  Conserved'
<1>1. job \in Run
  BY DEF zip_file, TypeOK, JobOK, NoJob
<1>2. /\ job'.at = "zipping" /\ job'.listed = job.listed
      /\ job'.rest = job.rest \ {p} /\ job'.zip = job.zip \cup Contents(p)
  BY <1>1 DEF zip_file, Run
<1>3. \A q \in job.listed : disk[q] # Nothing /\ (q \notin job'.rest => disk[q] \in job'.zip)
  BY <1>2 DEF Conserved, zip_file, Contents
<1> QED BY <1>2, <1>3 DEF Conserved, zip_file, Archived

LEMMA RemovalConserves ==
  ASSUME TypeOK, Conserved, NEW p \in Places, remove_file(p), UNCHANGED place
  PROVE  Conserved'
<1>1. job \in Run
  BY DEF remove_file, TypeOK, JobOK, NoJob
<1>2. Archived(disk[p])
  BY DEF remove_file, Conserved
<1>3. disk'[p] = Nothing /\ \A q \in Places : q # p => disk'[q] = disk[q]
  BY DEF remove_file, TypeOK
<1>4. job' = NoJob \/ (job'.at = "removing" /\ job'.rest = job.rest \ {p})
  BY <1>1 DEF remove_file, AfterRemovalOf, Run
<1>5. \A f : Archived(f)' <=> Archived(f)
  BY DEF remove_file, Archived
<1>6. \A f \in settled : place[f] \in Places
  BY ManifestsAssumption DEF TypeOK
<1>7. (\A f \in settled : disk[place[f]] = f \/ Archived(f))'
  BY <1>2, <1>3, <1>5, <1>6 DEF remove_file, Conserved
<1>8. (\A q \in Places : disk[q] # Nothing => disk[q] \in settled /\ place[disk[q]] = q)'
  BY <1>3 DEF remove_file, Conserved
<1>9. job.rest \subseteq Places
  BY <1>1 DEF Run
<1> QED BY <1>3, <1>4, <1>5, <1>7, <1>8, <1>9 DEF Conserved, NoJob, remove_file

LEMMA NextConserves ==
  ASSUME TypeOK, ArchivingInv, [Next]_vars
  PROVE  ArchivingInv'
<1>1. place' = place
  BY DEF Next, vars
<1>2. SUFFICES ASSUME DistinctPlaces PROVE Conserved'
  BY <1>1 DEF ArchivingInv, DistinctPlaces
<1>3. Conserved
  BY <1>2 DEF ArchivingInv
<1>4. CASE UNCHANGED vars
  BY <1>3, <1>4 DEF Conserved, Archived, vars
<1>5. ASSUME NEW f \in Files, grow_old(f)
      PROVE  Conserved'
  BY <1>1, <1>3, <1>5 DEF Conserved, Archived, grow_old
<1>6. CASE handle_file_archiving
  <2>1. /\ job'.at = "zipping" /\ job'.rest = job'.listed
        /\ \A p \in job'.listed : disk[p] # Nothing
    BY <1>6, NothingAssumption DEF handle_file_archiving, files_to_archive, TypeOK
  <2> QED BY <1>1, <1>3, <1>6, <2>1 DEF Conserved, Archived, handle_file_archiving
<1>7. CASE interrupted
  BY <1>1, <1>3, <1>7 DEF Conserved, Archived, interrupted, Interrupted, NoJob
<1> QED
  BY <1>1, <1>2, <1>3, <1>4, <1>5, <1>6, <1>7, MoveConserves, CloseConserves, ZipConserves,
     RemovalConserves, FailureConserves DEF Next, Archiver

\* Whenever the job is interrupted, between two writes, before or after the zip is
\* closed or between two deletions, every file is in its place or in a closed archive.
THEOREM ArchivingLosesNothing == Spec => []NothingIsLost
<1>1. Init => ArchivingInv
  BY DEF Init, ArchivingInv, Conserved, NoJob
<1>2. TypeOK /\ ArchivingInv /\ [Next]_vars => ArchivingInv'
  BY NextConserves
<1>3. ArchivingInv => NothingIsLost
  BY DEF ArchivingInv, Conserved, NothingIsLost
<1> QED BY <1>1, <1>2, <1>3, TypeCorrect, PTL DEF Spec

-------------------------------------------------------------------------------
(***************************************************************************)
(* No file is zipped twice but for an interruption.  A file that is not    *)
(* about to be deleted is in no more archives than there were              *)
(* interruptions: each of them was closed by a run that was interrupted    *)
(* before it deleted the file, or closed by the interruption itself.       *)
(***************************************************************************)
ArchivesOf(f) == {k \in DOMAIN zips : f \in zips[k]}
Count(f)      == Cardinality(ArchivesOf(f))

ToBeRemoved(f) == job.at = "removing" /\ place[f] \in job.rest
Gone(f)        == f \in settled /\ disk[place[f]] # f

Counted ==
  /\ \A f \in Files : Count(f) <= 1 + interruptions
  /\ \A f \in Files : ~ToBeRemoved(f) /\ ~Gone(f) => Count(f) <= interruptions
  /\ job.at = "zipping" =>
       /\ job.rest \subseteq job.listed
       /\ \A f \in job.zip : f \in settled /\ disk[place[f]] = f /\ place[f] \in job.listed

CountingInv == DistinctPlaces => Conserved /\ Counted

LEMMA CountType ==
  ASSUME TypeOK, NEW f \in Files
  PROVE  IsFiniteSet(ArchivesOf(f)) /\ Count(f) \in Nat
<1>1. IsFiniteSet(1..Len(zips)) /\ DOMAIN zips = 1..Len(zips)
  BY FS_Interval DEF TypeOK
<1>2. ArchivesOf(f) \subseteq 1..Len(zips)
  BY <1>1 DEF ArchivesOf
<1> QED BY <1>1, <1>2, FS_Subset, FS_CardinalityType DEF Count

LEMMA CountAfterClosing ==
  ASSUME TypeOK, job # NoJob, zips' = Append(zips, job.zip), NEW f \in Files
  PROVE  /\ f \notin job.zip => Count(f)' = Count(f)
         /\ f \in job.zip => Count(f)' = Count(f) + 1
<1>1. /\ DOMAIN zips' = DOMAIN zips \cup {Len(zips) + 1} /\ Len(zips) + 1 \notin DOMAIN zips
      /\ \A k \in DOMAIN zips : zips'[k] = zips[k]
      /\ zips'[Len(zips) + 1] = job.zip
  BY OneMoreArchive
<1>2. CASE f \notin job.zip
  <2>1. ArchivesOf(f)' = ArchivesOf(f)
    BY <1>1, <1>2 DEF ArchivesOf
  <2> QED BY <1>2, <2>1 DEF Count
<1>3. CASE f \in job.zip
  <2>1. ArchivesOf(f)' = ArchivesOf(f) \cup {Len(zips) + 1} /\ Len(zips) + 1 \notin ArchivesOf(f)
    BY <1>1, <1>3 DEF ArchivesOf
  <2> QED BY <1>3, <2>1, CountType, FS_AddElement DEF Count
<1> QED BY <1>2, <1>3

LEMMA CountSame ==
  ASSUME UNCHANGED zips, NEW f
  PROVE  Count(f)' = Count(f)
BY DEF Count, ArchivesOf

LEMMA MoveCounts ==
  ASSUME TypeOK, DistinctPlaces, Conserved, Counted, NEW f \in Files, move(f), UNCHANGED place
  PROVE  Counted'
<1>1. /\ \A g \in Files : place[g] \in Places /\ (g # f => place[g] # place[f])
      /\ UNCHANGED <<zips, job, interruptions>> /\ settled' = settled \cup {f} /\ f \notin settled
  BY ManifestsAssumption DEF TypeOK, DistinctPlaces, move
<1>2. disk'[place[f]] = f /\ \A g \in Files : g # f => disk'[place[g]] = disk[place[g]]
  BY <1>1 DEF move, TypeOK
<1>3. \A g \in Files : Gone(g)' <=> Gone(g)
  BY <1>1, <1>2 DEF Gone
<1>4. \A g \in Files : Count(g)' = Count(g) /\ (ToBeRemoved(g)' <=> ToBeRemoved(g))
  BY <1>1, CountSame DEF ToBeRemoved
<1>5. job.at = "zipping" => job.zip \subseteq Files
  BY DEF TypeOK, JobOK, NoJob, Run
<1>6. job'.at = "zipping" =>
        /\ job'.rest \subseteq job'.listed
        /\ \A g \in job'.zip : g \in settled' /\ disk'[place'[g]] = g /\ place'[g] \in job'.listed
  BY <1>1, <1>2, <1>5 DEF Counted
<1> QED BY <1>1, <1>3, <1>4, <1>6 DEF Counted

LEMMA CloseCounts ==
  ASSUME TypeOK, Conserved, Counted, close_zip, UNCHANGED place
  PROVE  Counted'
<1>1. /\ job \in Run /\ UNCHANGED <<settled, disk, interruptions>> /\ job.at = "zipping"
      /\ job # NoJob /\ zips' = Append(zips, job.zip)
  BY DEF close_zip, TypeOK, JobOK, NoJob
<1>2. job'.at = "removing" /\ job'.rest = job.listed
  BY <1>1 DEF close_zip, Closed, Run
<1>3. ASSUME NEW f \in Files
      PROVE  /\ Count(f)' <= 1 + interruptions
             /\ ~ToBeRemoved(f)' /\ ~Gone(f)' => Count(f)' <= interruptions
  <2>1. Count(f) \in Nat /\ interruptions \in Nat /\ (Gone(f)' <=> Gone(f)) /\ ~ToBeRemoved(f)
    BY <1>1, CountType DEF Gone, ToBeRemoved, TypeOK
  <2>2. CASE f \in job.zip
    <3>1. place[f] \in job.listed /\ ~Gone(f) /\ Count(f)' = Count(f) + 1
      BY <1>1, <2>2, CountAfterClosing DEF Counted, Gone
    <3>2. Count(f) <= interruptions /\ ToBeRemoved(f)'
      BY <1>2, <2>1, <3>1 DEF Counted, ToBeRemoved
    <3> QED BY <2>1, <3>1, <3>2
  <2>3. CASE f \notin job.zip
    <3>1. Count(f)' = Count(f)
      BY <1>1, <2>3, CountAfterClosing
    <3> QED BY <2>1, <3>1 DEF Counted
  <2> QED BY <2>2, <2>3
<1> QED BY <1>1, <1>2, <1>3 DEF Counted

\* The files that an error leaves in an archive and in their places are paid for by it.
LEMMA FailureCounts ==
  ASSUME TypeOK, Counted, write_failed, UNCHANGED place
  PROVE  Counted'
<1>1. /\ UNCHANGED <<settled, disk>> /\ interruptions' = interruptions + 1
      /\ job.at = "zipping" /\ job'.at = "rest"
      /\ job # NoJob /\ zips' = Append(zips, job.zip)
  BY DEF write_failed, Interrupted, NoJob
<1>2. ASSUME NEW f \in Files
      PROVE  /\ Count(f)' <= 1 + interruptions'
             /\ ~Gone(f)' => Count(f)' <= interruptions'
  <2>1. Count(f) \in Nat /\ interruptions \in Nat /\ (Gone(f)' <=> Gone(f)) /\ ~ToBeRemoved(f)
    BY <1>1, CountType DEF Gone, ToBeRemoved, TypeOK
  <2>2. f \in job.zip => ~Gone(f)
    BY <1>1 DEF Counted, Gone
  <2>3. Count(f)' = Count(f) \/ (f \in job.zip /\ Count(f)' = Count(f) + 1)
    BY <1>1, CountAfterClosing
  <2>4. Count(f) <= 1 + interruptions /\ (~Gone(f) => Count(f) <= interruptions)
    BY <2>1 DEF Counted
  <2> QED BY <1>1, <2>1, <2>2, <2>3, <2>4
<1> QED BY <1>1, <1>2 DEF Counted

LEMMA ZipCounts ==
  ASSUME TypeOK, Conserved, Counted, NEW p \in Places, zip_file(p), UNCHANGED place
  PROVE  Counted'
<1>1. job \in Run /\ UNCHANGED <<settled, disk, zips, interruptions>> /\ job.at = "zipping"
      /\ p \in job.rest
  BY DEF zip_file, TypeOK, JobOK, NoJob
<1>2. /\ job'.at = "zipping" /\ job'.listed = job.listed
      /\ job'.rest = job.rest \ {p} /\ job'.zip = job.zip \cup Contents(p)
  BY <1>1 DEF zip_file, Run
<1>3. \A f \in Contents(p) : f \in settled /\ disk[place[f]] = f /\ place[f] \in job.listed
  BY <1>1 DEF Contents, Conserved, Counted
<1>4. \A f \in Files :
        Count(f)' = Count(f) /\ ~ToBeRemoved(f) /\ ~ToBeRemoved(f)' /\ (Gone(f)' <=> Gone(f))
  BY <1>1, <1>2, CountSame DEF ToBeRemoved, Gone
<1> QED BY <1>1, <1>2, <1>3, <1>4 DEF Counted

LEMMA RemovalCounts ==
  ASSUME TypeOK, DistinctPlaces, Conserved, Counted, NEW p \in Places, remove_file(p),
         UNCHANGED place
  PROVE  Counted'
<1>1. job \in Run /\ UNCHANGED <<settled, zips, interruptions>> /\ job.at = "removing"
      /\ p \in job.rest
  BY DEF remove_file, TypeOK, JobOK, NoJob
<1>2. /\ job'.at # "zipping"
      /\ \A q \in Places : q \in job.rest /\ q # p => job'.at = "removing" /\ q \in job'.rest
  BY <1>1 DEF remove_file, AfterRemovalOf, Run, NoJob
<1>3. /\ disk[p] \in settled /\ place[disk[p]] = p /\ disk[p] \in Files
      /\ disk'[p] = Nothing /\ \A q \in Places : q # p => disk'[q] = disk[q]
  BY <1>1 DEF Conserved, remove_file, TypeOK
<1>4. ASSUME NEW f \in Files
      PROVE  Count(f)' = Count(f) /\ (~ToBeRemoved(f)' /\ ~Gone(f)' => ~ToBeRemoved(f) /\ ~Gone(f))
  <2>1. Count(f)' = Count(f) /\ place[f] \in Places /\ f # Nothing
    BY <1>1, CountSame, ManifestsAssumption, NothingAssumption DEF TypeOK
  <2>2. CASE place[f] # p
    BY <1>1, <1>2, <1>3, <2>1, <2>2 DEF ToBeRemoved, Gone
  <2>3. CASE place[f] = p
    <3>1. f = disk[p]
      BY <1>3, <2>3 DEF DistinctPlaces
    <3> QED BY <1>1, <1>3, <2>1, <2>3, <3>1 DEF Gone
  <2> QED BY <2>1, <2>2, <2>3
<1> QED BY <1>1, <1>2, <1>4 DEF Counted

LEMMA NextCounts ==
  ASSUME TypeOK, CountingInv, [Next]_vars
  PROVE  CountingInv'
<1>1. place' = place
  BY DEF Next, vars
<1>2. SUFFICES ASSUME DistinctPlaces PROVE Conserved' /\ Counted'
  BY <1>1 DEF CountingInv, DistinctPlaces
<1>3. Conserved /\ Counted /\ interruptions \in Nat
  BY <1>2 DEF CountingInv, TypeOK
<1>4. Conserved'
  <2>1. ArchivingInv'
    BY <1>3, NextConserves DEF ArchivingInv
  <2>2. DistinctPlaces'
    BY <1>1, <1>2 DEF DistinctPlaces
  <2> QED BY <2>1, <2>2 DEF ArchivingInv
<1> SUFFICES Counted'
  BY <1>4
<1>5. \A f \in Files : Count(f) \in Nat
  BY CountType
<1>6. ASSUME UNCHANGED <<settled, disk, zips, interruptions, job>>
      PROVE  Counted'
  BY <1>1, <1>3, <1>6, CountSame DEF Counted, ToBeRemoved, Gone
<1>7. CASE handle_file_archiving
  <2>1. /\ job'.at = "zipping" /\ job'.rest = job'.listed /\ job'.zip = {} /\ job.at = "rest"
        /\ UNCHANGED <<settled, disk, zips, interruptions>>
    BY <1>7 DEF handle_file_archiving, NoJob
  <2>2. \A f \in Files :
          Count(f)' = Count(f) /\ ~ToBeRemoved(f) /\ ~ToBeRemoved(f)' /\ (Gone(f)' <=> Gone(f))
    BY <1>1, <2>1, CountSame DEF ToBeRemoved, Gone
  <2> QED BY <1>3, <2>1, <2>2 DEF Counted
<1>8. CASE interrupted
  <2>1. /\ job'.at = "rest" /\ interruptions' = interruptions + 1 /\ UNCHANGED <<settled, disk, zips>>
    BY <1>8 DEF interrupted, Interrupted, NoJob
  <2>2. \A f \in Files : Count(f)' = Count(f)
    BY <2>1, CountSame
  <2> QED BY <1>3, <1>5, <2>1, <2>2 DEF Counted
<1>9. ASSUME NEW f \in Files, grow_old(f) PROVE Counted'
  BY <1>6, <1>9 DEF grow_old
<1>10. CASE UNCHANGED vars
  BY <1>6, <1>10 DEF vars
<1> QED BY <1>1, <1>2, <1>3, <1>4, <1>7, <1>8, <1>9, <1>10, MoveCounts, CloseCounts, ZipCounts,
           RemovalCounts, FailureCounts DEF Next, Archiver

\* A file is in at most one more archive than there were interruptions: a run archives
\* it again only if an earlier one ended before it deleted the file, be it by a crash
\* that leaves a finished zip, or by an error that closes one.
THEOREM FilesAreZippedOnce == Spec => []ZippedOnceButForMishaps
<1>1. ASSUME Init PROVE CountingInv
  <2>1. \A f \in Files : ArchivesOf(f) = {}
    BY <1>1 DEF Init, ArchivesOf
  <2>2. \A f \in Files : Count(f) = 0
    BY <2>1, FS_EmptySet DEF Count
  <2> QED BY <1>1, <2>2 DEF Init, CountingInv, Conserved, Counted, NoJob
<1>2. CountingInv => ZippedOnceButForMishaps
  BY DEF CountingInv, Counted, Count, ArchivesOf, ZippedOnceButForMishaps
<1> QED BY <1>1, <1>2, NextCounts, TypeCorrect, PTL DEF Spec
===============================================================================

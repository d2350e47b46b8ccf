----------------------------- MODULE ColdStorage ------------------------------
(***************************************************************************)
(* The nightly job handle_file_archiving, which zips the files that have   *)
(* lain for 30 days in the directories of the outcomes and deletes them,   *)
(* while the pipeline and the runners go on moving files there.            *)
(*                                                                         *)
(* The job is cut at its effects on the disk: it looks for old files,      *)
(* writes them one by one into a new zip, closes the zip, and deletes the  *)
(* files one by one.  A zip that is not closed is no archive; an exception *)
(* while files are written closes it, a crash does not.                    *)
(***************************************************************************)
EXTENDS Naturals, Sequences

CONSTANTS
  Files,             \* the files that come to an end
  Nothing,           \* not a file
  Names,             \* file names
  Manifests,         \* where the files may end, and under which name
  MaxInterruptions   \* bound on the errors and crashes

ASSUME NothingAssumption == Nothing \notin Files

\* The directories of completed_clean, completed_quarantine and the others, of which
\* schema_failure/ and system_failure/ are for people and never archived.
Directories == {"archive", "quarantine", "bad_files", "duplicate_files", "rejected"}

Places == Directories \X Names

ASSUME ManifestsAssumption == Manifests \subseteq [Files -> Places]

VARIABLES
  place,         \* where each file ends, fixed
  settled,       \* the files that were moved there
  disk,          \* the file in each place
  old,           \* the files last modified more than days_old days ago; moves keep the time
  zips,          \* the archives in cold_storage/: the files that each has whole
  job,           \* the run of handle_file_archiving
  interruptions

vars == <<place, settled, disk, old, zips, job, interruptions>>

NoJob == [at |-> "rest"]

Init ==
  /\ place \in Manifests
  /\ settled = {}
  /\ disk = [p \in Places |-> Nothing]
  /\ old = {}
  /\ zips = << >>
  /\ job = NoJob
  /\ interruptions = 0

\* A handler moves a file to its end; a file that has the name there is gone.
move(f) ==
  /\ f \notin settled
  /\ settled' = settled \cup {f}
  /\ disk' = [disk EXCEPT ![place[f]] = f]
  /\ UNCHANGED <<old, zips, job, interruptions>>

\* Thirty days pass: a file may be that old when it arrives.
grow_old(f) ==
  /\ f \notin old
  /\ old' = old \cup {f}
  /\ UNCHANGED <<settled, disk, zips, job, interruptions>>

-------------------------------------------------------------------------------
\* Slip: one of target_directories is forgotten.
files_to_archive_but_rejected ==
  {p \in Places : p[1] # "rejected" /\ disk[p] \in old}

files_to_archive == {p \in Places : disk[p] \in old}

handle_file_archiving ==
  /\ job = NoJob
  /\ files_to_archive # {}
  /\ job' = [at |-> "zipping", listed |-> files_to_archive, rest |-> files_to_archive, zip |-> {}]
  /\ UNCHANGED <<settled, disk, old, zips, interruptions>>

Contents(p) == IF disk[p] = Nothing THEN {} ELSE {disk[p]}

\* Names may be equal in a zip, which then holds both files.
zip_file(p) ==
  /\ job.at = "zipping"
  /\ p \in job.rest
  /\ job' = [job EXCEPT !.rest = @ \ {p}, !.zip = @ \cup Contents(p)]
  /\ UNCHANGED <<settled, disk, old, zips, interruptions>>

\* Slip: the second loop goes on where the first one ended.
Closed_at_the_end == [job EXCEPT !.at = "removing"]

Closed == [job EXCEPT !.at = "removing", !.rest = job.listed]

close_zip ==
  /\ job.at = "zipping"
  /\ job.rest = {}
  /\ zips' = Append(zips, job.zip)
  /\ job' = Closed
  /\ UNCHANGED <<settled, disk, old, interruptions>>

\* Slip: the loop returns after the first file.
AfterRemovalOf_first(p) == NoJob

AfterRemovalOf(p) == IF job.rest = {p} THEN NoJob ELSE [job EXCEPT !.rest = @ \ {p}]

remove_file(p) ==
  /\ job.at = "removing"
  /\ p \in job.rest
  /\ disk' = [disk EXCEPT ![p] = Nothing]
  /\ job' = AfterRemovalOf(p)
  /\ UNCHANGED <<settled, old, zips, interruptions>>

\* An OSError leaves the job by way of the wrapper, which does not run it again, and a
\* crash ends it; what is written and deleted by then stays so until the next night.
Interrupted ==
  /\ job # NoJob
  /\ interruptions < MaxInterruptions
  /\ interruptions' = interruptions + 1
  /\ job' = NoJob
  /\ UNCHANGED <<settled, disk, old>>

\* Slip: the error is caught at the with block, and the second loop deletes what is listed.
write_failed_and_went_on ==
  /\ job.at = "zipping"
  /\ job.rest # {}
  /\ zips' = Append(zips, job.zip)
  /\ job' = Closed
  /\ UNCHANGED <<settled, disk, old, interruptions>>

\* A listed file cannot be written: the with block closes the zip on the way out, which
\* is then an archive of the files before it, and nothing is deleted.
write_failed ==
  /\ Interrupted
  /\ job.at = "zipping"
  /\ job.rest # {}
  /\ zips' = Append(zips, job.zip)

\* A crash at any time, before or after the zip is closed; or an OSError in opening or
\* closing it, or in deleting.
interrupted == Interrupted /\ UNCHANGED zips

Archiver ==
  \/ handle_file_archiving \/ close_zip
  \/ \E p \in Places : zip_file(p) \/ remove_file(p)

Next ==
  /\ Archiver \/ write_failed \/ interrupted \/ \E f \in Files : move(f) \/ grow_old(f)
  /\ UNCHANGED place

Spec == Init /\ [][Next]_vars

\* The job is started every night, and its loops wait for nothing.
FairSpec == Spec /\ WF_vars(Archiver /\ UNCHANGED place)
===============================================================================

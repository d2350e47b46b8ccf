------------------------ MODULE ColdStorageProperties -------------------------
(***************************************************************************)
(* What archiving must and must not do.                                    *)
(***************************************************************************)
EXTENDS ColdStorage, FiniteSets

Run ==
  [at : {"zipping", "removing"}, listed : SUBSET Places, rest : SUBSET Places,
   zip : SUBSET Files]

JobOK ==
  job # NoJob =>
    /\ job \in Run
    /\ job.listed # {}
    /\ job.at = "removing" => job.rest # {}

\* The variables have their types, and a run that deletes has something left to delete.
TypeOK ==
  /\ place \in Manifests
  /\ settled \subseteq Files
  /\ disk \in [Places -> Files \cup {Nothing}]
  /\ old \subseteq Files
  /\ zips \in Seq(SUBSET Files)
  /\ JobOK
  /\ interruptions \in Nat

\* No two files end in one directory under one name.
DistinctPlaces == \A f, g \in Files : place[f] = place[g] => f = g

Archived(f) == \E k \in DOMAIN zips : f \in zips[k]

\* A file is in its place until it is whole in an archive that was closed, whatever the
\* job had written and deleted when it was interrupted.
NothingIsLost ==
  DistinctPlaces => \A f \in settled : disk[place[f]] = f \/ Archived(f)

\* A file is in a second archive only if the job was interrupted before it deleted it,
\* be it that the zip was finished, or closed around the files written before an error.
ZippedOnceButForMishaps ==
  DistinctPlaces =>
    \A f \in Files : Cardinality({k \in DOMAIN zips : f \in zips[k]}) <= 1 + interruptions

\* Unless something interrupts the job, every old file is archived and deleted.
OldFilesGoCold ==
  DistinctPlaces =>
    \A f \in Files :
      f \in settled \cap old ~> (Archived(f) /\ disk[place[f]] # f) \/ interruptions > 0

-------------------------------------------------------------------------------
\* file_storage_manager.py:50, "Compresses a list of files into a zip archive and
\* deletes the originals": what archive_files deletes is in an archive.
DeletedIsArchived ==
  [][\A p \in Places : disk[p] # Nothing /\ disk'[p] = Nothing => Archived(disk[p])]_vars
===============================================================================

--------------------------- MODULE PipelineInvariant ---------------------------
(***************************************************************************)
(* Why the properties of the pipeline hold: an inductive invariant that    *)
(* ties the queues of the bus, the row of the file of the run, and the     *)
(* tables to one another.  A run is first an audit, one message at a time; *)
(* from audit_csv_chunks on it has one type, and its queue holds commands  *)
(* to validate batches before commands to save them.                       *)
(***************************************************************************)
EXTENDS PipelineProperties

AuditStatuses == {"AUDITING", "RETRYING"}
BatchStatuses == {"VALIDATING", "PERSISTING"}
Unclaimed(f)  == db[f].status \in {"ABSENT", "PENDING"}

(***************************************************************************)
(* The bus: an event is alone.  Every handler replies with at most one,    *)
(* and is not started while another waits.                                 *)
(***************************************************************************)
EventAlone ==
  /\ events = << >> \/ (cur = NoMsg /\ events = << Head(events) >>)
  /\ cur = NoMsg => step = 1

\* The message being handled, or the event that comes next.
AtHand == IF cur # NoMsg THEN cur ELSE IF events # << >> THEN Head(events) ELSE NoMsg

AllSaves == \A i \in DOMAIN commands : commands[i].msg = "SaveValidatedDataCommand"

-------------------------------------------------------------------------------
\* No row of the quarantine table is f's.
OwnsNothing(f) == \A h \in Rows : quarantine[h] # f

\* The row h of f is in the quarantine table, and no run to come takes it out: it is
\* f's own, or that of another file whose run is over.
Kept(f, h) ==
  \/ quarantine[h] = f
  \/ /\ quarantine[h] \in Files
     /\ ~Unclaimed(quarantine[h])
     /\ quarantine[h] = file => Idle

\* Rows that were turned away are kept, and counted.
RejectsKept(f, hashes) == \A h \in hashes : Kept(f, h) /\ db[f].quarantined_rows > 0

WithinThreshold(f) == ~OverThreshold(db[f].quarantined_rows, db[f].total_rows)

\* A batch that validate_data has let through.
BatchChecked(f, t, k) ==
  WithinThreshold(f) /\ RejectsKept(f, content[f].readings[t].batches[k].hashes)

\* Where file_completed_handler puts the file.
Destination(f) == IF db[f].quarantined_rows = 0 THEN "archive" ELSE "quarantine"

-------------------------------------------------------------------------------
(***************************************************************************)
(* A handler of a failure: nothing is stored, and what its first steps did *)
(* is still so at its later ones.                                          *)
(***************************************************************************)
FailureFits ==
  AtHand.msg \in DOMAIN FailureDirectory =>
    /\ entities[file] = {}
    /\ step > 1 => disk[file] = FailureDirectory[AtHand.msg]
    /\ step > 2 => OwnsNothing(file)

\* The audit, under one of the types of the file's header.
AuditFits(m) ==
  /\ m.assumed_type \in content[file].types
  /\ m.potential_types \subseteq content[file].types

\* audit_csv counts once, unless the database made it run again.
AuditCounts ==
  LET r == ReadAs(AtHand.assumed_type)
  IN  /\ step > 1 => PassesAudit(r)
      /\ step > 2 => RejectsKept(file, r.hashes)
      /\ mishaps.outages > 0 \/ step > 2 \/ db[file].quarantined_rows = 0
      /\ PassesAudit(r) \/ db[file].quarantined_rows = 0
      /\ \/ db[file].status \in AuditStatuses
         \/ db[file].status = "FAILURE_SCHEMA" /\ mishaps.outages > 0 /\ PassesAudit(r)

AuditRun ==
  /\ entities[file] = {}
  /\ db[file].expected_batches = {} /\ db[file].completed_batches = {}
  /\ \/ /\ AtHand = NoMsg
        /\ commands = << Head(commands) >>
        /\ Head(commands).msg = "AuditCSVCommand" /\ AuditFits(Head(commands))
        /\ db[file].status \in AuditStatuses
        /\ db[file].quarantined_rows = 0
        /\ disk[file] = "processing"
     \/ /\ commands = << >>
        /\ AtHand.msg = "AuditCSVCommand" /\ AuditFits(AtHand) /\ AuditCounts
        /\ disk[file] = "processing"
     \/ /\ commands = << >>
        /\ AtHand.msg = "PandasAuditFailed" /\ AuditFits(AtHand)
        /\ db[file].status \in AuditStatuses
        /\ db[file].quarantined_rows = 0
        /\ disk[file] = "processing"
     \/ /\ commands = << >>
        /\ AtHand.msg = "SchemaDriftDetected"
        /\ db[file].status \in AuditStatuses \cup {"FINISHING"}
     \/ /\ commands = << >>
        /\ AtHand.msg = "SystemFaultEvent"

-------------------------------------------------------------------------------
(***************************************************************************)
(* The batches, all of one type.                                           *)
(***************************************************************************)
QueueFits(t) ==
  /\ \A i \in DOMAIN commands :
       /\ commands[i].msg \in {"ValidateDataCommand", "SaveValidatedDataCommand"}
       /\ commands[i].assumed_type = t
  /\ \A i, j \in DOMAIN commands :
       i < j /\ commands[i].msg = "SaveValidatedDataCommand" =>
         commands[j].msg = "SaveValidatedDataCommand"

StoredFits(t) ==
  /\ db[file].status \in BatchStatuses \cup (WrongStatuses \ {"SYSTEM_FAULT"})
  /\ db[file].expected_batches = DOMAIN ReadAs(t).batches
  /\ entities[file] \subseteq {t} \X DOMAIN ReadAs(t).batches
  /\ \A k \in db[file].completed_batches : <<t, k>> \in entities[file]
  /\ entities[file] # {} => t \notin Misregistered /\ AllSaves

\* Until the file fails, what was turned away is kept.
ChecksFit(t) ==
  t \notin Misregistered /\ db[file].status \in BatchStatuses =>
    /\ RejectsKept(file, ReadAs(t).hashes)
    /\ \A i \in DOMAIN commands : commands[i].msg = "SaveValidatedDataCommand" =>
         BatchChecked(file, t, commands[i].batch_number)
    /\ AtHand.msg = "SaveValidatedDataCommand" => BatchChecked(file, t, AtHand.batch_number)
    /\ \A k \in DOMAIN ReadAs(t).batches :
         <<t, k>> \in entities[file] => BatchChecked(file, t, k)

HandFits(t) ==
  \/ AtHand.msg \in {"NoMsg", "BatchValidated", "SystemFaultEvent"}
  \/ /\ AtHand.msg = "ValidateDataCommand"
     /\ AtHand.assumed_type = t
     /\ entities[file] = {}
     /\ step > 1 => db[file].status = "VALIDATING"
  \/ /\ AtHand.msg = "SaveValidatedDataCommand"
     /\ AtHand.assumed_type = t
     /\ AllSaves
  \/ /\ AtHand.msg = "BatchProcessed"
     /\ <<t, AtHand.batch_number>> \in entities[file]
     /\ db[file].status = "PERSISTING"
  \/ /\ AtHand.msg \in {"PydanticAuditFailed", "SchemaDriftDetected"}
     /\ db[file].status = "FINISHING"
     /\ entities[file] = {}
  \/ /\ AtHand.msg = "FileProcessingAborted"
     /\ db[file].status \in BatchStatuses
     /\ t \in Misregistered
  \/ /\ AtHand.msg = "FileSuccessfullyProcessed"
     /\ db[file].status = "PERSISTING"
     /\ entities[file] = {t} \X DOMAIN ReadAs(t).batches
     /\ entities[file] # {}
     /\ step # 3
     /\ step = 2 => disk[file] = Destination(file)

BatchRun(t) == QueueFits(t) /\ StoredFits(t) /\ ChecksFit(t) /\ HandFits(t)

\* The run that goes on, if one does.
RunFits ==
  ~Idle => /\ ~Unclaimed(file)
           /\ FailureFits
           /\ AuditRun \/ \E t \in content[file].types : BatchRun(t)

-------------------------------------------------------------------------------
(***************************************************************************)
(* Every file, by its status.                                              *)
(***************************************************************************)
Untouched(f) ==
  /\ entities[f] = {}
  /\ db[f].expected_batches = {} /\ db[f].completed_batches = {}
  /\ db[f].quarantined_rows = 0
  /\ OwnsNothing(f)

NothingLeft(f) ==
  /\ entities[f] = {}
  /\ OwnsNothing(f)
  /\ db[f].quarantined_rows = 0 /\ db[f].total_processed_rows = 0

StoredWhole(f, t) ==
  /\ StoredAs(f, t)
  /\ RejectsKept(f, content[f].readings[t].hashes)
  /\ \A k \in DOMAIN content[f].readings[t].batches : BatchChecked(f, t, k)
  /\ WithinThreshold(f)

FileFits(f) ==
  /\ db[f].status # "SYSTEM_FAULT"
  /\ Unclaimed(f) => Untouched(f)
  /\ db[f].status = "PENDING" => disk[f] = "processing"
  /\ db[f].status = "REJECTED" => NothingLeft(f) /\ disk[f] = "rejected"
  /\ db[f].status = "FAILURE_SCHEMA" =>
       \/ NothingLeft(f) /\ disk[f] = "schema_failure"
       \/ /\ entities[f] = {} /\ mishaps.outages > 0
          /\ disk[f] \in {"processing", "system_failure"}
  /\ Processed(f) =>
       /\ disk[f] = Destination(f)
       /\ db[f].status = "PROCESSED_CLEAN" <=> db[f].quarantined_rows = 0
       /\ \E t \in content[f].types : StoredWhole(f, t)

FilesFit == \A f \in Files : FileFits(f)

RunInvariant == EventAlone /\ RunFits /\ FilesFit
-------------------------------------------------------------------------------
(***************************************************************************)
(* The counts of a row, against the content of the file.  A retry of       *)
(* audit_csv counts its rows again, so that the counts are exact only as   *)
(* long as the database has refused nothing.                               *)
(***************************************************************************)
Valid(r)   == [k \in DOMAIN r.batches |-> r.batches[k].valid]
Invalid(r) == [k \in DOMAIN r.batches |-> r.batches[k].invalid]

Exactly(P) == mishaps.outages = 0 => P

\* At least n rows of f are counted as turned away, and no more unless a retry did.
TurnedAway(f, n) == db[f].quarantined_rows >= n /\ Exactly(db[f].quarantined_rows = n)

BatchCommands == {"ValidateDataCommand", "SaveValidatedDataCommand"}

\* The batches of the run that no ValidateDataCommand waits for, and those that are stored.
Passed(t) ==
  {k \in DOMAIN ReadAs(t).batches :
     /\ \A i \in DOMAIN commands :
          commands[i].msg = "ValidateDataCommand" => commands[i].batch_number # k
     /\ cur.msg = "ValidateDataCommand" => cur.batch_number # k}

BatchCommandFits(c, t) ==
  /\ c.msg \in BatchCommands /\ c.assumed_type = t
  /\ c.msg = "SaveValidatedDataCommand" => ReadAs(t).batches[c.batch_number].valid > 0

StoredBatches(t) == {k \in DOMAIN ReadAs(t).batches : <<t, k>> \in entities[file]}

\* Every batch is asked for once.
AskedOnce ==
  /\ \A i, j \in DOMAIN commands : commands[i].batch_number = commands[j].batch_number => i = j
  /\ cur.msg \in BatchCommands =>
       \A i \in DOMAIN commands : commands[i].batch_number # cur.batch_number

InAudit ==
  \/ AtHand.msg \in {"AuditCSVCommand", "PandasAuditFailed"}
  \/ \E i \in DOMAIN commands : commands[i].msg = "AuditCSVCommand"

AuditSums ==
  /\ InAudit => db[file].total_processed_rows = db[file].quarantined_rows
  /\ AtHand.msg = "AuditCSVCommand" /\ step = 3 =>
       /\ db[file].total_rows = ReadAs(AtHand.assumed_type).rows
       /\ TurnedAway(file, ReadAs(AtHand.assumed_type).incomplete)

BatchAsks(t) ==
  /\ \A i \in DOMAIN commands : BatchCommandFits(commands[i], t)
  /\ cur.msg \in BatchCommands => BatchCommandFits(cur, t)
  /\ AskedOnce
  /\ entities[file] \subseteq {t} \X DOMAIN ReadAs(t).batches
  /\ Exactly(/\ \A i \in DOMAIN commands : <<t, commands[i].batch_number>> \notin entities[file]
             /\ cur.msg \in BatchCommands => <<t, cur.batch_number>> \notin entities[file])

BatchCounts(t) ==
  /\ db[file].total_rows = ReadAs(t).rows
  /\ TurnedAway(file, ReadAs(t).incomplete + SumFunctionOnSet(Invalid(ReadAs(t)), Passed(t)))
  /\ Exactly(db[file].total_processed_rows =
               db[file].quarantined_rows
                 + SumFunctionOnSet(Valid(ReadAs(t)), StoredBatches(t)))

BatchSums(t) == BatchAsks(t) /\ BatchCounts(t)

InBatches == db[file].status \in BatchStatuses /\ AtHand.msg # "SystemFaultEvent"

RunAddsUp ==
  ~Idle => AuditSums /\ (InBatches => \E t \in content[file].types : BatchSums(t))

FileAddsUp(f) ==
  /\ Unclaimed(f) => db[f].total_processed_rows = 0
  /\ Exactly(db[f].total_processed_rows <= db[f].total_rows)
  /\ Processed(f) =>
       \E t \in content[f].types :
         /\ StoredAs(f, t)
         /\ db[f].total_rows = content[f].readings[t].rows
         /\ TurnedAway(f, RejectCount(f, t))
         /\ Exactly(db[f].total_processed_rows = content[f].readings[t].rows)

\* check_file_validation, which would fill validated_batches, is subscribed to nothing.
NoneMarked == \A f \in Files : db[f].validated_batches = {}

SumsInvariant == NoneMarked /\ RunAddsUp /\ \A f \in Files : FileAddsUp(f)
===============================================================================

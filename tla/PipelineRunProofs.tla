--------------------------- MODULE PipelineRunProofs ---------------------------
(***************************************************************************)
(* Theorems about a run of the pipeline, all from one inductive invariant, *)
(* RunInvariant, for every set of files, of types and of contents, and for *)
(* any number of faults.                                                   *)
(***************************************************************************)
EXTENDS PipelineInvariant, PipelineProofs

(***************************************************************************)
(* What a reply, a step of a handler and the bus do with the messages.     *)
(***************************************************************************)
LEMMA ReplyHand ==
  ASSUME EventAlone, cur # NoMsg, NEW c
  PROVE  /\ AtHand = cur
         /\ Reply(c, << >>) =>
              /\ EventAlone' /\ AtHand' = NoMsg /\ (Idle' <=> commands' = << >>)
              /\ commands' = commands \o c /\ file' = file /\ step' = 1
         /\ \A m : Reply(c, << m >>) =>
              /\ EventAlone' /\ AtHand' = m
              /\ commands' = commands \o c /\ file' = file /\ step' = 1
<1>1. events = << >> /\ AtHand = cur
  BY DEF EventAlone, AtHand
<1>2. ASSUME Reply(c, << >>)
      PROVE  EventAlone' /\ AtHand' = NoMsg /\ (Idle' <=> commands' = << >>)
  BY <1>1, <1>2 DEF Reply, EventAlone, AtHand, Idle
<1>3. ASSUME NEW m, Reply(c, << m >>)
      PROVE  EventAlone' /\ AtHand' = m
  <2>1. events' = << m >> /\ cur' = NoMsg /\ step' = 1
    BY <1>1, <1>3 DEF Reply
  <2>2. Head(<< m >>) = m /\ << m >> # << >>
    OBVIOUS
  <2> QED BY <2>1, <2>2 DEF EventAlone, AtHand
<1> QED BY <1>1, <1>2, <1>3 DEF Reply

LEMMA ContinueHand ==
  ASSUME EventAlone, cur # NoMsg, NEW n, Continue(n)
  PROVE  /\ EventAlone' /\ AtHand = cur /\ AtHand' = cur
         /\ commands' = commands /\ file' = file /\ step' = n /\ ~Idle' /\ cur' = cur
BY DEF Continue, EventAlone, AtHand, Idle

LEMMA AgainHand ==
  ASSUME TypeOK, EventAlone, cur # NoMsg, Again
  PROVE  /\ EventAlone' /\ AtHand = cur
         /\ commands' = commands /\ file' = file /\ step' = 1
         /\ AtHand' = cur \/ AtHand' = Signal("SystemFaultEvent")
<1>1. CASE attempt < max_retries
  BY <1>1 DEF Again, EventAlone, AtHand
<1>2. CASE ~(attempt < max_retries)
  <2>1. Reply(<< >>, << Signal("SystemFaultEvent") >>)
    BY <1>2 DEF Again
  <2>2. commands \o << >> = commands
    BY DEF TypeOK, ThreadOK
  <2> QED BY <2>1, <2>2, SignalEvents, ReplyHand
<1> QED BY <1>1, <1>2

LEMMA IdleHand ==
  ASSUME TypeOK, EventAlone
  PROVE  /\ Idle <=> AtHand = NoMsg /\ commands = << >>
         /\ AtHand \in Message
         /\ AtHand.msg = "NoMsg" <=> AtHand = NoMsg
<1>1. events # << >> => Head(events) \in Event
  BY DEF TypeOK, ThreadOK
<1>2. \A m \in Event : m # NoMsg /\ m.msg # "NoMsg"
  BY DEF Event, NoMsg
<1>3. \A m \in Message : m.msg = "NoMsg" => m = NoMsg
  BY DEF Message, Command, Event
<1>4. AtHand \in Message
  BY <1>1 DEF AtHand, Message, TypeOK, ThreadOK
<1> QED BY <1>1, <1>2, <1>3, <1>4, MessageIsSomething DEF AtHand, Idle

LEMMA BatchOfHand ==
  ASSUME TypeOK
  PROVE  CommandFits(AtHand)
<1>1. events # << >> => Head(events) \in Event
  BY DEF TypeOK, ThreadOK
<1> QED BY <1>1, EventIsNoBatchCommand DEF AtHand, TypeOK, ThreadOK

(***************************************************************************)
(* What reading a file gives.                                              *)
(***************************************************************************)
LEMMA HashesAreRows ==
  ASSUME content \in [Files -> Shapes], NEW f \in Files, NEW t \in content[f].types
  PROVE  LET r == content[f].readings[t]
         IN  /\ t \in Types
             /\ r.hashes \subseteq Rows
             /\ \A k \in DOMAIN r.batches :
                  r.batches[k] \in Batch /\ r.batches[k].hashes \subseteq Rows
<1>1. content[f] \in Shape
  BY ShapesAssumption
<1>2. t \in Types
  BY <1>1 DEF Shape
<1>3. content[f].readings[t] \in Reading
  BY <1>1, <1>2 DEF Shape
<1> DEFINE r == content[f].readings[t]
<1>4. r.batches \in Seq(Batch) /\ r.hashes \subseteq Rows
  BY <1>3 DEF Reading
<1> HIDE DEF r
<1>5. ASSUME NEW k \in DOMAIN r.batches
      PROVE  r.batches[k] \in Batch /\ r.batches[k].hashes \subseteq Rows
  <2>1. r.batches[k] \in Batch
    BY <1>4
  <2> QED BY <2>1 DEF Batch
<1> QED BY <1>2, <1>4, <1>5 DEF r

\* Rows that are turned away are hashed, so hashes come with a count.
LEMMA HashesAreCounted ==
  ASSUME content \in [Files -> Shapes], NEW f \in Files, NEW t \in content[f].types
  PROVE  LET r == content[f].readings[t]
         IN  /\ r.incomplete \in Nat /\ (r.hashes # {} => r.incomplete > 0)
             /\ \A k \in DOMAIN r.batches :
                  r.batches[k].invalid \in Nat
                  /\ (r.batches[k].hashes # {} => r.batches[k].invalid > 0)
<1> DEFINE r == content[f].readings[t]
<1>1. /\ t \in Types /\ r.hashes \subseteq Rows
      /\ \A k \in DOMAIN r.batches :
           r.batches[k] \in Batch /\ r.batches[k].hashes \subseteq Rows
  BY HashesAreRows
<1>2. content[f] \in Shapes /\ content[f] \in Shape
  BY ShapesAssumption
<1>3. r \in Reading
  BY <1>1, <1>2 DEF Shape
<1>4. \A H \in SUBSET Rows : Cardinality(H) \in Nat /\ (Cardinality(H) = 0 <=> H = {})
  BY RowsAssumption, FS_Subset, FS_CardinalityType, FS_EmptySet
<1>5. /\ \A b \in {r.batches[k] : k \in DOMAIN r.batches} : Cardinality(b.hashes) <= b.invalid
      /\ Cardinality(r.hashes) <= r.incomplete
  BY <1>1, <1>2, ReadingsAssumption
<1>6. r.incomplete \in Nat /\ (r.hashes # {} => r.incomplete > 0)
  BY <1>1, <1>3, <1>4, <1>5 DEF Reading
<1> HIDE DEF r
<1>7. ASSUME NEW k \in DOMAIN r.batches
      PROVE  r.batches[k].invalid \in Nat /\ (r.batches[k].hashes # {} => r.batches[k].invalid > 0)
  <2>1. r.batches[k].invalid \in Nat /\ r.batches[k].hashes \in SUBSET Rows
    BY <1>1 DEF Batch
  <2>2. Cardinality(r.batches[k].hashes) <= r.batches[k].invalid
    BY <1>5
  <2> QED BY <1>4, <2>1, <2>2
<1> QED BY <1>6, <1>7 DEF r

(***************************************************************************)
(* Files that a step leaves alone.                                         *)
(***************************************************************************)
\* Nothing is taken from f or put under its name.
FileUntouched(f) ==
  /\ db'[f] = db[f] /\ entities'[f] = entities[f] /\ disk'[f] = disk[f]
  /\ \A h \in Rows : Kept(f, h) => Kept(f, h)'
  /\ OwnsNothing(f) => OwnsNothing(f)'
  /\ mishaps.outages > 0 => mishaps'.outages > 0

LEMMA RejectsStayKept ==
  ASSUME NEW f \in Files, FileUntouched(f),
         NEW hashes \in SUBSET Rows, RejectsKept(f, hashes)
  PROVE  RejectsKept(f, hashes)'
BY DEF FileUntouched, RejectsKept

LEMMA StoredWholeStays ==
  ASSUME TypeOK, NEW f \in Files, FileUntouched(f), UNCHANGED content,
         NEW t \in content[f].types, StoredWhole(f, t)
  PROVE  StoredWhole(f, t)'
<1>1. WithinThreshold(f)' /\ StoredAs(f, t)'
  BY DEF FileUntouched, StoredWhole, WithinThreshold, StoredAs
<1>2. /\ content[f].readings[t].hashes \in SUBSET Rows
      /\ \A k \in DOMAIN content[f].readings[t].batches :
           content[f].readings[t].batches[k].hashes \in SUBSET Rows
  BY HashesAreRows DEF TypeOK, TablesOK
<1>3. RejectsKept(f, content[f].readings[t].hashes)'
  BY <1>2, RejectsStayKept DEF StoredWhole
<1>4. ASSUME NEW k \in DOMAIN content[f].readings[t].batches
      PROVE  BatchChecked(f, t, k)'
  BY <1>1, <1>2, RejectsStayKept DEF StoredWhole, BatchChecked
<1> QED BY <1>1, <1>3, <1>4 DEF StoredWhole

LEMMA FileStays ==
  ASSUME TypeOK, NEW f \in Files, FileFits(f), FileUntouched(f), UNCHANGED content
  PROVE  FileFits(f)'
<1> DEFINE Whole == \E t \in content[f].types : StoredWhole(f, t)
<1>1. Whole => Whole'
  BY StoredWholeStays
<1>2. Processed(f) => Whole
  BY DEF FileFits
<1>3. Processed(f)' => Whole'
  BY <1>1, <1>2 DEF FileUntouched, Processed
<1>4. Processed(f)' => \E t \in content'[f].types : StoredWhole(f, t)'
  BY <1>3
<1> HIDE DEF Whole
<1> QED BY <1>4 DEF FileFits, FileUntouched, Unclaimed, Untouched, NothingLeft, Processed,
               Destination

\* A run that goes on, or that a crash ends, writes to its own file only.
OthersUnchanged ==
  /\ \A g \in Files : g # file =>
       db'[g] = db[g] /\ entities'[g] = entities[g] /\ disk'[g] = disk[g]
  /\ \A h \in Rows : \/ quarantine'[h] = quarantine[h]
                     \/ quarantine[h] = NoFile /\ quarantine'[h] = file
                     \/ quarantine[h] = file /\ quarantine'[h] = NoFile
  /\ mishaps.outages > 0 => mishaps'.outages > 0

LEMMA OthersFit ==
  ASSUME TypeOK, RunInvariant, ~Idle, UNCHANGED content, OthersUnchanged,
         file' = file \/ (file' = NoFile /\ Idle')
  PROVE  \A g \in Files : g # file => FileFits(g)'
<1> SUFFICES ASSUME NEW g \in Files, g # file
             PROVE  FileFits(g)'
  OBVIOUS
<1>1. FileFits(g) /\ file \in Files /\ ~Unclaimed(file)
  BY DEF RunInvariant, FilesFit, RunFits, TypeOK, ThreadOK
<1>2. OwnsNothing(g) => OwnsNothing(g)'
  BY FilesAssumption DEF OwnsNothing, OthersUnchanged
<1>3. ASSUME NEW h \in Rows, Kept(g, h)
      PROVE  Kept(g, h)'
  <2>1. quarantine[h] \in Files \ {file}
    BY <1>3 DEF Kept
  <2>2. quarantine'[h] = quarantine[h] /\ quarantine[h] # file'
    BY <2>1, FilesAssumption DEF OthersUnchanged
  <2>3. db'[quarantine[h]] = db[quarantine[h]]
    BY <2>1 DEF OthersUnchanged
  <2> QED BY <1>3, <2>1, <2>2, <2>3 DEF Kept, Unclaimed
<1>4. FileUntouched(g)
  BY <1>2, <1>3 DEF FileUntouched, OthersUnchanged
<1> QED BY <1>1, <1>4, FileStays

\* A step of a run that writes to no table and moves nothing.
LEMMA NothingWritten ==
  ASSUME TypeOK, RunInvariant, ~Idle, UNCHANGED <<content, tables, disk>>,
         mishaps.outages > 0 => mishaps'.outages > 0,
         file' = file \/ (file' = NoFile /\ Idle')
  PROVE  FilesFit'
<1>1. OthersUnchanged
  BY DEF OthersUnchanged, tables
<1>2. PICK f \in Files : f = file
  BY DEF TypeOK, ThreadOK
<1>3. FileFits(f)
  BY DEF RunInvariant, FilesFit
<1>4. \A h \in Rows : Kept(f, h) => Kept(f, h)'
  BY <1>2, FilesAssumption DEF Kept, tables, Unclaimed
<1>5. FileUntouched(f)
  BY <1>4 DEF FileUntouched, OwnsNothing, tables
<1>6. FileFits(f)'
  BY <1>3, <1>5, FileStays
<1> QED BY <1>1, <1>2, <1>6, OthersFit DEF FilesFit

(***************************************************************************)
(* The run, while nothing is written.                                      *)
(***************************************************************************)
LEMMA ChecksStay ==
  ASSUME ~Idle, UNCHANGED <<content, db, quarantine, file>>,
         NEW t, NEW k, NEW hashes
  PROVE  /\ RejectsKept(file, hashes) => RejectsKept(file, hashes)'
         /\ BatchChecked(file, t, k) => BatchChecked(file, t, k)'
<1>1. \A h : Kept(file, h) => Kept(file, h)'
  BY DEF Kept, Unclaimed
<1>2. \A H : RejectsKept(file, H) => RejectsKept(file, H)'
  BY <1>1 DEF RejectsKept
<1> QED BY <1>2 DEF BatchChecked, WithinThreshold

LEMMA BatchRunStays ==
  ASSUME ~Idle, UNCHANGED <<content, tables, file, commands>>,
         NEW t, BatchRun(t), HandFits(t)',
         AtHand' = AtHand \/ AtHand'.msg # "SaveValidatedDataCommand"
  PROVE  BatchRun(t)'
<1>1. QueueFits(t)' /\ StoredFits(t)'
  BY DEF BatchRun, QueueFits, StoredFits, AllSaves, ReadAs, tables
<1>2. ChecksFit(t)'
  <2>1. UNCHANGED <<content, db, quarantine, file, entities>>
    BY DEF tables
  <2>2. /\ \A hashes : RejectsKept(file, hashes) => RejectsKept(file, hashes)'
        /\ \A k : BatchChecked(file, t, k) => BatchChecked(file, t, k)'
    BY <2>1, ChecksStay
  <2> QED BY <2>1, <2>2 DEF BatchRun, ChecksFit, ReadAs
<1> QED BY <1>1, <1>2 DEF BatchRun

\* Which half of a run a message belongs to.
LEMMA RunCases ==
  ASSUME TypeOK, RunInvariant, cur # NoMsg
  PROVE  /\ AtHand = cur /\ ~Idle /\ file \in Files /\ ~Unclaimed(file) /\ FailureFits
         /\ AuditRun \/ \E t \in content[file].types : BatchRun(t)
         /\ AuditRun => commands = << >>
         /\ cur.msg \in {"AuditCSVCommand", "PandasAuditFailed"} => AuditRun
         /\ cur.msg \notin {"AuditCSVCommand", "PandasAuditFailed", "SchemaDriftDetected",
                            "SystemFaultEvent"} => ~AuditRun
<1>1. ~Idle /\ AtHand = cur /\ AtHand.msg = cur.msg
  BY DEF Idle, AtHand
<1>2. cur.msg # "NoMsg"
  BY <1>1, IdleHand DEF RunInvariant
<1>3. AuditRun => commands = << >> /\ cur.msg \in {"AuditCSVCommand", "PandasAuditFailed",
                                         "SchemaDriftDetected", "SystemFaultEvent"}
  BY <1>1 DEF AuditRun
<1>4. \A t : HandFits(t) => cur.msg \notin {"AuditCSVCommand", "PandasAuditFailed"}
  BY <1>1 DEF HandFits
<1> QED BY <1>1, <1>3, <1>4 DEF RunInvariant, RunFits, BatchRun, TypeOK, ThreadOK

\* A handler that ends without a new command, in silence or with a SystemFaultEvent.
LEMMA RunDrops ==
  ASSUME TypeOK, RunInvariant, cur # NoMsg, UNCHANGED <<content, tables, disk>>,
         mishaps.outages > 0 => mishaps'.outages > 0,
         Reply(<< >>, << >>) \/ Reply(<< >>, << Signal("SystemFaultEvent") >>)
  PROVE  RunInvariant'
<1>1. /\ EventAlone' /\ file' = file /\ commands' = commands
      /\ \/ AtHand' = NoMsg /\ (Idle' <=> commands' = << >>)
         \/ AtHand' = Signal("SystemFaultEvent")
  <2>1. commands \o << >> = commands
    BY DEF TypeOK, ThreadOK
  <2> QED BY <2>1, SignalEvents, ReplyHand DEF RunInvariant
<1>2. AtHand'.msg \in {"NoMsg", "SystemFaultEvent"}
  BY <1>1 DEF NoMsg, Signal
<1>3. FilesFit'
  BY <1>1, NothingWritten DEF Idle
<1>4. ASSUME ~Idle'
      PROVE  RunFits'
  <2>1. ~Unclaimed(file)' /\ FailureFits'
    BY <1>1, <1>2, RunCases DEF Unclaimed, FailureFits, FailureDirectory, tables
  <2>2. CASE AuditRun
    <3>1. commands' = << >> /\ AtHand'.msg = "SystemFaultEvent"
      BY <1>1, <1>4, <2>2, RunCases DEF Signal
    <3>2. /\ entities'[file'] = {}
          /\ db'[file'].expected_batches = {} /\ db'[file'].completed_batches = {}
      BY <1>1, <2>2 DEF AuditRun, tables
    <3>3. AuditRun'
      BY <3>1, <3>2 DEF AuditRun
    <3> QED BY <2>1, <3>3 DEF RunFits
  <2>3. ASSUME NEW t \in content[file].types, BatchRun(t)
        PROVE  RunFits'
    <3>1. HandFits(t)'
      BY <1>2 DEF HandFits
    <3>2. BatchRun(t)'
      BY <1>1, <1>2, <2>3, <3>1, BatchRunStays, RunCases
    <3> QED BY <1>1, <2>1, <3>2 DEF RunFits
  <2> QED BY <2>2, <2>3, RunCases
<1>5. RunFits'
  BY <1>4 DEF RunFits
<1> QED BY <1>1, <1>3, <1>5 DEF RunInvariant

\* A handler that the database makes run again.
LEMMA RunAgain ==
  ASSUME TypeOK, RunInvariant, cur # NoMsg, UNCHANGED <<content, tables, disk>>,
         mishaps'.outages > 0, Again
  PROVE  RunInvariant'
<1>1. CASE ~(attempt < max_retries)
  BY <1>1, RunDrops DEF Again
<1>2. CASE attempt < max_retries
  <2>1. /\ EventAlone' /\ AtHand' = AtHand /\ step' = 1 /\ ~Idle'
        /\ UNCHANGED <<file, commands>>
    BY <1>2 DEF RunInvariant, EventAlone, AtHand, Again, Idle
  <2>2. FilesFit'
    BY <2>1, NothingWritten DEF Idle
  <2>3. ~Unclaimed(file)' /\ FailureFits'
    BY <2>1, RunCases DEF Unclaimed, FailureFits, tables
  <2>4. CASE AuditRun
    <3>1. AuditCounts => AuditCounts'
      BY <2>1 DEF AuditCounts, ReadAs, PassesAudit, tables
    <3>2. AuditRun'
      BY <2>1, <2>4, <3>1 DEF AuditRun, AuditFits, tables
    <3> QED BY <2>1, <2>2, <2>3, <3>2 DEF RunFits, RunInvariant
  <2>5. ASSUME NEW t \in content[file].types, BatchRun(t)
        PROVE  RunFits'
    <3>1. HandFits(t)'
      BY <2>1, <2>5 DEF BatchRun, HandFits, AllSaves, Destination, ReadAs, tables
    <3>2. BatchRun(t)'
      BY <2>1, <2>5, <3>1, BatchRunStays, RunCases
    <3> QED BY <2>1, <2>3, <3>2 DEF RunFits
  <2> QED BY <2>1, <2>2, <2>4, <2>5, RunCases DEF RunInvariant
<1> QED BY <1>1, <1>2

(***************************************************************************)
(* The bus takes the next message.                                         *)
(***************************************************************************)
LEMMA EventIsTaken ==
  ASSUME TypeOK, RunInvariant, handle_next_event, UNCHANGED content
  PROVE  RunInvariant'
<1>1. PICK e \in Event : events = << e >>
  <2>1. events = << Head(events) >> /\ Head(events) \in Event
    BY DEF handle_next_event, RunInvariant, EventAlone, TypeOK, ThreadOK
  <2> QED BY <2>1
<1>2. Head(<< e >>) = e /\ Tail(<< e >>) = << >> /\ << e >> # << >> /\ e # NoMsg
  BY DEF Event, NoMsg
<1>3. cur = NoMsg /\ cur' = e /\ events' = << >> /\ UNCHANGED <<file, step, commands>>
  BY <1>1, <1>2 DEF handle_next_event
<1>4. EventAlone' /\ AtHand' = AtHand /\ ~Idle /\ ~Idle'
  BY <1>1, <1>2, <1>3 DEF EventAlone, AtHand, Idle
<1>5. UNCHANGED <<tables, disk, mishaps>>
  BY DEF handle_next_event
<1>6. FilesFit'
  BY <1>3, <1>4, <1>5, NothingWritten
<1>7. ~Unclaimed(file)' /\ FailureFits'
  BY <1>3, <1>4, <1>5 DEF RunInvariant, RunFits, Unclaimed, FailureFits, OwnsNothing, tables
<1>8. CASE AuditRun
  <2>1. AuditCounts => AuditCounts'
    <3>1. \A h : Kept(file, h) => Kept(file, h)'
      BY <1>3, <1>4, <1>5 DEF Kept, Unclaimed, tables
    <3> QED BY <1>3, <1>4, <1>5, <3>1 DEF AuditCounts, ReadAs, PassesAudit, RejectsKept, tables
  <2>2. AuditRun'
    BY <1>3, <1>4, <1>5, <1>8, <2>1 DEF AuditRun, AuditFits, tables
  <2> QED BY <1>4, <1>6, <1>7, <2>2 DEF RunFits, RunInvariant
<1>9. ASSUME NEW t \in content[file].types, BatchRun(t)
      PROVE  RunInvariant'
  <2>1. HandFits(t)'
    BY <1>3, <1>4, <1>5, <1>9 DEF BatchRun, HandFits, AllSaves, Destination, ReadAs, tables
  <2>2. BatchRun(t)'
    BY <1>3, <1>4, <1>5, <1>9, <2>1, BatchRunStays
  <2> QED BY <1>3, <1>4, <1>6, <1>7, <2>2 DEF RunFits, RunInvariant
<1> QED BY <1>4, <1>8, <1>9 DEF RunInvariant, RunFits

LEMMA TailFields ==
  ASSUME NEW S, NEW s \in Seq(S), s # << >>
  PROVE  /\ 1 \in DOMAIN s /\ Head(s) = s[1] /\ Head(s) \in S
         /\ \A i \in DOMAIN Tail(s) :
              i \in Nat /\ i > 0 /\ i + 1 \in DOMAIN s /\ Tail(s)[i] = s[i + 1]
OBVIOUS

LEMMA CommandIsTaken ==
  ASSUME TypeOK, RunInvariant, handle_next_command, UNCHANGED content
  PROVE  RunInvariant'
<1>1. /\ cur = NoMsg /\ events = << >> /\ commands # << >> /\ commands \in Seq(Command)
      /\ cur' = Head(commands) /\ commands' = Tail(commands) /\ events' = << >>
      /\ UNCHANGED <<tables, disk, file, step, mishaps>>
  BY DEF handle_next_command, TypeOK, ThreadOK
<1>2. /\ 1 \in DOMAIN commands /\ Head(commands) = commands[1] /\ Head(commands) \in Command
      /\ \A i \in DOMAIN Tail(commands) :
           /\ i \in Nat /\ i > 0 /\ i + 1 \in DOMAIN commands
           /\ Tail(commands)[i] = commands[i + 1]
  BY <1>1, TailFields
<1>3. PICK c \in Command : c = Head(commands) /\ c # NoMsg
  BY <1>2 DEF Command, NoMsg
<1>4. /\ EventAlone' /\ AtHand = NoMsg /\ AtHand' = c /\ step = 1
      /\ ~Idle /\ ~Idle'
  BY <1>1, <1>3 DEF RunInvariant, EventAlone, AtHand, Idle
<1>5. FilesFit'
  BY <1>1, <1>4, NothingWritten
<1>6. ~Unclaimed(file)' /\ c.msg \notin DOMAIN FailureDirectory
  BY <1>1, <1>3, <1>4 DEF RunInvariant, RunFits, Unclaimed, FailureDirectory, Command, tables
<1>7. FailureFits'
  BY <1>4, <1>6 DEF FailureFits
<1>8. CASE AuditRun
  <2>1. /\ commands = << c >> /\ c.msg = "AuditCSVCommand" /\ AuditFits(c)
        /\ db[file].status \in AuditStatuses /\ db[file].quarantined_rows = 0
        /\ disk[file] = "processing"
    BY <1>1, <1>3, <1>4, <1>8, MessageIsSomething DEF AuditRun
  <2>2. commands' = << >>
    BY <1>1, <2>1
  <2>3. AuditFits(c)' /\ AuditCounts'
    BY <1>1, <1>4, <2>1 DEF AuditFits, AuditCounts, tables
  <2>4. AuditRun'
    BY <1>1, <1>4, <1>8, <2>1, <2>2, <2>3 DEF AuditRun, AuditFits, tables
  <2> QED BY <1>4, <1>5, <1>6, <1>7, <2>4 DEF RunFits, RunInvariant
<1>9. ASSUME NEW t \in content[file].types, BatchRun(t)
      PROVE  RunInvariant'
  <2>1. QueueFits(t)'
    BY <1>1, <1>2, <1>9 DEF BatchRun, QueueFits
  <2>2. AllSaves => c.msg = "SaveValidatedDataCommand" /\ AllSaves'
    BY <1>1, <1>2, <1>3 DEF AllSaves
  <2>3. c.msg = "SaveValidatedDataCommand" => AllSaves'
    BY <1>1, <1>2, <1>3, <1>9 DEF AllSaves, BatchRun, QueueFits
  <2>4. StoredFits(t)'
    BY <1>1, <1>9, <2>2 DEF BatchRun, StoredFits, ReadAs, tables
  <2>5. ChecksFit(t)'
    <3>1. /\ \A hashes : RejectsKept(file, hashes) => RejectsKept(file, hashes)'
          /\ \A k : BatchChecked(file, t, k) => BatchChecked(file, t, k)'
      BY <1>1, <1>4, ChecksStay DEF tables
    <3>2. \A i \in DOMAIN commands' : i + 1 \in DOMAIN commands /\ commands'[i] = commands[i + 1]
      BY <1>1, <1>2
    <3> QED BY <1>1, <1>2, <1>3, <1>4, <1>9, <3>1, <3>2 DEF BatchRun, ChecksFit, ReadAs, tables
  <2>6. HandFits(t)'
    <3>1. c.msg \in {"ValidateDataCommand", "SaveValidatedDataCommand"} /\ c.assumed_type = t
      BY <1>2, <1>3, <1>9 DEF BatchRun, QueueFits
    <3>2. c.msg = "ValidateDataCommand" => entities[file] = {}
      BY <1>9, <2>2 DEF BatchRun, StoredFits
    <3> QED BY <1>1, <1>4, <2>3, <3>1, <3>2 DEF HandFits, tables
  <2>7. BatchRun(t)'
    BY <2>1, <2>4, <2>5, <2>6 DEF BatchRun
  <2> QED BY <1>1, <1>4, <1>5, <1>6, <1>7, <2>7 DEF RunFits, RunInvariant
<1> QED BY <1>4, <1>8, <1>9 DEF RunInvariant, RunFits

(***************************************************************************)
(* Mishaps, and steps outside the run.                                     *)
(***************************************************************************)
LEMMA RunEnds ==
  ASSUME TypeOK, RunInvariant, cur # NoMsg, UNCHANGED <<content, tables, disk>>,
         mishaps.outages > 0 => mishaps'.outages > 0, ReplyAndPurge
  PROVE  RunInvariant'
<1>1. EventAlone' /\ Idle' /\ file' = file
  BY DEF ReplyAndPurge, EventAlone, Idle
<1>2. FilesFit'
  BY <1>1, NothingWritten DEF Idle
<1> QED BY <1>1, <1>2 DEF RunInvariant, RunFits

LEMMA MishapCounts ==
  ASSUME TypeOK, NEW kind \in {"outages", "errors", "crashes"}, NEW bound \in Nat,
         Mishap(kind, bound)
  PROVE  /\ mishaps.outages > 0 => mishaps'.outages > 0
         /\ kind = "outages" => mishaps'.outages > 0
<1> USE BoundsAssumption
<1>1. /\ mishaps \in [outages : 0..MaxOutages, errors : 0..MaxErrors, crashes : 0..MaxCrashes]
      /\ mishaps' = [mishaps EXCEPT ![kind] = @ + 1]
  BY DEF Mishap, TypeOK, TablesOK
<1> QED BY <1>1

LEMMA FaultsKeepRun ==
  ASSUME TypeOK, RunInvariant, UNCHANGED content,
         operational_error \/ unhandled_error \/ crash
  PROVE  RunInvariant'
<1> USE BoundsAssumption
<1>1. CASE operational_error
  <2>1. cur # NoMsg
    BY <1>1 DEF operational_error, InTransaction, FailureDirectory, NoMsg
  <2>2. mishaps'.outages > 0
    BY <1>1, MishapCounts DEF operational_error
  <2> QED BY <1>1, <2>1, <2>2, RunAgain DEF operational_error
<1>2. CASE unhandled_error
  <2>1. cur # NoMsg /\ UNCHANGED <<content, tables, disk>>
    BY <1>2 DEF unhandled_error
  <2>2. mishaps.outages > 0 => mishaps'.outages > 0
    BY <1>2, MishapCounts DEF unhandled_error
  <2>3. \/ Reply(<< >>, << >>) \/ Reply(<< >>, << Signal("SystemFaultEvent") >>)
        \/ ReplyAndPurge
    BY <1>2 DEF unhandled_error
  <2> QED BY <2>1, <2>2, <2>3, RunDrops, RunEnds
<1>3. CASE crash
  <2>1. ~Idle /\ EventAlone' /\ Idle' /\ file' = NoFile /\ UNCHANGED <<tables, disk>>
    BY <1>3 DEF crash, EventAlone, Idle
  <2>2. mishaps.outages > 0 => mishaps'.outages > 0
    BY <1>3, MishapCounts DEF crash
  <2>3. FilesFit'
    BY <2>1, <2>2, NothingWritten
  <2> QED BY <2>1, <2>3 DEF RunInvariant, RunFits
<1> QED BY <1>1, <1>2, <1>3

\* A step outside the run, on a file that has no row yet.
LEMMA StagingKeepsRun ==
  ASSUME TypeOK, RunInvariant, UNCHANGED content,
         NEW f \in Files, file_staged_handler(f) \/ staging_fault(f)
  PROVE  RunInvariant'
<1>1. /\ UNCHANGED <<thread, entities, quarantine>>
      /\ db[f].status = "ABSENT"
      /\ mishaps.outages > 0 => mishaps'.outages > 0
  <2>1. mishaps.outages \in Nat
    BY BoundsAssumption DEF TypeOK, TablesOK
  <2>2. staging_fault(f) => mishaps'.outages = mishaps.outages + 3
    BY DEF staging_fault, TypeOK, TablesOK
  <2> QED BY <2>1, <2>2 DEF file_staged_handler, staging_fault, tables
<1>2. \A g \in Files : g # f => db'[g] = db[g] /\ disk'[g] = disk[g]
  BY DEF file_staged_handler, staging_fault, MovedToSystemFailure, tables, TypeOK, TablesOK
<1>3. /\ db'[f].status \in {"ABSENT", "PENDING"}
      /\ db'[f].expected_batches = db[f].expected_batches
      /\ db'[f].completed_batches = db[f].completed_batches
      /\ db'[f].quarantined_rows = db[f].quarantined_rows
      /\ db'[f].status = "PENDING" => disk'[f] = "processing"
  <2>1. FileFits(f) /\ Unclaimed(f) /\ Untouched(f)
    BY <1>1 DEF RunInvariant, FilesFit, FileFits, Unclaimed
  <2>2. CASE file_staged_handler(f)
    BY <1>1, <2>1, <2>2
       DEF file_staged_handler, NewFile, AbsentFile, Untouched, TypeOK, TablesOK
  <2>3. CASE staging_fault(f)
    BY <1>1, <2>1, <2>3 DEF staging_fault, tables
  <2> QED BY <2>2, <2>3
<1>4. OwnsNothing(f) /\ OwnsNothing(f)'
  BY <1>1 DEF RunInvariant, FilesFit, FileFits, Unclaimed, Untouched, OwnsNothing
<1>5. Idle' <=> Idle
  BY <1>1 DEF Idle, thread
<1>6. \A g \in Files : \A h \in Rows : Kept(g, h) /\ g # f => Kept(g, h)'
  <2> SUFFICES ASSUME NEW g \in Files, NEW h \in Rows, Kept(g, h), g # f
               PROVE  Kept(g, h)'
    OBVIOUS
  <2>1. quarantine'[h] = quarantine[h] /\ quarantine[h] \in Files \ {f}
    BY <1>1, <1>4 DEF Kept, OwnsNothing
  <2>2. db'[quarantine[h]] = db[quarantine[h]]
    BY <1>2, <2>1
  <2> QED BY <1>1, <1>5, <2>1, <2>2 DEF Kept, Unclaimed, thread
<1>7. FilesFit'
  <2>1. ASSUME NEW g \in Files, g # f
        PROVE  FileFits(g)'
    <3>1. FileUntouched(g)
      BY <1>1, <1>2, <1>6, <2>1 DEF FileUntouched, OwnsNothing
    <3> QED BY <3>1, FileStays DEF RunInvariant, FilesFit
  <2>2. FileFits(f)'
    <3>1. Untouched(f)'
      <4>1. Untouched(f)
        BY <1>1 DEF RunInvariant, FilesFit, FileFits, Unclaimed
      <4> QED BY <1>1, <1>3, <1>4, <4>1 DEF Untouched
    <3> QED BY <1>3, <3>1 DEF FileFits, Unclaimed, Processed
  <2> QED BY <2>1, <2>2 DEF FilesFit
<1>8. EventAlone' /\ AtHand' = AtHand
  BY <1>1 DEF RunInvariant, EventAlone, AtHand, thread
<1>9. ASSUME ~Idle'
      PROVE  RunFits'
  <2>1. ~Idle /\ file \in Files /\ file # f /\ file' = file
    BY <1>1, <1>5, <1>9 DEF RunInvariant, RunFits, Unclaimed, TypeOK, ThreadOK, thread
  <2>2. /\ db'[file] = db[file] /\ disk'[file] = disk[file]
        /\ UNCHANGED <<file, cur, step, attempt, commands, events, entities, quarantine>>
    BY <1>1, <1>2, <2>1 DEF thread
  <2>3. ~Unclaimed(file)' /\ FailureFits'
    BY <1>8, <2>1, <2>2 DEF RunInvariant, RunFits, Unclaimed, FailureFits, OwnsNothing
  <2>4. \A hashes \in SUBSET Rows : RejectsKept(file, hashes) => RejectsKept(file, hashes)'
    BY <1>6, <2>1, <2>2 DEF RejectsKept
  <2>5. CASE AuditRun
    <3>1. AtHand.msg = "AuditCSVCommand" /\ AuditCounts /\ AuditFits(AtHand) => AuditCounts'
      <4>1. PICK H : H = ReadAs(AtHand.assumed_type).hashes
        OBVIOUS
      <4>2. AuditFits(AtHand) => H \in SUBSET Rows
        BY <2>1, <4>1, HashesAreRows DEF AuditFits, ReadAs, TypeOK, TablesOK
      <4>3. AuditFits(AtHand) /\ RejectsKept(file, H) => RejectsKept(file, H)'
        BY <2>4, <4>2
      <4>4. ReadAs(AtHand.assumed_type)' = ReadAs(AtHand.assumed_type)
        BY <1>8, <2>2 DEF ReadAs
      <4> QED BY <1>1, <1>8, <2>2, <4>1, <4>3, <4>4 DEF AuditCounts, PassesAudit
    <3>2. AuditRun'
      BY <1>8, <2>2, <2>5, <3>1 DEF AuditRun, AuditFits
    <3> QED BY <2>3, <3>2 DEF RunFits
  <2>6. ASSUME NEW t \in content[file].types, BatchRun(t)
        PROVE  RunFits'
    <3>1. QueueFits(t)' /\ StoredFits(t)' /\ HandFits(t)'
      BY <1>8, <2>2, <2>6
         DEF BatchRun, QueueFits, StoredFits, HandFits, AllSaves, ReadAs, Destination
    <3>2. /\ ReadAs(t).hashes \in SUBSET Rows
          /\ \A k \in DOMAIN ReadAs(t).batches : ReadAs(t).batches[k].hashes \in SUBSET Rows
      BY <2>1, HashesAreRows DEF ReadAs, TypeOK, TablesOK
    <3>3. \A k \in DOMAIN ReadAs(t).batches :
            BatchChecked(file, t, k) => BatchChecked(file, t, k)'
      BY <2>2, <2>4, <3>2 DEF BatchChecked, WithinThreshold, ReadAs
    <3>4. ChecksFit(t)'
      <4>1. /\ AtHand.msg = "SaveValidatedDataCommand" =>
                 AtHand.batch_number \in DOMAIN ReadAs(t).batches
            /\ \A i \in DOMAIN commands : commands[i].msg = "SaveValidatedDataCommand" =>
                 commands[i].batch_number \in DOMAIN ReadAs(t).batches
        BY <2>6, BatchOfHand DEF BatchRun, HandFits, QueueFits, TypeOK, ThreadOK, CommandFits
      <4> QED BY <1>8, <2>2, <2>4, <2>6, <3>2, <3>3, <4>1 DEF BatchRun, ChecksFit, ReadAs
    <3>5. BatchRun(t)'
      BY <3>1, <3>4 DEF BatchRun
    <3> QED BY <2>2, <2>3, <3>5 DEF RunFits
  <2> QED BY <2>1, <2>5, <2>6 DEF RunInvariant, RunFits
<1> QED BY <1>7, <1>8, <1>9 DEF RunInvariant, RunFits

(***************************************************************************)
(* What a transaction of the run writes.                                   *)
(***************************************************************************)
LEMMA CommitWrites ==
  ASSUME TypeOK, cur # NoMsg, NEW row, Commit(row)
  PROVE  db'[file] = row /\ \A g \in Files : g # file => db'[g] = db[g]
BY RunHasRow DEF Commit, TypeOK, TablesOK

\* A busy file needs nothing of the tables.
LEMMA BusyFits ==
  ASSUME TypeOK, RunInvariant, cur # NoMsg, UNCHANGED content, OthersUnchanged,
         file' = file, db'[file].status \in BusyStatuses
  PROVE  FilesFit' /\ ~Unclaimed(file)'
<1>1. ASSUME NEW f \in Files, f = file
      PROVE  FileFits(f)'
  BY <1>1 DEF FileFits, BusyStatuses, Unclaimed, Processed
<1>2. \A g \in Files : g # file => FileFits(g)'
  BY OthersFit DEF Idle
<1> QED BY <1>1, <1>2 DEF FilesFit, Unclaimed, BusyStatuses

\* A transaction that only writes the row.
LEMMA RowIsWritten ==
  ASSUME TypeOK, RunInvariant, cur # NoMsg, NEW row, Commit(row),
         UNCHANGED <<content, entities, quarantine, disk, mishaps>>, file' = file,
         row.status \in BusyStatuses
  PROVE  /\ FilesFit' /\ ~Unclaimed(file)' /\ db'[file] = row
         /\ \A h : Kept(file, h) => Kept(file, h)'
<1>1. db'[file] = row /\ \A g \in Files : g # file => db'[g] = db[g]
  BY CommitWrites
<1>2. OthersUnchanged
  BY <1>1 DEF OthersUnchanged
<1>3. \A h : Kept(file, h) => Kept(file, h)'
  BY <1>1 DEF Kept, Idle, Unclaimed
<1> QED BY <1>1, <1>2, <1>3, BusyFits

LEMMA SetAsideKeeps ==
  ASSUME TypeOK, RunInvariant, cur # NoMsg, file' = file,
         \A g \in Files : g # file => db'[g] = db[g],
         NEW hashes \in SUBSET Rows, SetAside(hashes)
  PROVE  /\ \A h \in hashes : Kept(file, h)'
         /\ \A h \in Rows : Kept(file, h) => Kept(file, h)'
         /\ \A h \in Rows : quarantine'[h] = quarantine[h]
                            \/ (quarantine[h] = NoFile /\ quarantine'[h] = file)
<1>1. file \in Files /\ ~Idle
  BY DEF TypeOK, ThreadOK, Idle
<1>2. \A h \in Rows : quarantine[h] \in Files \cup {NoFile}
  BY DEF TypeOK, TablesOK
<1>3. \A h \in Rows : quarantine[h] \in Files => ~Unclaimed(quarantine[h])
  BY DEF RunInvariant, FilesFit, FileFits, Untouched, OwnsNothing
<1>4. \A h \in Rows : quarantine'[h] = IF h \in hashes /\ quarantine[h] = NoFile
                                       THEN file ELSE quarantine[h]
  BY DEF SetAside
<1>5. ASSUME NEW h \in Rows, quarantine'[h] \in Files
      PROVE  Kept(file, h)'
  <2>1. CASE quarantine'[h] = file
    BY <2>1 DEF Kept
  <2>2. CASE quarantine'[h] # file
    <3>1. quarantine'[h] = quarantine[h] /\ ~Unclaimed(quarantine[h])
      BY <1>3, <1>4, <1>5, <2>2
    <3>2. db'[quarantine[h]] = db[quarantine[h]]
      BY <1>5, <2>2, <3>1
    <3> QED BY <1>5, <2>2, <3>1, <3>2 DEF Kept, Unclaimed
  <2> QED BY <2>1, <2>2
<1> QED BY <1>1, <1>2, <1>4, <1>5 DEF Kept

\* The methods of a row that set its status set nothing else.
OnlyStatus(row, status, new) ==
  /\ new.status = status
  /\ new.total_rows = row.total_rows /\ new.total_processed_rows = row.total_processed_rows
  /\ new.quarantined_rows = row.quarantined_rows
  /\ new.expected_batches = row.expected_batches
  /\ new.completed_batches = row.completed_batches

LEMMA StatusMethods ==
  ASSUME NEW row \in FileRow
  PROVE  /\ OnlyStatus(row, "AUDITING", start_auditing(row))
         /\ OnlyStatus(row, "VALIDATING", validate(row))
         /\ OnlyStatus(row, "RETRYING", retry(row))
         /\ OnlyStatus(row, "PERSISTING", persist(row))
         /\ OnlyStatus(row, "FINISHING", finish(row))
         /\ OnlyStatus(row, "REJECTED", reject(row))
         /\ OnlyStatus(row, "FAILURE_SCHEMA", failure_schema(row))
         /\ OnlyStatus(row, "PROCESSED_W_QUARANTINE", quarantine_processed(row))
         /\ OnlyStatus(row, "PROCESSED_CLEAN", clean_processed(row))
BY DEF FileRow, OnlyStatus, start_auditing, validate, retry, persist, finish, reject,
       failure_schema, quarantine_processed, clean_processed

\* Rows that are counted as turned away, and the file over the threshold.
LEMMA QuarantineMethod ==
  ASSUME NEW row \in FileRow, NEW n \in Nat, n > 0
  PROVE  LET new == add_quarantined_row(row, n)
         IN  /\ new.quarantined_rows = row.quarantined_rows + n
             /\ new.total_rows = row.total_rows
             /\ new.expected_batches = row.expected_batches
             /\ new.completed_batches = row.completed_batches
             /\ new.status = IF OverThreshold(row.quarantined_rows + n, row.total_rows)
                             THEN "FAILURE_SCHEMA" ELSE row.status
<1> DEFINE counted == [row EXCEPT !.quarantined_rows = @ + n, !.total_processed_rows = @ + n]
<1>1. counted \in FileRow
  <2>1. row.quarantined_rows + n \in Nat /\ row.total_processed_rows + n \in Nat
    BY DEF FileRow
  <2> QED BY <2>1 DEF FileRow
<1>2. /\ counted.quarantined_rows = row.quarantined_rows + n
      /\ counted.total_rows = row.total_rows /\ counted.status = row.status
      /\ counted.expected_batches = row.expected_batches
      /\ counted.completed_batches = row.completed_batches
  BY DEF FileRow
<1>3. RowsCounted(n) = n
  BY DEF RowsCounted
<1>4. add_quarantined_row(row, n) = IF OverThreshold(counted.quarantined_rows, counted.total_rows)
                                    THEN failure_schema(counted) ELSE counted
  BY <1>3 DEF add_quarantined_row
<1> HIDE DEF counted
<1> QED BY <1>1, <1>2, <1>4, StatusMethods DEF OnlyStatus

(***************************************************************************)
(* dispatch_pending_files starts a run.                                    *)
(***************************************************************************)
LEMMA DispatchStartsRun ==
  ASSUME TypeOK, RunInvariant, UNCHANGED content,
         NEW f \in Files, dispatch_pending_files(f)
  PROVE  RunInvariant'
<1> DEFINE c == AuditCSV(content[f].assumed_type, content[f].types, {})
<1>1. /\ Idle /\ db[f].status = "PENDING" /\ FileFits(f) /\ Untouched(f)
      /\ disk[f] = "processing"
  BY DEF dispatch_pending_files, oldest_pending, RunInvariant, FilesFit, FileFits, Unclaimed
<1>2. /\ file' = f /\ commands' = << c >>
      /\ UNCHANGED <<entities, quarantine, disk, cur, step, events, mishaps>>
      /\ db' = [db EXCEPT ![f] = start_auditing(@)]
  BY DEF dispatch_pending_files
<1>3. /\ db[f] \in FileRow /\ db'[f] = start_auditing(db[f])
      /\ \A g \in Files : g # f => db'[g] = db[g]
  BY <1>2 DEF TypeOK, TablesOK
<1>4. OnlyStatus(db[f], "AUDITING", db'[f])
  BY <1>3, StatusMethods
<1>5. EventAlone' /\ AtHand' = NoMsg
  BY <1>1, <1>2 DEF Idle, EventAlone, AtHand, RunInvariant
<1>6. AuditFits(c)' /\ c.msg = "AuditCSVCommand"
  <2>1. content[f] \in Shapes /\ content[f] \in Shape
    BY ShapesAssumption DEF TypeOK, TablesOK
  <2>2. content[f].assumed_type \in content[f].types
    BY <2>1, ReadingsAssumption DEF Shape
  <2> QED BY <1>2, <2>2 DEF AuditFits, AuditCSV
<1>7. FilesFit'
  <2>1. ASSUME NEW g \in Files, g # f
        PROVE  FileFits(g)'
    <3>1. ASSUME NEW h \in Rows, Kept(g, h)
          PROVE  Kept(g, h)'
      <4>1. quarantine[h] \in Files \ {f}
        BY <1>1, <2>1, <3>1 DEF Kept, Untouched, OwnsNothing
      <4> QED BY <1>2, <1>3, <3>1, <4>1 DEF Kept, Unclaimed
    <3>2. FileUntouched(g)
      BY <1>2, <1>3, <2>1, <3>1 DEF FileUntouched, OwnsNothing
    <3> QED BY <3>2, FileStays DEF RunInvariant, FilesFit
  <2>2. FileFits(f)'
    BY <1>4 DEF OnlyStatus, FileFits, Unclaimed, Processed
  <2> QED BY <2>1, <2>2 DEF FilesFit
<1>8. AuditRun'
  <2>1. /\ entities'[f] = {} /\ db'[f].expected_batches = {} /\ db'[f].completed_batches = {}
        /\ db'[f].quarantined_rows = 0 /\ db'[f].status \in AuditStatuses
        /\ disk'[f] = "processing"
    BY <1>1, <1>2, <1>4 DEF Untouched, OnlyStatus, AuditStatuses
  <2> HIDE DEF c
  <2>2. commands' = << Head(commands') >> /\ Head(commands') = c
    BY <1>2
  <2>3. AuditFits(Head(commands))' /\ Head(commands').msg = "AuditCSVCommand"
    BY <1>6, <2>2 DEF AuditFits, c
  <2> QED BY <1>2, <1>5, <2>1, <2>2, <2>3 DEF AuditRun
<1>9. ~Unclaimed(file)' /\ FailureFits'
  BY <1>2, <1>4, <1>5 DEF Unclaimed, OnlyStatus, FailureFits, FailureDirectory, NoMsg
<1> QED BY <1>5, <1>7, <1>8, <1>9 DEF RunInvariant, RunFits

(***************************************************************************)
(* The audit.                                                              *)
(***************************************************************************)
\* What the handler of an AuditCSVCommand or of a PandasAuditFailed starts from.
LEMMA AuditStarts ==
  ASSUME TypeOK, RunInvariant, cur # NoMsg, cur.msg \in {"AuditCSVCommand", "PandasAuditFailed"}
  PROVE  /\ EventAlone /\ AtHand = cur /\ ~Idle /\ file \in Files /\ db[file] \in FileRow
         /\ commands = << >> /\ entities[file] = {} /\ disk[file] = "processing"
         /\ db[file].expected_batches = {} /\ db[file].completed_batches = {}
         /\ AuditFits(cur) /\ ~Unclaimed(file)
         /\ cur.msg = "AuditCSVCommand" => AuditCounts
         /\ cur.msg = "PandasAuditFailed" =>
              db[file].status \in AuditStatuses /\ db[file].quarantined_rows = 0
BY RunCases, RunHasRow, MessageIsSomething DEF AuditRun, RunInvariant

\* What it must leave to go on.
LEMMA AuditGoesOn ==
  ASSUME EventAlone', FilesFit', ~Unclaimed(file)', AuditRun',
         AtHand'.msg \in DOMAIN FailureDirectory => step' = 1
  PROVE  RunInvariant'
BY DEF AuditRun, RunInvariant, RunFits, FailureFits

LEMMA AuditFailsRun ==
  ASSUME TypeOK, RunInvariant, UNCHANGED content, audit_csv_fails
  PROVE  RunInvariant'
<1>1. /\ cur # NoMsg /\ cur.msg = "AuditCSVCommand" /\ step = 1
      /\ ~PassesAudit(ReadAs(cur.assumed_type)) /\ UNCHANGED <<tables, disk, locks, mishaps>>
  BY DEF audit_csv_fails, Handling, NoMsg
<1>2. PICK m : /\ Reply(<< >>, << m >>)
               /\ m = Signal("SchemaDriftDetected") \/ m = [cur EXCEPT !.msg = "PandasAuditFailed"]
  BY DEF audit_csv_fails
<1>3. /\ EventAlone' /\ AtHand' = m /\ file' = file /\ step' = 1
      /\ commands' = << >> \o << >>
  BY <1>1, <1>2, AuditStarts, ReplyHand
<1>4. commands' = << >>
  BY <1>3
<1>5. FilesFit'
  BY <1>1, <1>3, AuditStarts, NothingWritten
<1>6. ~Unclaimed(file)'
  BY <1>1, <1>3, AuditStarts DEF Unclaimed, tables
<1>7. AuditRun'
  <2>1. /\ entities'[file'] = {} /\ disk'[file'] = "processing"
        /\ db'[file'].expected_batches = {} /\ db'[file'].completed_batches = {}
        /\ db'[file'].status \in AuditStatuses /\ db'[file'].quarantined_rows = 0
    BY <1>1, <1>3, AuditStarts DEF AuditCounts, tables
  <2>2. CASE m = Signal("SchemaDriftDetected")
    BY <1>3, <1>4, <2>1, <2>2 DEF AuditRun, Signal
  <2>3. CASE m = [cur EXCEPT !.msg = "PandasAuditFailed"]
    <3>1. cur \in Message
      BY DEF TypeOK, ThreadOK
    <3>2. /\ m.msg = "PandasAuditFailed" /\ m.assumed_type = cur.assumed_type
          /\ m.potential_types = cur.potential_types
      BY <1>1, <2>3, <3>1 DEF Message, Command, Event, NoMsg
    <3>3. AuditFits(m)'
      BY <1>1, <1>3, <3>2, AuditStarts DEF AuditFits
    <3> QED BY <1>3, <1>4, <2>1, <3>2, <3>3 DEF AuditRun, AuditFits
  <2> QED BY <1>2, <2>2, <2>3
<1> QED BY <1>3, <1>5, <1>6, <1>7, AuditGoesOn

LEMMA AuditPassesRun ==
  ASSUME TypeOK, RunInvariant, UNCHANGED content, audit_csv_passes
  PROVE  RunInvariant'
<1>1. /\ cur # NoMsg /\ cur.msg = "AuditCSVCommand" /\ step = 1
      /\ PassesAudit(ReadAs(cur.assumed_type)) /\ UNCHANGED <<tables, disk, locks, mishaps>>
      /\ Continue(2)
  BY DEF audit_csv_passes, Handling, NoMsg
<1>2. /\ EventAlone' /\ AtHand' = cur /\ file' = file /\ step' = 2
      /\ commands' = commands /\ ~Idle'
  BY <1>1, ContinueHand DEF RunInvariant
<1>3. FilesFit'
  BY <1>1, <1>2, AuditStarts, NothingWritten
<1>4. ~Unclaimed(file)' /\ cur.msg \notin DOMAIN FailureDirectory
  BY <1>1, <1>2, AuditStarts DEF Unclaimed, FailureDirectory, tables
<1>5. AuditCounts'
  <2>1. ReadAs(cur.assumed_type)' = ReadAs(cur.assumed_type) /\ cur' = cur
    BY <1>1, <1>2 DEF ReadAs, Continue
  <2> QED BY <1>1, <1>2, <2>1, AuditStarts DEF AuditCounts, PassesAudit, tables
<1>6. AuditRun'
  BY <1>1, <1>2, <1>5, AuditStarts DEF AuditRun, AuditFits, tables
<1> QED BY <1>2, <1>3, <1>4, <1>6, AuditGoesOn

LEMMA AuditCountsRun ==
  ASSUME TypeOK, RunInvariant, UNCHANGED content, audit_csv_counts
  PROVE  RunInvariant'
<1> DEFINE type == cur.assumed_type
           row == [db[file] EXCEPT !.total_rows = ReadAs(type).rows]
           n == ReadAs(type).incomplete
           new == IF n > 0 THEN add_quarantined_row(row, n) ELSE row
<1>1. /\ cur # NoMsg /\ cur.msg = "AuditCSVCommand" /\ step = 2
      /\ Commit(new) /\ SetAside(ReadAs(type).hashes)
      /\ Continue(3) /\ UNCHANGED <<entities, disk, locks, mishaps>>
  BY DEF audit_csv_counts, Handling, NoMsg
<1>2. /\ EventAlone' /\ AtHand' = cur /\ file' = file /\ step' = 3
      /\ commands' = commands /\ ~Idle' /\ cur' = cur
  BY <1>1, ContinueHand DEF RunInvariant
<1>3. /\ AuditCounts /\ PassesAudit(ReadAs(type)) /\ type \in content[file].types
      /\ mishaps.outages > 0 \/ db[file].quarantined_rows = 0
  BY <1>1, AuditStarts DEF AuditCounts, AuditFits
<1>4. /\ n \in Nat /\ ReadAs(type).rows \in Nat /\ ReadAs(type).hashes \in SUBSET Rows
      /\ ReadAs(type).hashes # {} => n > 0
  <2>1. type \in Types
    BY <1>1, <1>3, AuditStarts, HashesAreRows DEF TypeOK, TablesOK
  <2>2. ReadAs(type).hashes \in SUBSET Rows /\ (ReadAs(type).hashes # {} => n > 0)
    BY <1>1, <1>3, AuditStarts, HashesAreRows, HashesAreCounted DEF ReadAs, TypeOK, TablesOK
  <2> QED BY <1>1, <2>1, <2>2, AuditStarts, ReadingFields DEF TypeOK, TablesOK
<1>5. /\ row \in FileRow /\ row.quarantined_rows = db[file].quarantined_rows
      /\ row.status = db[file].status /\ row.total_rows = ReadAs(type).rows
      /\ row.expected_batches = {} /\ row.completed_batches = {}
  BY <1>1, <1>4, AuditStarts DEF FileRow
<1>6. db[file].quarantined_rows \in Nat
  BY <1>1, AuditStarts DEF FileRow
<1>7. /\ new.expected_batches = {} /\ new.completed_batches = {}
      /\ ReadAs(type).hashes # {} => new.quarantined_rows > 0
      /\ \/ new.status = db[file].status
         \/ new.status = "FAILURE_SCHEMA" /\ mishaps.outages > 0
  <2> HIDE DEF row, n
  <2>1. CASE n > 0
    <3> DEFINE q == row.quarantined_rows + n
    <3>1. new = add_quarantined_row(row, n)
      BY <2>1
    <3> HIDE DEF new
    <3>2. /\ new.expected_batches = {} /\ new.completed_batches = {}
          /\ new.quarantined_rows = q
          /\ new.status = IF OverThreshold(q, row.total_rows)
                          THEN "FAILURE_SCHEMA" ELSE row.status
      BY <1>4, <1>5, <2>1, <3>1, QuarantineMethod
    <3>3. db[file].quarantined_rows = 0 => ~OverThreshold(q, row.total_rows)
      BY <1>3, <1>4, <1>5 DEF PassesAudit, n
    <3> QED BY <1>3, <1>4, <1>5, <1>6, <2>1, <3>2, <3>3
  <2>2. CASE ~(n > 0)
    BY <1>4, <1>5, <2>2
  <2> QED BY <2>1, <2>2
<1> HIDE DEF new
<1>8. db'[file] = new /\ \A g \in Files : g # file => db'[g] = db[g]
  BY <1>1, CommitWrites
<1>9. /\ \A h \in ReadAs(type).hashes : Kept(file, h)'
      /\ \A h \in Rows : quarantine'[h] = quarantine[h]
                         \/ (quarantine[h] = NoFile /\ quarantine'[h] = file)
  BY <1>1, <1>2, <1>4, <1>8, SetAsideKeeps
<1>10. OthersUnchanged
  BY <1>1, <1>8, <1>9 DEF OthersUnchanged
<1>11. FilesFit' /\ ~Unclaimed(file)'
  <2>1. ASSUME NEW f \in Files, f = file
        PROVE  FileFits(f)' /\ ~Unclaimed(f)'
    <3>1. db'[f].status \in AuditStatuses \cup {"FAILURE_SCHEMA"}
      BY <1>3, <1>7, <1>8, <2>1 DEF AuditCounts
    <3>2. db'[f].status = "FAILURE_SCHEMA" => mishaps'.outages > 0
      BY <1>1, <1>3, <1>7, <1>8, <2>1, AuditStarts DEF AuditCounts, AuditStatuses
    <3>3. entities'[f] = {} /\ disk'[f] = "processing"
      BY <1>1, <2>1, AuditStarts
    <3> QED BY <3>1, <3>2, <3>3 DEF FileFits, Unclaimed, Processed, AuditStatuses
  <2> QED BY <1>1, <1>2, <1>10, <2>1, AuditStarts, OthersFit DEF FilesFit
<1>12. AuditCounts'
  <2>1. ReadAs(type)' = ReadAs(type) /\ AtHand'.assumed_type = type
    BY <1>2 DEF ReadAs
  <2>2. PassesAudit(ReadAs(type))'
    BY <1>3, <2>1 DEF PassesAudit
  <2>3. RejectsKept(file, ReadAs(type).hashes)'
    BY <1>2, <1>7, <1>8, <1>9, <2>1 DEF RejectsKept
  <2>4. db'[file].status \in AuditStatuses
        \/ (db'[file].status = "FAILURE_SCHEMA" /\ mishaps'.outages > 0)
    BY <1>1, <1>3, <1>7, <1>8, AuditStarts DEF AuditCounts
  <2> QED BY <1>2, <2>1, <2>2, <2>3, <2>4 DEF AuditCounts
<1>13. AuditRun'
  BY <1>1, <1>2, <1>7, <1>8, <1>12, AuditStarts DEF AuditRun, AuditFits
<1>14. cur.msg \notin DOMAIN FailureDirectory
  BY <1>1 DEF FailureDirectory
<1> QED BY <1>2, <1>11, <1>13, <1>14, AuditGoesOn

\* What the handler of a batch must leave to go on.
LEMMA BatchGoesOn ==
  ASSUME EventAlone', FilesFit', ~Unclaimed(file)', FailureFits',
         UNCHANGED <<content, file>>, NEW t \in content[file].types,
         QueueFits(t)', StoredFits(t)', ChecksFit(t)', HandFits(t)'
  PROVE  RunInvariant'
BY DEF BatchRun, RunInvariant, RunFits

LEMMA AuditChunksRun ==
  ASSUME TypeOK, RunInvariant, UNCHANGED content, audit_csv_chunks
  PROVE  RunInvariant'
<1>1. /\ cur # NoMsg /\ cur.msg = "AuditCSVCommand" /\ step = 3
      /\ UNCHANGED <<entities, quarantine, disk, locks, mishaps>>
  BY DEF audit_csv_chunks, Handling, NoMsg
<1>2. PICK t \in content[file].types : t = cur.assumed_type
  BY <1>1, AuditStarts DEF AuditFits
<1> DEFINE batches == DOMAIN ReadAs(t).batches
           row == [db[file] EXCEPT !.expected_batches = @ \cup batches]
           queued == [k \in batches |-> ValidateData(t, k)]
<1>3. /\ Commit(validate(row)) /\ Reply(queued, << >>)
      /\ RejectsKept(file, ReadAs(t).hashes)
  BY <1>1, <1>2, AuditStarts DEF audit_csv_chunks, AuditCounts
<1>4. /\ EventAlone' /\ AtHand' = NoMsg /\ file' = file
      /\ commands' = << >> \o queued
  BY <1>1, <1>3, AuditStarts, ReplyHand
<1>5. commands' = queued /\ batches \in SUBSET Nat
  <2>1. t \in Types /\ ReadAs(t).batches \in Seq(Batch)
    BY <1>1, AuditStarts, HashesAreRows, ReadingFields DEF TypeOK, TablesOK
  <2>2. PICK n \in Nat : batches = 1..n
    BY <2>1
  <2> HIDE DEF batches
  <2>3. queued \in Seq({ValidateData(t, k) : k \in batches})
    BY <2>2
  <2> QED BY <1>4, <2>2, <2>3
<1>6. /\ row \in FileRow /\ row.expected_batches = batches /\ row.completed_batches = {}
      /\ row.quarantined_rows = db[file].quarantined_rows
  <2> HIDE DEF batches
  <2> QED BY <1>1, <1>5, AuditStarts DEF FileRow
<1> HIDE DEF row
<1>7. OnlyStatus(row, "VALIDATING", validate(row))
  BY <1>6, StatusMethods
<1>8. /\ FilesFit' /\ ~Unclaimed(file)' /\ db'[file] = validate(row)
      /\ \A h : Kept(file, h) => Kept(file, h)'
  <2>1. validate(row).status \in BusyStatuses
    BY <1>7 DEF OnlyStatus, BusyStatuses
  <2> QED BY <1>1, <1>3, <1>4, <2>1, RowIsWritten
<1>9. /\ db'[file].status = "VALIDATING" /\ db'[file].expected_batches = batches
      /\ db'[file].completed_batches = {} /\ entities'[file] = {}
      /\ db'[file].quarantined_rows = db[file].quarantined_rows
  BY <1>1, <1>6, <1>7, <1>8, AuditStarts DEF OnlyStatus
<1>10. \A i \in DOMAIN commands' : commands'[i].msg = "ValidateDataCommand"
                                   /\ commands'[i].assumed_type = t
  BY <1>5 DEF ValidateData
<1>11. QueueFits(t)'
  BY <1>10 DEF QueueFits
<1>12. StoredFits(t)'
  BY <1>4, <1>9 DEF StoredFits, BatchStatuses, ReadAs
<1>13. ChecksFit(t)'
  <2>1. RejectsKept(file, ReadAs(t).hashes)'
    BY <1>3, <1>4, <1>8, <1>9 DEF RejectsKept, ReadAs
  <2> QED BY <1>4, <1>9, <1>10, <2>1, MessageIsSomething DEF ChecksFit
<1>14. HandFits(t)' /\ FailureFits'
  BY <1>4 DEF HandFits, FailureFits, FailureDirectory, NoMsg
<1> QED BY <1>4, <1>8, <1>11, <1>12, <1>13, <1>14, BatchGoesOn

LEMMA RetryRun ==
  ASSUME TypeOK, RunInvariant, UNCHANGED content, attempt_retry
  PROVE  RunInvariant'
<1>1. /\ cur # NoMsg /\ cur.msg = "PandasAuditFailed"
      /\ UNCHANGED <<entities, quarantine, disk, locks, mishaps>>
  BY DEF attempt_retry, Handling, NoMsg
<1>2. PICK type \in NewTypes :
        /\ Commit(retry(db[file]))
        /\ Reply(<< AuditCSV(type, cur.potential_types \ {cur.assumed_type},
                             cur.attempted_types \cup {cur.assumed_type}) >>, << >>)
  BY DEF attempt_retry
<1>3. PICK c : /\ c = AuditCSV(type, cur.potential_types \ {cur.assumed_type},
                               cur.attempted_types \cup {cur.assumed_type})
               /\ Reply(<< c >>, << >>)
  BY <1>2
<1>4. /\ EventAlone' /\ AtHand' = NoMsg /\ file' = file /\ step' = 1
      /\ commands' = << c >>
  <2>1. /\ EventAlone' /\ AtHand' = NoMsg /\ file' = file /\ step' = 1
        /\ commands' = << >> \o << c >>
    BY <1>1, <1>3, AuditStarts, ReplyHand
  <2> QED BY <2>1
<1>5. c.msg = "AuditCSVCommand" /\ AuditFits(c)'
  <2>1. type \in content[file].types /\ cur.potential_types \subseteq content[file].types
    BY <1>1, AuditStarts DEF NewTypes, AuditFits
  <2> QED BY <1>3, <1>4, <2>1 DEF AuditCSV, AuditFits
<1>6. OnlyStatus(db[file], "RETRYING", retry(db[file]))
  BY <1>1, AuditStarts, StatusMethods
<1>7. FilesFit' /\ ~Unclaimed(file)' /\ db'[file] = retry(db[file])
  <2>1. retry(db[file]).status \in BusyStatuses
    BY <1>6 DEF OnlyStatus, BusyStatuses
  <2> QED BY <1>1, <1>2, <1>4, <2>1, RowIsWritten
<1>8. AuditRun'
  <2>1. commands' = << Head(commands') >> /\ Head(commands') = c
    BY <1>4
  <2>2. AuditFits(Head(commands))'
    BY <1>5, <2>1 DEF AuditFits
  <2>3. /\ db'[file].expected_batches = {} /\ db'[file].completed_batches = {}
        /\ db'[file].quarantined_rows = 0 /\ db'[file].status \in AuditStatuses
        /\ entities'[file] = {} /\ disk'[file] = "processing"
    BY <1>1, <1>6, <1>7, AuditStarts DEF OnlyStatus, AuditStatuses
  <2> QED BY <1>4, <1>5, <2>1, <2>2, <2>3 DEF AuditRun
<1>9. AtHand'.msg \notin DOMAIN FailureDirectory
  BY <1>4 DEF FailureDirectory, NoMsg
<1> QED BY <1>4, <1>7, <1>8, <1>9, AuditGoesOn

LEMMA RetryGivesUpRun ==
  ASSUME TypeOK, RunInvariant, UNCHANGED content, attempt_retry_gives_up
  PROVE  RunInvariant'
<1>1. /\ cur # NoMsg /\ cur.msg = "PandasAuditFailed" /\ Commit(finish(db[file]))
      /\ Reply(<< >>, << Signal("SchemaDriftDetected") >>)
      /\ UNCHANGED <<entities, quarantine, disk, locks, mishaps>>
  BY DEF attempt_retry_gives_up, Handling, NoMsg
<1>2. /\ EventAlone' /\ AtHand' = Signal("SchemaDriftDetected") /\ file' = file /\ step' = 1
      /\ commands' = << >>
  <2>1. /\ EventAlone' /\ AtHand' = Signal("SchemaDriftDetected") /\ file' = file /\ step' = 1
        /\ commands' = << >> \o << >>
    BY <1>1, AuditStarts, ReplyHand
  <2> QED BY <2>1
<1>3. OnlyStatus(db[file], "FINISHING", finish(db[file]))
  BY <1>1, AuditStarts, StatusMethods
<1>4. FilesFit' /\ ~Unclaimed(file)' /\ db'[file] = finish(db[file])
  <2>1. finish(db[file]).status \in BusyStatuses
    BY <1>3 DEF OnlyStatus, BusyStatuses
  <2> QED BY <1>1, <1>2, <2>1, RowIsWritten
<1>5. AuditRun'
  BY <1>1, <1>2, <1>3, <1>4, AuditStarts DEF AuditRun, OnlyStatus, Signal
<1> QED BY <1>2, <1>4, <1>5, AuditGoesOn

LEMMA AuditKeepsRun ==
  ASSUME TypeOK, RunInvariant, UNCHANGED content, AuditStep
  PROVE  RunInvariant'
BY AuditFailsRun, AuditPassesRun, AuditCountsRun, AuditChunksRun, RetryRun, RetryGivesUpRun
   DEF AuditStep

(***************************************************************************)
(* The batches: validation.                                                *)
(***************************************************************************)
BatchMessages ==
  {"ValidateDataCommand", "SaveValidatedDataCommand", "BatchValidated", "BatchProcessed",
   "PydanticAuditFailed", "FileProcessingAborted", "FileSuccessfullyProcessed"}

LEMMA BatchStarts ==
  ASSUME TypeOK, RunInvariant, cur # NoMsg, cur.msg \in BatchMessages
  PROVE  /\ EventAlone /\ AtHand = cur /\ ~Idle /\ file \in Files /\ db[file] \in FileRow
         /\ ~Unclaimed(file) /\ FailureFits
         /\ \E t \in content[file].types : BatchRun(t)
BY RunCases, RunHasRow DEF BatchMessages, RunInvariant

\* The rows kept so far stay so under a new status.
LEMMA ChecksSurvive ==
  ASSUME UNCHANGED <<content, file>>, \A h : Kept(file, h) => Kept(file, h)',
         db'[file].quarantined_rows = db[file].quarantined_rows,
         db'[file].total_rows = db[file].total_rows,
         NEW t
  PROVE  /\ \A H : RejectsKept(file, H) => RejectsKept(file, H)'
         /\ \A k : BatchChecked(file, t, k) => BatchChecked(file, t, k)'
<1>1. \A H : RejectsKept(file, H) => RejectsKept(file, H)'
  BY DEF RejectsKept
<1> QED BY <1>1 DEF BatchChecked, WithinThreshold

LEMMA ClaimRun ==
  ASSUME TypeOK, RunInvariant, UNCHANGED content, validate_data_claims
  PROVE  RunInvariant'
<1>1. /\ cur # NoMsg /\ cur.msg = "ValidateDataCommand" /\ cur.msg \in BatchMessages
      /\ ~AlreadyValidated /\ Commit(validate(db[file])) /\ Continue(2)
      /\ UNCHANGED <<entities, quarantine, disk, locks, mishaps>>
  BY DEF validate_data_claims, Handling, NoMsg, BatchMessages
<1>2. /\ EventAlone' /\ AtHand' = cur /\ file' = file /\ step' = 2
      /\ commands' = commands /\ ~Idle' /\ cur' = cur
  BY <1>1, ContinueHand DEF RunInvariant
<1>3. PICK t \in content[file].types : BatchRun(t)
  BY <1>1, BatchStarts
<1>4. OnlyStatus(db[file], "VALIDATING", validate(db[file]))
  BY <1>1, BatchStarts, StatusMethods
<1>5. /\ FilesFit' /\ ~Unclaimed(file)' /\ db'[file] = validate(db[file])
      /\ \A h : Kept(file, h) => Kept(file, h)'
  <2>1. validate(db[file]).status \in BusyStatuses
    BY <1>4 DEF OnlyStatus, BusyStatuses
  <2> QED BY <1>1, <1>2, <2>1, RowIsWritten
<1>6. db[file].status \in BatchStatuses
  BY <1>1, <1>3 DEF AlreadyValidated, BatchRun, StoredFits
<1>7. QueueFits(t)' /\ StoredFits(t)'
  BY <1>1, <1>2, <1>3, <1>4, <1>5
     DEF BatchRun, QueueFits, StoredFits, AllSaves, ReadAs, OnlyStatus, BatchStatuses
<1>8. ChecksFit(t)'
  <2>1. /\ \A H : RejectsKept(file, H) => RejectsKept(file, H)'
        /\ \A k : BatchChecked(file, t, k) => BatchChecked(file, t, k)'
    BY <1>2, <1>4, <1>5, ChecksSurvive DEF OnlyStatus
  <2>2. AtHand' = AtHand
    BY <1>1, <1>2, BatchStarts
  <2> QED BY <1>1, <1>2, <1>3, <1>6, <2>1, <2>2 DEF BatchRun, ChecksFit, ReadAs
<1>9. HandFits(t)' /\ FailureFits'
  BY <1>1, <1>2, <1>3, <1>4, <1>5, BatchStarts
     DEF BatchRun, HandFits, OnlyStatus, FailureFits, FailureDirectory
<1> QED BY <1>2, <1>3, <1>5, <1>7, <1>8, <1>9, BatchGoesOn

LEMMA SortRun ==
  ASSUME TypeOK, RunInvariant, UNCHANGED content, validate_data_sorts_rows
  PROVE  RunInvariant'
<1>1. /\ cur # NoMsg /\ cur.msg = "ValidateDataCommand" /\ cur.msg \in BatchMessages
      /\ step = 2 /\ UNCHANGED <<tables, disk, locks, mishaps>>
  BY DEF validate_data_sorts_rows, Handling, NoMsg, BatchMessages
<1>2. CASE ~cur.numbered
  BY <1>1, <1>2, RunDrops DEF validate_data_sorts_rows
<1>3. CASE cur.numbered
  <2>1. PICK c : c = [cur EXCEPT !.numbered = FALSE]
    OBVIOUS
  <2>2. /\ c \in Command /\ c.msg = "ValidateDataCommand"
        /\ c.assumed_type = cur.assumed_type /\ c # NoMsg
    BY <1>1, <2>1, NumberedField, MessageIsSomething DEF TypeOK, ThreadOK
  <2>3. cur' = c /\ step' = 3 /\ UNCHANGED <<file, attempt, commands, events>>
    BY <1>3, <2>1 DEF validate_data_sorts_rows
  <2>4. EventAlone' /\ AtHand' = c /\ ~Idle'
    BY <1>1, <2>2, <2>3 DEF RunInvariant, EventAlone, AtHand, Idle
  <2>5. FilesFit' /\ ~Unclaimed(file)' /\ FailureFits'
    BY <1>1, <2>2, <2>3, <2>4, BatchStarts, NothingWritten
       DEF Unclaimed, FailureFits, FailureDirectory, tables
  <2>6. PICK t \in content[file].types : BatchRun(t)
    BY <1>1, BatchStarts
  <2>7. HandFits(t)'
    BY <1>1, <2>2, <2>3, <2>4, <2>6, BatchStarts DEF BatchRun, HandFits, tables
  <2>8. BatchRun(t)'
    BY <1>1, <2>2, <2>3, <2>4, <2>6, <2>7, BatchStarts, BatchRunStays
  <2> QED BY <2>3, <2>4, <2>5, <2>6, <2>8 DEF RunInvariant, RunFits
<1> QED BY <1>2, <1>3

\* Either audit finds too many bad rows: the file is finishing, nothing is stored.
LEMMA DriftRun ==
  ASSUME TypeOK, RunInvariant, UNCHANGED content,
         validate_data_detects_drift \/ handle_pydantic_failure
  PROVE  RunInvariant'
<1>1. /\ cur # NoMsg /\ cur.msg \in {"ValidateDataCommand", "PydanticAuditFailed"}
      /\ cur.msg \in BatchMessages /\ Commit(finish(db[file]))
      /\ UNCHANGED <<entities, quarantine, disk, locks, mishaps>>
  BY DEF validate_data_detects_drift, handle_pydantic_failure, Handling, NoMsg, BatchMessages
<1>2. PICK m : /\ m \in {Signal("PydanticAuditFailed"), Signal("SchemaDriftDetected")}
               /\ Reply(<< >>, << m >>)
  BY DEF validate_data_detects_drift, handle_pydantic_failure
<1>3. /\ EventAlone' /\ AtHand' = m /\ file' = file /\ step' = 1 /\ commands' = commands
  <2>1. /\ EventAlone' /\ AtHand' = m /\ file' = file /\ step' = 1
        /\ commands' = commands \o << >>
    BY <1>1, <1>2, BatchStarts, ReplyHand
  <2> QED BY <2>1 DEF TypeOK, ThreadOK
<1>4. PICK t \in content[file].types : BatchRun(t)
  BY <1>1, BatchStarts
<1>5. entities[file] = {}
  BY <1>1, <1>4, BatchStarts DEF BatchRun, HandFits
<1>6. OnlyStatus(db[file], "FINISHING", finish(db[file]))
  BY <1>1, BatchStarts, StatusMethods
<1>7. FilesFit' /\ ~Unclaimed(file)' /\ db'[file] = finish(db[file])
  <2>1. finish(db[file]).status \in BusyStatuses
    BY <1>6 DEF OnlyStatus, BusyStatuses
  <2> QED BY <1>1, <1>3, <2>1, RowIsWritten
<1>8. QueueFits(t)' /\ StoredFits(t)'
  BY <1>1, <1>3, <1>4, <1>6, <1>7
     DEF BatchRun, QueueFits, StoredFits, AllSaves, ReadAs, OnlyStatus, WrongStatuses
<1>9. ChecksFit(t)'
  BY <1>3, <1>6, <1>7 DEF ChecksFit, OnlyStatus, BatchStatuses
<1>10. HandFits(t)' /\ FailureFits'
  BY <1>1, <1>2, <1>3, <1>5, <1>6, <1>7 DEF HandFits, FailureFits, OnlyStatus, Signal
<1> QED BY <1>3, <1>4, <1>7, <1>8, <1>9, <1>10, BatchGoesOn

LEMMA ValidatedRun ==
  ASSUME TypeOK, RunInvariant, UNCHANGED content, validate_data
  PROVE  RunInvariant'
<1>1. /\ cur # NoMsg /\ cur.msg = "ValidateDataCommand" /\ cur.msg \in BatchMessages
      /\ step = 3 /\ ~OverThreshold(projected_quarantine_total, db[file].total_rows)
      /\ UNCHANGED <<entities, disk, locks, mishaps>>
  BY DEF validate_data, Handling, NoMsg, BatchMessages
<1>2. PICK t \in content[file].types : BatchRun(t)
  BY <1>1, BatchStarts
<1>3. /\ cur.assumed_type = t /\ db[file].status = "VALIDATING" /\ entities[file] = {}
      /\ cur.batch_number \in DOMAIN ReadAs(t).batches
  BY <1>1, <1>2, BatchStarts DEF BatchRun, HandFits, TypeOK, ThreadOK, CommandFits
<1> DEFINE save == [msg |-> "SaveValidatedDataCommand", assumed_type |-> cur.assumed_type,
                    batch_number |-> cur.batch_number]
           saves == IF BatchInHand.valid > 0 THEN << save >> ELSE << >>
           validated == [msg |-> "BatchValidated", batch_number |-> cur.batch_number]
<1>4. /\ EventAlone' /\ AtHand' = validated /\ file' = file /\ step' = 1
      /\ commands' = commands \o saves
  <2>1. Reply(saves, << validated >>)
    BY DEF validate_data
  <2> QED BY <1>1, <2>1, BatchStarts, ReplyHand
<1>5. PICK k \in DOMAIN ReadAs(t).batches : k = cur.batch_number
  BY <1>3
<1> DEFINE n == BatchInHand.invalid
           hashes == ReadAs(t).batches[k].hashes
<1>6. /\ n \in Nat /\ hashes \in SUBSET Rows /\ (hashes # {} => n > 0)
      /\ BatchInHand.hashes = hashes
  BY <1>1, <1>3, <1>5, BatchStarts, HashesAreRows, HashesAreCounted
     DEF BatchInHand, ReadAs, TypeOK, TablesOK
<1>7. /\ \A g \in Files : g # file => db'[g] = db[g]
      /\ db'[file].status = "VALIDATING"
      /\ db'[file].quarantined_rows = db[file].quarantined_rows + n
      /\ db'[file].total_rows = db[file].total_rows
      /\ db'[file].expected_batches = db[file].expected_batches
      /\ db'[file].completed_batches = db[file].completed_batches
  <2>1. CASE n > 0
    <3>1. Commit(add_quarantined_row(db[file], n))
      BY <2>1 DEF validate_data
    <3>2. ~OverThreshold(db[file].quarantined_rows + n, db[file].total_rows)
      BY <1>1 DEF projected_quarantine_total
    <3> QED BY <1>1, <1>3, <1>6, <2>1, <3>1, <3>2, BatchStarts, CommitWrites, QuarantineMethod
  <2>2. CASE ~(n > 0)
    <3>1. n = 0 /\ db' = db /\ db[file].quarantined_rows \in Nat
      BY <1>1, <1>6, <2>2, BatchStarts DEF validate_data, FileRow
    <3> QED BY <1>3, <3>1
  <2> QED BY <2>1, <2>2
<1>8. /\ \A h \in hashes : Kept(file, h)'
      /\ \A h \in Rows : Kept(file, h) => Kept(file, h)'
      /\ \A h \in Rows : quarantine'[h] = quarantine[h]
                         \/ (quarantine[h] = NoFile /\ quarantine'[h] = file)
  <2>1. CASE n > 0
    <3>1. SetAside(hashes)
      BY <1>6, <2>1 DEF validate_data
    <3> HIDE DEF hashes
    <3> QED BY <1>1, <1>4, <1>6, <1>7, <3>1, SetAsideKeeps
  <2>2. CASE ~(n > 0)
    <3>1. hashes = {} /\ db' = db /\ quarantine' = quarantine
      BY <1>6, <2>2 DEF validate_data
    <3> QED BY <1>1, <1>4, <3>1 DEF Kept, Unclaimed, Idle
  <2> QED BY <2>1, <2>2
<1>9. FilesFit' /\ ~Unclaimed(file)'
  <2>1. OthersUnchanged
    BY <1>1, <1>7, <1>8 DEF OthersUnchanged
  <2> QED BY <1>1, <1>4, <1>7, <2>1, BusyFits DEF BusyStatuses
<1>10. \A i \in DOMAIN commands' :
         \/ i \in DOMAIN commands /\ commands'[i] = commands[i]
         \/ /\ commands'[i] = save /\ \A j \in DOMAIN commands : j < i
            /\ i \notin DOMAIN commands /\ \A j \in DOMAIN commands' : j <= i
  <2> HIDE DEF save
  <2>1. commands \in Seq(Command)
    BY DEF TypeOK, ThreadOK
  <2>2. CASE saves = << >>
    BY <1>4, <2>1, <2>2
  <2>3. CASE saves = << save >>
    <3>1. commands' = Append(commands, save)
      BY <1>4, <2>1, <2>3
    <3> QED BY <2>1, <3>1
  <2> QED BY <2>2, <2>3
<1>11. QueueFits(t)'
  <2>1. ASSUME NEW i \in DOMAIN commands'
        PROVE  /\ commands'[i].msg \in {"ValidateDataCommand", "SaveValidatedDataCommand"}
               /\ commands'[i].assumed_type = t
    BY <1>2, <1>3, <1>10 DEF BatchRun, QueueFits
  <2>2. ASSUME NEW i \in DOMAIN commands', NEW j \in DOMAIN commands', i < j,
               commands'[i].msg = "SaveValidatedDataCommand"
        PROVE  commands'[j].msg = "SaveValidatedDataCommand"
    <3>1. CASE j \in DOMAIN commands /\ commands'[j] = commands[j]
      <4>1. i \in DOMAIN commands /\ commands'[i] = commands[i]
        <5>1. i \in Nat /\ j \in Nat
          BY <1>4, <3>1 DEF TypeOK, ThreadOK
        <5> QED BY <1>10, <2>2, <3>1, <5>1
      <4> QED BY <1>2, <2>2, <3>1, <4>1 DEF BatchRun, QueueFits
    <3>2. CASE commands'[j] = save
      BY <3>2
    <3> QED BY <1>10, <3>1, <3>2
  <2> QED BY <2>1, <2>2 DEF QueueFits
<1>12. StoredFits(t)'
  BY <1>1, <1>2, <1>3, <1>4, <1>7 DEF BatchRun, StoredFits, ReadAs, BatchStatuses
<1>13. ChecksFit(t)'
  <2> SUFFICES ASSUME t \notin Misregistered
               PROVE  ChecksFit(t)'
    BY DEF ChecksFit
  <2>1. ASSUME NEW H \in SUBSET Rows, RejectsKept(file, H)
        PROVE  RejectsKept(file, H)'
    <3>1. db[file].quarantined_rows \in Nat
      BY <1>1, BatchStarts DEF FileRow
    <3> QED BY <1>4, <1>6, <1>7, <1>8, <2>1, <3>1 DEF RejectsKept
  <2>2. WithinThreshold(file)'
    BY <1>1, <1>4, <1>7 DEF WithinThreshold, projected_quarantine_total
  <2>3. \A j \in DOMAIN ReadAs(t).batches : BatchChecked(file, t, j) => BatchChecked(file, t, j)'
    <3>1. \A j \in DOMAIN ReadAs(t).batches : ReadAs(t).batches[j].hashes \in SUBSET Rows
      BY <1>1, BatchStarts, HashesAreRows DEF ReadAs, TypeOK, TablesOK
    <3> QED BY <1>4, <2>1, <2>2, <3>1 DEF BatchChecked, ReadAs
  <2>4. BatchChecked(file, t, k)'
    <3>1. db[file].quarantined_rows \in Nat
      BY <1>1, BatchStarts DEF FileRow
    <3>2. RejectsKept(file, hashes)'
      BY <1>4, <1>6, <1>7, <1>8, <3>1 DEF RejectsKept, ReadAs
    <3> QED BY <1>4, <2>2, <3>2 DEF BatchChecked, ReadAs
  <2>5. RejectsKept(file, ReadAs(t).hashes)'
    <3>1. ReadAs(t).hashes \in SUBSET Rows /\ RejectsKept(file, ReadAs(t).hashes)
      BY <1>1, <1>2, <1>3, BatchStarts, HashesAreRows
         DEF BatchRun, ChecksFit, BatchStatuses, ReadAs, TypeOK, TablesOK
    <3>2. PICK H : H = ReadAs(t).hashes
      OBVIOUS
    <3>3. RejectsKept(file, H)'
      BY <2>1, <3>1, <3>2
    <3> QED BY <1>4, <3>2, <3>3 DEF ReadAs
  <2>6. ASSUME NEW i \in DOMAIN commands', commands'[i].msg = "SaveValidatedDataCommand"
        PROVE  BatchChecked(file, t, commands[i].batch_number)'
    <3>1. CASE commands'[i] = save
      BY <1>5, <2>4, <3>1
    <3>2. CASE i \in DOMAIN commands /\ commands'[i] = commands[i]
      <4>1. BatchChecked(file, t, commands[i].batch_number)
        BY <1>2, <1>3, <2>6, <3>2 DEF BatchRun, ChecksFit, BatchStatuses
      <4>2. PICK j \in DOMAIN ReadAs(t).batches : j = commands[i].batch_number
        BY <1>2, <2>6, <3>2 DEF BatchRun, QueueFits, TypeOK, ThreadOK, CommandFits
      <4> QED BY <2>3, <3>2, <4>1, <4>2
    <3> QED BY <1>10, <3>1, <3>2
  <2> QED BY <1>1, <1>3, <1>4, <2>5, <2>6 DEF ChecksFit, ReadAs
<1>14. HandFits(t)' /\ FailureFits'
  BY <1>4 DEF HandFits, FailureFits, FailureDirectory
<1> QED BY <1>2, <1>4, <1>9, <1>11, <1>12, <1>13, <1>14, BatchGoesOn

LEMMA ValidationKeepsRun ==
  ASSUME TypeOK, RunInvariant, UNCHANGED content, ValidationStep
  PROVE  RunInvariant'
<1>1. CASE validate_data_skips
  BY <1>1, RunDrops DEF validate_data_skips, Handling, NoMsg
<1> QED BY <1>1, ClaimRun, SortRun, DriftRun, ValidatedRun DEF ValidationStep

(***************************************************************************)
(* The batches: persistence.                                               *)
(***************************************************************************)
LEMMA AbortRun ==
  ASSUME TypeOK, RunInvariant, UNCHANGED content, persist_to_database_aborts
  PROVE  RunInvariant'
<1>1. /\ cur # NoMsg /\ cur.msg = "SaveValidatedDataCommand" /\ cur.msg \in BatchMessages
      /\ ~AlreadyPersisted /\ cur.assumed_type \in Misregistered
      /\ Reply(<< >>, << Signal("FileProcessingAborted") >>)
      /\ UNCHANGED <<tables, disk, locks, mishaps>>
  BY DEF persist_to_database_aborts, Handling, NoMsg, BatchMessages
<1>2. /\ EventAlone' /\ AtHand' = Signal("FileProcessingAborted") /\ file' = file /\ step' = 1
      /\ commands' = commands
  <2>1. /\ EventAlone' /\ AtHand' = Signal("FileProcessingAborted") /\ file' = file /\ step' = 1
        /\ commands' = commands \o << >>
    BY <1>1, BatchStarts, ReplyHand
  <2> QED BY <2>1 DEF TypeOK, ThreadOK
<1>3. PICK t \in content[file].types : BatchRun(t)
  BY <1>1, BatchStarts
<1>4. t \in Misregistered /\ entities[file] = {} /\ db[file].status \in BatchStatuses
  BY <1>1, <1>3, BatchStarts DEF BatchRun, HandFits, StoredFits, AlreadyPersisted
<1>5. FilesFit' /\ ~Unclaimed(file)'
  BY <1>1, <1>2, BatchStarts, NothingWritten DEF Unclaimed, tables
<1>6. HandFits(t)'
  BY <1>1, <1>2, <1>4 DEF HandFits, Signal, tables
<1>7. BatchRun(t)'
  BY <1>1, <1>2, <1>3, <1>6, BatchStarts, BatchRunStays DEF Signal
<1>8. FailureFits'
  BY <1>1, <1>2, <1>4 DEF FailureFits, tables
<1> QED BY <1>2, <1>3, <1>5, <1>7, <1>8 DEF RunInvariant, RunFits

\* A batch is committed: the handler learns of it, runs again, or gives up.
LEMMA PersistRun ==
  ASSUME TypeOK, RunInvariant, UNCHANGED content,
         persist_to_database \/ persist_to_database_unanswered
  PROVE  RunInvariant'
<1>1. /\ cur # NoMsg /\ cur.msg = "SaveValidatedDataCommand" /\ cur.msg \in BatchMessages
      /\ ~AlreadyPersisted /\ cur.assumed_type \notin Misregistered /\ BatchIsCommitted
      /\ UNCHANGED <<quarantine, disk, locks>>
  BY DEF persist_to_database, persist_to_database_unanswered, Handling, NoMsg, BatchMessages
<1>2. PICK t \in content[file].types : BatchRun(t)
  BY <1>1, BatchStarts
<1>3. /\ t \notin Misregistered /\ db[file].status \in BatchStatuses
      /\ cur.assumed_type = t /\ AllSaves
  BY <1>1, <1>2, BatchStarts DEF BatchRun, HandFits, StoredFits, AlreadyPersisted
<1>4. PICK k \in DOMAIN ReadAs(t).batches : k = cur.batch_number
  BY <1>1, <1>3 DEF TypeOK, ThreadOK, CommandFits
<1>5. /\ EventAlone' /\ file' = file /\ step' = 1 /\ commands' = commands
      /\ \/ AtHand' = [msg |-> "BatchProcessed", batch_number |-> k]
         \/ AtHand' = cur \/ AtHand' = Signal("SystemFaultEvent")
  <2>1. CASE persist_to_database
    <3>1. /\ EventAlone' /\ AtHand' = [msg |-> "BatchProcessed", batch_number |-> k]
          /\ file' = file /\ step' = 1 /\ commands' = commands \o << >>
      BY <1>1, <1>4, <2>1, BatchStarts, ReplyHand DEF persist_to_database
    <3> QED BY <3>1 DEF TypeOK, ThreadOK
  <2>2. CASE persist_to_database_unanswered
    BY <1>1, <2>2, BatchStarts, AgainHand DEF persist_to_database_unanswered
  <2> QED BY <2>1, <2>2
<1> DEFINE row == process_row_success(persist(db[file]), BatchInHand.valid)
<1>6. /\ \A g \in Files : g # file => db'[g] = db[g] /\ entities'[g] = entities[g]
      /\ db'[file] = row /\ entities'[file] = entities[file] \cup {<<t, k>>}
  <2>1. Commit(row) /\ entities' = [entities EXCEPT ![file] = @ \cup {<<t, k>>}]
    BY <1>1, <1>3, <1>4 DEF BatchIsCommitted
  <2> HIDE DEF row
  <2> QED BY <1>1, <2>1, BatchStarts, CommitWrites DEF TypeOK, TablesOK
<1>7. /\ row.status = "PERSISTING" /\ row.expected_batches = db[file].expected_batches
      /\ row.completed_batches = db[file].completed_batches
      /\ row.quarantined_rows = db[file].quarantined_rows
      /\ row.total_rows = db[file].total_rows
  <2>1. persist(db[file]) \in FileRow /\ OnlyStatus(db[file], "PERSISTING", persist(db[file]))
    BY <1>1, BatchStarts, RowMethods, StatusMethods
  <2> QED BY <2>1 DEF process_row_success, OnlyStatus, FileRow
<1> HIDE DEF row
<1>8. FilesFit' /\ ~Unclaimed(file)'
  <2>1. mishaps.outages > 0 => mishaps'.outages > 0
    BY BoundsAssumption, MishapCounts DEF persist_to_database, persist_to_database_unanswered
  <2>2. OthersUnchanged
    BY <1>1, <1>6, <2>1 DEF OthersUnchanged
  <2> QED BY <1>1, <1>5, <1>6, <1>7, <2>2, BusyFits DEF BusyStatuses
<1>9. QueueFits(t)' /\ StoredFits(t)'
  BY <1>1, <1>2, <1>3, <1>4, <1>5, <1>6, <1>7
     DEF BatchRun, QueueFits, StoredFits, AllSaves, ReadAs, BatchStatuses
<1>10. ChecksFit(t)'
  <2>1. \A h : Kept(file, h) => Kept(file, h)'
    BY <1>1, <1>5, <1>6 DEF Kept, Unclaimed, Idle
  <2>2. /\ \A H : RejectsKept(file, H) => RejectsKept(file, H)'
        /\ \A j : BatchChecked(file, t, j) => BatchChecked(file, t, j)'
    BY <1>5, <1>6, <1>7, <2>1, ChecksSurvive
  <2>3. /\ RejectsKept(file, ReadAs(t).hashes) /\ BatchChecked(file, t, k)
        /\ \A i \in DOMAIN commands : commands[i].msg = "SaveValidatedDataCommand" =>
             BatchChecked(file, t, commands[i].batch_number)
        /\ \A j \in DOMAIN ReadAs(t).batches :
             <<t, j>> \in entities[file] => BatchChecked(file, t, j)
    BY <1>1, <1>2, <1>3, <1>4, BatchStarts DEF BatchRun, ChecksFit
  <2>4. AtHand'.msg = "SaveValidatedDataCommand" => AtHand'.batch_number = k
    BY <1>4, <1>5 DEF Signal
  <2> QED BY <1>5, <1>6, <2>2, <2>3, <2>4 DEF ChecksFit, ReadAs
<1>11. HandFits(t)'
  BY <1>1, <1>3, <1>4, <1>5, <1>6, <1>7 DEF HandFits, Signal, AllSaves
<1>12. FailureFits'
  BY <1>1, <1>5 DEF FailureFits, FailureDirectory, Signal
<1> QED BY <1>2, <1>5, <1>8, <1>9, <1>10, <1>11, <1>12, BatchGoesOn

LEMMA CountedRun ==
  ASSUME TypeOK, RunInvariant, UNCHANGED content, check_file_completion_counts
  PROVE  RunInvariant'
<1> DEFINE row == [db[file] EXCEPT !.completed_batches = CountedBatches]
<1>1. /\ cur # NoMsg /\ cur.msg = "BatchProcessed" /\ cur.msg \in BatchMessages
      /\ Commit(row) /\ Reply(<< >>, << >>)
      /\ UNCHANGED <<entities, quarantine, disk, locks, mishaps>>
  BY DEF check_file_completion_counts, Handling, NoMsg, BatchMessages
<1>2. /\ EventAlone' /\ AtHand' = NoMsg /\ file' = file /\ commands' = commands
  <2>1. EventAlone' /\ AtHand' = NoMsg /\ file' = file /\ commands' = commands \o << >>
    BY <1>1, BatchStarts, ReplyHand
  <2> QED BY <2>1 DEF TypeOK, ThreadOK
<1>3. PICK t \in content[file].types : BatchRun(t)
  BY <1>1, BatchStarts
<1>4. <<t, cur.batch_number>> \in entities[file] /\ db[file].status = "PERSISTING"
  BY <1>1, <1>3, BatchStarts DEF BatchRun, HandFits
<1>5. \A k \in CountedBatches : <<t, k>> \in entities[file]
  BY <1>3, <1>4 DEF CountedBatches, BatchRun, StoredFits
<1>6. /\ row.status = "PERSISTING" /\ row.expected_batches = db[file].expected_batches
      /\ row.completed_batches = CountedBatches
      /\ row.quarantined_rows = db[file].quarantined_rows
      /\ row.total_rows = db[file].total_rows
  BY <1>1, <1>4, BatchStarts DEF FileRow
<1> HIDE DEF row
<1>7. /\ FilesFit' /\ ~Unclaimed(file)' /\ db'[file] = row
      /\ \A h : Kept(file, h) => Kept(file, h)'
  BY <1>1, <1>2, <1>6, RowIsWritten DEF BusyStatuses
<1>8. QueueFits(t)' /\ StoredFits(t)'
  BY <1>1, <1>2, <1>3, <1>5, <1>6, <1>7
     DEF BatchRun, QueueFits, StoredFits, AllSaves, ReadAs, BatchStatuses
<1>9. ChecksFit(t)'
  <2>1. /\ \A H : RejectsKept(file, H) => RejectsKept(file, H)'
        /\ \A j : BatchChecked(file, t, j) => BatchChecked(file, t, j)'
    BY <1>2, <1>6, <1>7, ChecksSurvive
  <2> QED BY <1>1, <1>2, <1>3, <1>4, <2>1, MessageIsSomething
          DEF BatchRun, ChecksFit, BatchStatuses, ReadAs
<1>10. HandFits(t)' /\ FailureFits'
  BY <1>2 DEF HandFits, FailureFits, FailureDirectory, NoMsg
<1> QED BY <1>2, <1>3, <1>7, <1>8, <1>9, <1>10, BatchGoesOn

LEMMA CompletedRun ==
  ASSUME TypeOK, RunInvariant, UNCHANGED content, check_file_completion
  PROVE  RunInvariant'
<1>1. /\ cur # NoMsg /\ cur.msg = "BatchProcessed" /\ cur.msg \in BatchMessages
      /\ AllBatchesCounted /\ Reply(<< >>, << Signal("FileSuccessfullyProcessed") >>)
      /\ UNCHANGED <<tables, disk, locks, mishaps>>
  BY DEF check_file_completion, Handling, NoMsg, BatchMessages
<1>2. /\ EventAlone' /\ AtHand' = Signal("FileSuccessfullyProcessed") /\ file' = file
      /\ step' = 1 /\ commands' = commands
  <2>1. /\ EventAlone' /\ AtHand' = Signal("FileSuccessfullyProcessed") /\ file' = file
        /\ step' = 1 /\ commands' = commands \o << >>
    BY <1>1, BatchStarts, ReplyHand
  <2> QED BY <2>1 DEF TypeOK, ThreadOK
<1>3. PICK t \in content[file].types : BatchRun(t)
  BY <1>1, BatchStarts
<1>4. <<t, cur.batch_number>> \in entities[file] /\ db[file].status = "PERSISTING"
  BY <1>1, <1>3, BatchStarts DEF BatchRun, HandFits
<1>5. entities[file] = {t} \X DOMAIN ReadAs(t).batches
  <2>1. DOMAIN ReadAs(t).batches = CountedBatches
    BY <1>1, <1>3 DEF AllBatchesCounted, BatchRun, StoredFits
  <2>2. \A k \in CountedBatches : <<t, k>> \in entities[file]
    BY <1>3, <1>4 DEF CountedBatches, BatchRun, StoredFits
  <2> QED BY <1>3, <2>1, <2>2 DEF BatchRun, StoredFits
<1>6. FilesFit' /\ ~Unclaimed(file)'
  BY <1>1, <1>2, BatchStarts, NothingWritten DEF Unclaimed, tables
<1>7. HandFits(t)'
  BY <1>1, <1>2, <1>4, <1>5 DEF HandFits, Signal, ReadAs, tables
<1>8. BatchRun(t)'
  BY <1>1, <1>2, <1>3, <1>7, BatchStarts, BatchRunStays DEF Signal
<1>9. FailureFits'
  BY <1>2 DEF FailureFits, FailureDirectory, Signal
<1> QED BY <1>2, <1>3, <1>6, <1>8, <1>9 DEF RunInvariant, RunFits

LEMMA PersistenceKeepsRun ==
  ASSUME TypeOK, RunInvariant, UNCHANGED content, PersistenceStep
  PROVE  RunInvariant'
<1>1. CASE persist_to_database_skips
  BY <1>1, RunDrops DEF persist_to_database_skips, Handling, NoMsg
<1> QED BY <1>1, AbortRun, PersistRun, CountedRun, CompletedRun DEF PersistenceStep

(***************************************************************************)
(* The end of a file.                                                      *)
(***************************************************************************)
FinishingMessages == DOMAIN FailureDirectory \cup {"FileSuccessfullyProcessed"}

\* Until its end is committed, a file is busy.
LEMMA FinishingStarts ==
  ASSUME TypeOK, RunInvariant, cur # NoMsg, cur.msg \in FinishingMessages
  PROVE  /\ EventAlone /\ AtHand = cur /\ ~Idle /\ file \in Files /\ db[file] \in FileRow
         /\ FailureFits /\ db[file].status \in BusyStatuses
         /\ \/ AuditRun /\ commands = << >> /\ cur.msg = "SchemaDriftDetected"
            \/ \E t \in content[file].types :
                 /\ BatchRun(t)
                 /\ cur.msg \in DOMAIN FailureDirectory =>
                      t \in Misregistered \/ db[file].status = "FINISHING"
                 /\ cur.msg = "FileSuccessfullyProcessed" => db[file].status = "PERSISTING"
<1>1. /\ EventAlone /\ AtHand = cur /\ ~Idle /\ file \in Files /\ FailureFits
      /\ AuditRun \/ \E t \in content[file].types : BatchRun(t)
  BY RunCases DEF RunInvariant
<1>2. db[file] \in FileRow
  BY RunHasRow
<1>3. cur.msg \in {"SchemaDriftDetected", "FileProcessingAborted", "FileSuccessfullyProcessed"}
  BY DEF FinishingMessages, FailureDirectory
<1>4. AuditRun => /\ commands = << >> /\ cur.msg = "SchemaDriftDetected"
                  /\ db[file].status \in BusyStatuses
  BY <1>1, <1>3 DEF AuditRun, AuditStatuses, BusyStatuses, NoMsg
<1>5. ASSUME NEW t, BatchRun(t)
      PROVE  /\ db[file].status \in BusyStatuses
             /\ cur.msg \in DOMAIN FailureDirectory =>
                  t \in Misregistered \/ db[file].status = "FINISHING"
             /\ cur.msg = "FileSuccessfullyProcessed" => db[file].status = "PERSISTING"
  BY <1>1, <1>3, <1>5 DEF BatchRun, HandFits, BatchStatuses, BusyStatuses, FailureDirectory
<1> QED BY <1>1, <1>2, <1>4, <1>5

\* The file is moved before anything is committed.
LEMMA MoveRun ==
  ASSUME TypeOK, RunInvariant, UNCHANGED content, file_completed_moves \/ failed_file_moves
  PROVE  RunInvariant'
<1>1. PICK d : /\ disk' = [disk EXCEPT ![file] = d]
               /\ cur.msg \in DOMAIN FailureDirectory => d = FailureDirectory[cur.msg]
               /\ cur.msg = "FileSuccessfullyProcessed" => d = Destination(file)
               /\ cur.msg \in FinishingMessages /\ Continue(2)
               /\ UNCHANGED <<tables, locks, mishaps>>
  <2>1. CASE file_completed_moves
    BY <2>1 DEF file_completed_moves, Handling, Move, Destination, FinishingMessages,
                FailureDirectory
  <2>2. CASE failed_file_moves
    BY <2>2 DEF failed_file_moves, Move, FinishingMessages, FailureDirectory
  <2> QED BY <2>1, <2>2
<1>2. cur # NoMsg
  BY <1>1 DEF FinishingMessages, FailureDirectory, NoMsg
<1>3. /\ EventAlone' /\ AtHand = cur /\ AtHand' = cur /\ ~Idle /\ ~Idle'
      /\ UNCHANGED <<file, cur, commands, db, entities, quarantine, mishaps>> /\ step' = 2
      /\ file \in Files
  BY <1>1, <1>2, FinishingStarts, ContinueHand DEF tables
<1>4. disk'[file] = d /\ \A g \in Files : g # file => disk'[g] = disk[g]
  BY <1>1, <1>3 DEF TypeOK, TablesOK
<1>5. FilesFit' /\ ~Unclaimed(file)'
  <2>1. OthersUnchanged
    BY <1>3, <1>4 DEF OthersUnchanged
  <2> QED BY <1>1, <1>2, <1>3, <2>1, FinishingStarts, BusyFits
<1>6. FailureFits'
  BY <1>1, <1>2, <1>3, <1>4, FinishingStarts DEF FailureFits
<1>7. CASE AuditRun /\ cur.msg = "SchemaDriftDetected" /\ commands = << >>
  <2>1. AuditRun'
    BY <1>3, <1>7 DEF AuditRun
  <2> QED BY <1>3, <1>5, <1>6, <2>1 DEF RunInvariant, RunFits
<1>8. ASSUME NEW t \in content[file].types, BatchRun(t)
      PROVE  RunInvariant'
  <2>1. HandFits(t)'
    <3>1. CASE cur.msg = "FileSuccessfullyProcessed"
      BY <1>1, <1>3, <1>4, <1>8, <3>1 DEF BatchRun, HandFits, Destination, ReadAs
    <3>2. CASE cur.msg \in {"SchemaDriftDetected", "FileProcessingAborted"}
      BY <1>3, <1>8, <3>2 DEF BatchRun, HandFits
    <3> QED BY <1>1, <3>1, <3>2 DEF FinishingMessages, FailureDirectory
  <2>2. BatchRun(t)'
    <3>1. UNCHANGED <<content, tables, file, commands>> /\ AtHand' = AtHand
      BY <1>1, <1>3
    <3> QED BY <1>3, <1>8, <2>1, <3>1, BatchRunStays
  <2> QED BY <1>3, <1>5, <1>6, <1>8, <2>2 DEF RunInvariant, RunFits
<1> QED BY <1>1, <1>2, <1>7, <1>8, FinishingStarts

LEMMA CleanUpRun ==
  ASSUME TypeOK, RunInvariant, UNCHANGED content, clean_up
  PROVE  RunInvariant'
<1>1. /\ cur # NoMsg /\ cur.msg \in DOMAIN FailureDirectory /\ cur.msg \in FinishingMessages
      /\ step = 2 /\ Continue(3) /\ UNCHANGED <<db, disk, locks, mishaps>>
      /\ entities' = [entities EXCEPT ![file] = {}] /\ quarantine' = WithoutRowsOf(file)
  BY DEF clean_up, FinishingMessages, FailureDirectory, NoMsg
<1>2. /\ EventAlone' /\ AtHand = cur /\ AtHand' = cur /\ ~Idle /\ ~Idle'
      /\ UNCHANGED <<file, cur, commands, db, disk, mishaps>> /\ step' = 3
      /\ file \in Files
  BY <1>1, FinishingStarts, ContinueHand
<1>3. entities[file] = {} /\ disk[file] = FailureDirectory[cur.msg]
  BY <1>1, <1>2, FinishingStarts DEF FailureFits
<1>4. entities' = entities
  BY <1>1, <1>2, <1>3 DEF TypeOK, TablesOK
<1>5. OwnsNothing(file)'
  BY <1>1, <1>2, FilesAssumption DEF OwnsNothing, WithoutRowsOf
<1>6. FilesFit' /\ ~Unclaimed(file)'
  <2>1. OthersUnchanged
    BY <1>1, <1>2, <1>4 DEF OthersUnchanged, WithoutRowsOf
  <2> QED BY <1>1, <1>2, <2>1, FinishingStarts, BusyFits
<1>7. FailureFits'
  BY <1>2, <1>3, <1>4, <1>5 DEF FailureFits
<1>8. CASE AuditRun /\ cur.msg = "SchemaDriftDetected" /\ commands = << >>
  <2>1. AuditRun'
    BY <1>2, <1>4, <1>8 DEF AuditRun
  <2> QED BY <1>2, <1>6, <1>7, <2>1 DEF RunInvariant, RunFits
<1>9. ASSUME NEW t \in content[file].types, BatchRun(t),
             t \in Misregistered \/ db[file].status = "FINISHING"
      PROVE  RunInvariant'
  <2>1. QueueFits(t)' /\ StoredFits(t)'
    BY <1>2, <1>4, <1>9 DEF BatchRun, QueueFits, StoredFits, AllSaves, ReadAs
  <2>2. ChecksFit(t)'
    BY <1>2, <1>9 DEF ChecksFit, BatchStatuses
  <2>3. HandFits(t)'
    <3>1. cur.msg \in {"SchemaDriftDetected", "FileProcessingAborted"}
      BY <1>1 DEF FailureDirectory
    <3> QED BY <1>2, <1>4, <1>9, <3>1 DEF BatchRun, HandFits
  <2> QED BY <1>2, <1>6, <1>7, <1>9, <2>1, <2>2, <2>3, BatchGoesOn
<1> QED BY <1>1, <1>8, <1>9, FinishingStarts

\* The status at the end; the commands that still wait find it.
LEMMA SettledRun ==
  ASSUME TypeOK, RunInvariant, UNCHANGED content, cur # NoMsg, cur.msg \in FinishingMessages,
         NEW row, Commit(row), Reply(<< >>, << >>),
         UNCHANGED <<entities, quarantine, disk, mishaps>>,
         row.status \in {"PROCESSED_CLEAN", "PROCESSED_W_QUARANTINE",
                         "FAILURE_SCHEMA", "REJECTED"},
         row.expected_batches = db[file].expected_batches,
         row.completed_batches = db[file].completed_batches,
         \A f \in Files : f = file => FileFits(f)'
  PROVE  RunInvariant'
<1>1. /\ EventAlone' /\ AtHand' = NoMsg /\ UNCHANGED <<file, commands>>
      /\ Idle' <=> commands' = << >>
  <2>1. /\ EventAlone' /\ AtHand' = NoMsg /\ (Idle' <=> commands' = << >>)
        /\ commands' = commands \o << >> /\ file' = file
    BY FinishingStarts, ReplyHand
  <2> QED BY <2>1 DEF TypeOK, ThreadOK
<1>2. db'[file] = row /\ (\A g \in Files : g # file => db'[g] = db[g]) /\ ~Idle
  BY CommitWrites, FinishingStarts
<1>3. FilesFit'
  <2>1. OthersUnchanged
    BY <1>2 DEF OthersUnchanged
  <2> QED BY <1>1, <1>2, <2>1, OthersFit DEF FilesFit
<1>4. ~Unclaimed(file)' /\ FailureFits'
  BY <1>1, <1>2 DEF Unclaimed, FailureFits, FailureDirectory, NoMsg
<1>5. CASE commands = << >>
  BY <1>1, <1>3, <1>5 DEF RunInvariant, RunFits
<1>6. ASSUME NEW t \in content[file].types, BatchRun(t)
      PROVE  RunInvariant'
  <2>1. QueueFits(t)'
    BY <1>1, <1>6 DEF BatchRun, QueueFits
  <2>2. StoredFits(t)'
    BY <1>1, <1>2, <1>6
       DEF BatchRun, StoredFits, AllSaves, ReadAs, WrongStatuses, TerminalStatuses
  <2>3. ChecksFit(t)' /\ HandFits(t)'
    BY <1>1, <1>2 DEF ChecksFit, HandFits, BatchStatuses, NoMsg
  <2> QED BY <1>1, <1>3, <1>4, <1>6, <2>1, <2>2, <2>3, BatchGoesOn
<1> QED BY <1>5, <1>6, FinishingStarts

LEMMA ResetMethod ==
  ASSUME NEW row \in FileRow
  PROVE  /\ reset(row) \in FileRow
         /\ reset(row).quarantined_rows = 0 /\ reset(row).total_processed_rows = 0
         /\ reset(row).expected_batches = row.expected_batches
         /\ reset(row).completed_batches = row.completed_batches
BY DEF reset, FileRow

LEMMA FailedRun ==
  ASSUME TypeOK, RunInvariant, UNCHANGED content,
         handle_schema_drift \/ handle_processing_aborted
  PROVE  RunInvariant'
<1> DEFINE done == IF cur.msg = "SchemaDriftDetected"
                   THEN failure_schema(reset(db[file])) ELSE reject(reset(db[file]))
<1>1. /\ cur # NoMsg /\ cur.msg \in DOMAIN FailureDirectory /\ cur.msg \in FinishingMessages
      /\ step = 3 /\ Commit(done) /\ Reply(<< >>, << >>)
      /\ UNCHANGED <<entities, quarantine, disk, locks, mishaps>>
  BY DEF handle_schema_drift, handle_processing_aborted, Handling, FinishingMessages,
         FailureDirectory, NoMsg
<1>2. PICK row : row = done
  OBVIOUS
<1>3. /\ row.status = IF cur.msg = "SchemaDriftDetected" THEN "FAILURE_SCHEMA" ELSE "REJECTED"
      /\ row.quarantined_rows = 0 /\ row.total_processed_rows = 0
      /\ row.expected_batches = db[file].expected_batches
      /\ row.completed_batches = db[file].completed_batches
  <2>1. /\ reset(db[file]) \in FileRow
        /\ reset(db[file]).quarantined_rows = 0 /\ reset(db[file]).total_processed_rows = 0
        /\ reset(db[file]).expected_batches = db[file].expected_batches
        /\ reset(db[file]).completed_batches = db[file].completed_batches
    BY <1>1, FinishingStarts, ResetMethod
  <2> QED BY <1>2, <2>1, StatusMethods DEF OnlyStatus
<1>4. entities[file] = {} /\ disk[file] = FailureDirectory[cur.msg] /\ OwnsNothing(file)
  BY <1>1, FinishingStarts DEF FailureFits
<1>5. db'[file] = row
  BY <1>1, <1>2, CommitWrites
<1>6. ASSUME NEW f \in Files, f = file
      PROVE  FileFits(f)'
  <2>1. NothingLeft(f)'
    BY <1>1, <1>3, <1>4, <1>5, <1>6 DEF NothingLeft, OwnsNothing
  <2> QED BY <1>1, <1>3, <1>4, <1>5, <1>6, <2>1
          DEF FileFits, Unclaimed, Processed, FailureDirectory
<1>7. Commit(row)
  BY <1>1, <1>2
<1> QED BY <1>1, <1>3, <1>6, <1>7, SettledRun

LEMMA ProcessedRun ==
  ASSUME TypeOK, RunInvariant, UNCHANGED content, file_completed_handler
  PROVE  RunInvariant'
<1> DEFINE done == IF db[file].quarantined_rows = 0
                   THEN clean_processed(db[file]) ELSE quarantine_processed(db[file])
<1>1. /\ cur # NoMsg /\ cur.msg = "FileSuccessfullyProcessed" /\ cur.msg \in FinishingMessages
      /\ step = 2 /\ Commit(done) /\ Reply(<< >>, << >>)
      /\ UNCHANGED <<entities, quarantine, disk, locks, mishaps>>
  BY DEF file_completed_handler, Handling, FinishingMessages, NoMsg
<1>2. PICK row : row = done
  OBVIOUS
<1>3. /\ row.status = IF db[file].quarantined_rows = 0
                      THEN "PROCESSED_CLEAN" ELSE "PROCESSED_W_QUARANTINE"
      /\ row.quarantined_rows = db[file].quarantined_rows
      /\ row.total_rows = db[file].total_rows
      /\ row.expected_batches = db[file].expected_batches
      /\ row.completed_batches = db[file].completed_batches
  BY <1>1, <1>2, FinishingStarts, StatusMethods DEF OnlyStatus
<1>4. db'[file] = row /\ file' = file /\ ~Idle
  BY <1>1, <1>2, CommitWrites, FinishingStarts DEF Reply
<1>5. PICK t \in content[file].types : BatchRun(t) /\ db[file].status = "PERSISTING"
  BY <1>1, FinishingStarts
<1>6. /\ entities[file] = {t} \X DOMAIN ReadAs(t).batches /\ entities[file] # {}
      /\ disk[file] = Destination(file)
      /\ t \notin Misregistered
  BY <1>1, <1>5, FinishingStarts DEF BatchRun, HandFits, StoredFits
<1>7. /\ RejectsKept(file, ReadAs(t).hashes)
      /\ \A k \in DOMAIN ReadAs(t).batches : BatchChecked(file, t, k)
  BY <1>5, <1>6 DEF BatchRun, ChecksFit, BatchStatuses
<1>8. WithinThreshold(file)
  BY <1>6, <1>7 DEF BatchChecked
<1>9. /\ \A H : RejectsKept(file, H) => RejectsKept(file, H)'
      /\ \A k : BatchChecked(file, t, k) => BatchChecked(file, t, k)'
  <2>1. \A h : Kept(file, h) => Kept(file, h)'
    BY <1>1, <1>3, <1>4, CommitWrites DEF Kept, Unclaimed
  <2> QED BY <1>3, <1>4, <2>1, ChecksSurvive
<1>10. ASSUME NEW f \in Files, f = file
       PROVE  FileFits(f)'
  <2>1. /\ StoredAs(f, t)' /\ WithinThreshold(f)'
    BY <1>1, <1>3, <1>4, <1>6, <1>8, <1>10 DEF StoredAs, WithinThreshold, ReadAs
  <2>2. /\ RejectsKept(f, content[f].readings[t].hashes)'
        /\ \A k \in DOMAIN content[f].readings[t].batches : BatchChecked(f, t, k)'
    <3>1. /\ RejectsKept(file, ReadAs(t).hashes)'
          /\ \A k \in DOMAIN ReadAs(t).batches : BatchChecked(file, t, k)'
      <4>1. PICK H : H = ReadAs(t).hashes
        OBVIOUS
      <4>2. RejectsKept(file, H)'
        BY <1>7, <1>9, <4>1
      <4> QED BY <1>4, <1>7, <1>9, <4>1, <4>2 DEF ReadAs
    <3> QED BY <1>4, <1>10, <3>1 DEF ReadAs
  <2>3. StoredWhole(f, t)'
    BY <2>1, <2>2 DEF StoredWhole
  <2>4. \E u \in content'[f].types : StoredWhole(f, u)'
    BY <1>5, <1>10, <2>3
  <2> QED BY <1>1, <1>3, <1>4, <1>6, <1>10, <2>4 DEF FileFits, Unclaimed, Processed, Destination
<1>11. Commit(row)
  BY <1>1, <1>2
<1> QED BY <1>1, <1>3, <1>10, <1>11, SettledRun

LEMMA SystemFaultRun ==
  ASSUME TypeOK, RunInvariant, UNCHANGED content, handle_system_fault
  PROVE  RunInvariant'
<1>1. /\ cur # NoMsg /\ ReplyAndPurge /\ UNCHANGED <<db, entities, quarantine, mishaps>>
      /\ disk' = MovedToSystemFailure(file) /\ ~Idle /\ file \in Files /\ ~Unclaimed(file)
  BY RunCases DEF handle_system_fault, Handling, NoMsg, tables
<1>2. Idle' /\ EventAlone' /\ file' = file
  BY <1>1 DEF ReplyAndPurge, Idle, EventAlone
<1>3. \A g \in Files : disk'[g] = IF g = file /\ disk[g] = "processing"
                                  THEN "system_failure" ELSE disk[g]
  BY <1>1 DEF MovedToSystemFailure, TypeOK, TablesOK
<1>4. OthersUnchanged
  BY <1>1, <1>3 DEF OthersUnchanged
<1>5. ASSUME NEW f \in Files, f = file
      PROVE  FileFits(f)'
  <2>1. FileFits(f)
    BY DEF RunInvariant, FilesFit
  <2>2. CASE disk[f] = "processing"
    <3>1. /\ db'[f] = db[f] /\ entities'[f] = entities[f] /\ disk'[f] = "system_failure"
          /\ mishaps' = mishaps /\ ~Unclaimed(f)
      BY <1>1, <1>3, <1>5, <2>2
    <3> QED BY <2>1, <2>2, <3>1 DEF FileFits, Unclaimed, Processed, Destination
  <2>3. CASE disk[f] # "processing"
    <3>1. \A h \in Rows : Kept(f, h) => Kept(f, h)'
      BY <1>1, <1>2, <1>5 DEF Kept, Unclaimed
    <3>2. FileUntouched(f)
      BY <1>1, <1>3, <2>3, <3>1 DEF FileUntouched, OwnsNothing
    <3> QED BY <2>1, <3>2, FileStays
  <2> QED BY <2>2, <2>3
<1>6. FilesFit'
  BY <1>1, <1>2, <1>4, <1>5, OthersFit DEF FilesFit
<1> QED BY <1>2, <1>6 DEF RunInvariant, RunFits

LEMMA FinishingKeepsRun ==
  ASSUME TypeOK, RunInvariant, UNCHANGED content, FinishingStep
  PROVE  RunInvariant'
<1>1. CASE move_finds_no_file
  BY <1>1, RunDrops DEF move_finds_no_file, FailureDirectory, NoMsg
<1> QED BY <1>1, MoveRun, CleanUpRun, FailedRun, ProcessedRun, SystemFaultRun DEF FinishingStep

(***************************************************************************)
(* The invariant.                                                          *)
(***************************************************************************)
LEMMA InitRun ==
  ASSUME Init
  PROVE  RunInvariant
<1>1. Idle /\ EventAlone
  BY DEF Init, Idle, EventAlone
<1>2. ASSUME NEW f \in Files
      PROVE  FileFits(f)
  <2>1. OwnsNothing(f)
    BY FilesAssumption DEF Init, OwnsNothing
  <2> QED BY <2>1 DEF Init, FileFits, AbsentFile, Unclaimed, Untouched, Processed
<1> QED BY <1>1, <1>2 DEF RunInvariant, RunFits, FilesFit

LEMMA StutterKeepsRun ==
  ASSUME TypeOK, RunInvariant, UNCHANGED vars
  PROVE  RunInvariant'
<1>1. UNCHANGED <<content, db, entities, quarantine, disk, locks, file, cur, step, attempt,
                  commands, events, mishaps>>
  BY DEF vars, tables, thread
<1>2. EventAlone' /\ AtHand' = AtHand /\ (Idle <=> Idle')
  BY <1>1 DEF RunInvariant, EventAlone, AtHand, Idle
<1>3. \A f, h : Kept(f, h) => Kept(f, h)'
  BY <1>1, <1>2 DEF Kept, Unclaimed
<1>4. FilesFit'
  <2>1. ASSUME NEW f \in Files
        PROVE  FileUntouched(f)
    BY <1>1, <1>3 DEF FileUntouched, OwnsNothing
  <2> QED BY <1>1, <2>1, FileStays DEF RunInvariant, FilesFit
<1>5. ASSUME ~Idle
      PROVE  RunFits'
  <2>1. ~Unclaimed(file)' /\ FailureFits'
    BY <1>1, <1>2, <1>5 DEF RunInvariant, RunFits, Unclaimed, FailureFits, OwnsNothing
  <2>2. CASE AuditRun
    <3>1. AuditCounts => AuditCounts'
      BY <1>1, <1>2, <1>3 DEF AuditCounts, ReadAs, PassesAudit, RejectsKept
    <3>2. AuditRun'
      BY <1>1, <1>2, <2>2, <3>1 DEF AuditRun, AuditFits
    <3> QED BY <2>1, <3>2 DEF RunFits
  <2>3. ASSUME NEW t \in content[file].types, BatchRun(t)
        PROVE  RunFits'
    <3>1. HandFits(t)'
      BY <1>1, <1>2, <2>3 DEF BatchRun, HandFits, AllSaves, Destination, ReadAs
    <3>2. UNCHANGED <<content, tables, file, commands>>
      BY <1>1 DEF tables
    <3>3. BatchRun(t)'
      BY <1>2, <1>5, <2>3, <3>1, <3>2, BatchRunStays
    <3> QED BY <1>1, <2>1, <2>3, <3>3 DEF RunFits
  <2> QED BY <1>5, <2>2, <2>3 DEF RunInvariant, RunFits
<1> QED BY <1>2, <1>4, <1>5 DEF RunInvariant, RunFits

LEMMA NextKeepsRun ==
  ASSUME TypeOK, RunInvariant, [Next]_vars
  PROVE  RunInvariant'
<1>1. CASE UNCHANGED vars
  BY <1>1, StutterKeepsRun
<1>2. CASE Next
  <2>1. UNCHANGED content
    BY <1>2 DEF Next
  <2>2. CASE no_handler
    BY <2>1, <2>2, RunDrops DEF no_handler, Handling, NoMsg
  <2>3. CASE BusStep
    BY <2>1, <2>2, <2>3, EventIsTaken, CommandIsTaken DEF BusStep
  <2>4. CASE Faults
    BY <2>1, <2>4, FaultsKeepRun, PersistRun, StagingKeepsRun DEF Faults
  <2> QED BY <1>2, <2>1, <2>3, <2>4, DispatchStartsRun, StagingKeepsRun, AuditKeepsRun,
             ValidationKeepsRun, PersistenceKeepsRun, FinishingKeepsRun DEF Next, Dispatcher
<1> QED BY <1>1, <1>2

\* The queues of the bus, the row of the file of the run and the tables fit together in
\* every state, whatever fails: module PipelineInvariant says how.
THEOREM RunIsConsistent == Spec => []RunInvariant
<1>1. Init => RunInvariant
  BY InitRun
<1>2. TypeOK /\ RunInvariant /\ [Next]_vars => RunInvariant'
  BY NextKeepsRun
<1> QED BY <1>1, <1>2, TypeCorrect, PTL DEF Spec
===============================================================================

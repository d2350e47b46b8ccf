--------------------------------- MODULE Lead ---------------------------------
(***************************************************************************)
(* The Lead aggregate root (src/leads/domain.py) with its history of       *)
(* snapshots: one row of the table "leads" and the rows of                 *)
(* "lead_snapshots" that refer to it.  A method is an operator from the    *)
(* lead before the call to the lead after it, or to the set of the leads   *)
(* it may give.                                                            *)
(*                                                                         *)
(* Of the fields of LeadData the model keeps those that decide something;  *)
(* the e-mail address, whose hash identifies the lead, is the key under    *)
(* which module Records keeps it.  custos_timestamp decides nothing.       *)
(***************************************************************************)
EXTENDS Integers

CONSTANTS
  Files,    \* the files leads come from
  NoFile,   \* not a file
  Sectors   \* the sectors leads belong to

LeadStatus == {"NEW", "MQL", "CONTACTED", "QUALIFIED", "REJECTED"}

LeadData ==
  [incoming_timestamp : Nat, status : LeadStatus, score : Nat, sector : Sectors]

LeadSnapshot == [source_file_id : Files, data : LeadData]

\* data is the lead's own fields; updates is a set, because the history is loaded in
\* no particular order.
LeadRow ==
  [id : Nat \ {0}, source_file_id : Files, data : LeadData, updates : SUBSET LeadSnapshot]

\* An address the table has no row for.
NoLead == [id |-> 0]
Exists(lead) == lead # NoLead

Snapshot(file_id, data) == [source_file_id |-> file_id, data |-> data]

marketing_qualify(data) ==
  IF data.score >= 50 /\ data.status = "NEW" THEN [data EXCEPT !.status = "MQL"] ELSE data

\* Lead.__init__ and SQLAlchemyLeadsRepository.add, which qualifies and gives the id.
NewLead(id, file_id, dto) ==
  [id |-> id, source_file_id |-> file_id, data |-> marketing_qualify(dto), updates |-> {}]

\* A row of "lead_snapshots" is added unless the lead has one of the same file and time.
AddSnapshot(updates, new) ==
  IF \E u \in updates : /\ u.source_file_id = new.source_file_id
                        /\ u.data.incoming_timestamp = new.data.incoming_timestamp
  THEN updates
  ELSE updates \cup {new}

\* Slip: whatever comes last is taken for the newest.
apply_update_in_order_of_arrival(lead, file_id, dto) ==
  [lead EXCEPT !.data = marketing_qualify(dto),
               !.updates = AddSnapshot(@, Snapshot(file_id, dto))]

\* Lead.apply_update and SQLAlchemyLeadsRepository.update: every update is kept, and
\* one that is strictly newer becomes the lead's own data.
apply_update(lead, file_id, dto) ==
  LET newest == IF dto.incoming_timestamp > lead.data.incoming_timestamp THEN dto ELSE lead.data
  IN  [lead EXCEPT !.data = marketing_qualify(newest),
                   !.updates = AddSnapshot(@, Snapshot(file_id, dto))]

UpdatesOfOthers(lead, file_id) == {u \in lead.updates : u.source_file_id # file_id}

\* sorted() and reversed() leave open which of several snapshots of one time comes first.
NewBases(lead, file_id) ==
  {u \in UpdatesOfOthers(lead, file_id) :
     \A v \in UpdatesOfOthers(lead, file_id) :
       v.data.incoming_timestamp <= u.data.incoming_timestamp}

\* rollback, and what delete_by_source_file does with its result.
rollback(lead, file_id) ==
  IF UpdatesOfOthers(lead, file_id) = {}
  THEN {NoLead}
  ELSE {[lead EXCEPT !.source_file_id = u.source_file_id,
                     !.data = marketing_qualify(u.data),
                     !.updates = UpdatesOfOthers(lead, file_id)] :
          u \in NewBases(lead, file_id)}
===============================================================================

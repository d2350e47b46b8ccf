------------------------------- MODULE Records --------------------------------
(***************************************************************************)
(* What persist_to_database, clean_up and handle_mql_alerts do to the      *)
(* tables of leads, sales and alerts, row by row: the inside of the        *)
(* actions persist_to_database and clean_up of module Pipeline.            *)
(*                                                                         *)
(* One thread persists the batches of one file after another.  A batch is  *)
(* a unit of work: a SQLAlchemy session with what it has flushed, what it  *)
(* has not (autoflush is off, so no query sees that), and the caches of    *)
(* its repositories.  Nobody else sees any of it before the commit, and    *)
(* all of it goes when the database refuses an operation.  Another thread  *)
(* may run handle_mql_alerts at any time between two steps.                *)
(*                                                                         *)
(* A definition under a comment "Slip: ..." is a plausible mistake in the  *)
(* definition that follows it; the specification uses none of them.        *)
(***************************************************************************)
EXTENDS Lead, Sequences, FiniteSets

CONSTANTS
  Emails,        \* the addresses of leads
  Skus,          \* keys of the table "dim_products"
  Customers,     \* keys of the table "dim_customers"
  Dates,         \* keys of the table "dim_dates", and ids there
  Transactions,  \* transaction ids of sales
  Team,          \* the sectors of each member of the table "lead_alerts_team"
  Contents,      \* what the files may hold
  MaxMishaps     \* bound on the faults, of all kinds together

LeadDTO == [email : Emails, data : LeadData]

SalesDTO ==
  [transaction_id : Transactions, sku : Skus, customer : Customers, date : Dates,
   quantity_sold : Nat]

\* A file as validation leaves it: batches of accepted rows, all of one type.
FileContent ==
  [type : {"leads"}, batches : Seq(Seq(LeadDTO))] \cup [type : {"sales"}, batches : Seq(Seq(SalesDTO))]

ASSUME ContentsAssumption == Contents \subseteq [Files -> FileContent]
ASSUME TeamAssumption     == Team \in Seq(SUBSET Sectors) /\ "Other" \in Sectors
ASSUME NoFileAssumption   == NoFile \notin Files
ASSUME KeysAssumption ==
  /\ Skus \cap Customers = {} /\ Skus \cap Dates = {} /\ Customers \cap Dates = {}
  /\ Dates \cap Nat = {}
ASSUME BoundsAssumption == MaxMishaps \in Nat

-------------------------------------------------------------------------------
VARIABLES
  content,  \* the content of each file, fixed
  status,   \* of each file: "PENDING", "BUSY", "PROCESSED" or "FAILED"
  file,     \* the file in hand; a file that stays busy without being in hand is stuck
  begun,    \* the files in the order they were dispatched
  done,     \* how many batches of each file are committed
  db,       \* the tables: leads, facts, and the ids of the dimensions' rows
  uow,      \* the session of the batch in hand, and its repositories
  attempt,  \* the attempt of with_infrastructure_safety
  serial,   \* the next id a sequence of the database gives; a rollback takes none back
  alerts,   \* the lead ids in the table "lead_alerts"
  outbox,   \* the e-mails in outgoing_alerts/: the lead ids each one speaks of
  job,      \* the run of handle_mql_alerts
  mishaps   \* how many faults of each kind there were

progress == <<status, file, begun, done>>
session  == <<uow, attempt, serial>>
alerting == <<alerts, outbox, job>>
vars     == <<content, progress, db, session, alerting, mishaps>>

DimKeys == Skus \cup Customers \cup Dates
NoDims  == [key \in DimKeys |-> 0]

NoUow == [open |-> FALSE]
NoJob == [at |-> "idle"]

Init ==
  /\ content \in Contents
  /\ status = [f \in Files |-> "PENDING"]
  /\ file = NoFile
  /\ begun = << >>
  /\ done = [f \in Files |-> 0]
  /\ db = [leads |-> [e \in Emails |-> NoLead], facts |-> << >>, dims |-> NoDims]
  /\ uow = NoUow
  /\ attempt = 1
  /\ serial = 1
  /\ alerts = {}
  /\ outbox = << >>
  /\ job = NoJob
  /\ mishaps = [outages |-> 0, crashes |-> 0, unsent |-> 0]

\* "outages" are refused or unanswered operations, "unsent" e-mails that cannot be written.
Mishap(kind) ==
  /\ mishaps.outages + mishaps.crashes + mishaps.unsent < MaxMishaps
  /\ mishaps' = [mishaps EXCEPT ![kind] = @ + 1]

-------------------------------------------------------------------------------
\* The scheduler's claim, the audit and the validation: the batches can be persisted.
dispatch_pending_files(f) ==
  /\ \A g \in Files : status[g] # "BUSY"
  /\ status[f] = "PENDING"
  /\ status' = [status EXCEPT ![f] = "BUSY"]
  /\ file' = f
  /\ begun' = Append(begun, f)
  /\ UNCHANGED <<done, db, session, alerting, mishaps>>

Batches == content[file].batches

\* uow_factory(): a session that sees what is committed, and repositories with
\* empty caches.
NewUow(batch, tables, next_id) ==
  [open |-> TRUE, batch |-> batch, rows |-> Batches[batch], tables |-> tables,
   pending |-> << >>, seen_sales |-> {}, seen_dims |-> NoDims, next_id |-> next_id]

persist_to_database ==
  /\ file # NoFile
  /\ ~uow.open
  /\ done[file] < Len(Batches)
  /\ uow' = NewUow(done[file] + 1, db, serial)
  /\ UNCHANGED <<progress, db, attempt, serial, alerting, mishaps>>

dto == Head(uow.rows)

NextRow(type) == uow.open /\ uow.rows # << >> /\ content[file].type = type

\* Leads allow updates: a row adds its lead if there is none, and is applied to it.
persist_lead ==
  /\ NextRow("leads")
  /\ LET found  == uow.tables.leads[dto.email]
         entity == IF Exists(found) THEN found ELSE NewLead(uow.next_id, file, dto.data)
     IN  uow' = [uow EXCEPT !.rows = Tail(@),
                            !.tables.leads[dto.email] = apply_update(entity, file, dto.data),
                            !.next_id = IF Exists(found) THEN @ ELSE @ + 1]
  /\ UNCHANGED <<progress, db, attempt, serial, alerting, mishaps>>

(***************************************************************************)
(* Sales allow none: the first row of a transaction and SKU is kept.       *)
(* seen_in_batch is left out: what is in it is in seen_sales or was        *)
(* already stored.                                                         *)
(***************************************************************************)
DimId(u, key) == IF u.seen_dims[key] # 0 THEN u.seen_dims[key] ELSE u.tables.dims[key]

Flushed(u) ==
  [u EXCEPT !.tables.facts = @ \o u.pending, !.pending = << >>]

\* Slip: a date is numbered as products and customers are.
NewDimId_by_sequence(u, key) == u.next_id

\* get_or_create_product and get_or_create_customer let a sequence give the id;
\* get_or_create_date makes it from the date.
NewDimId(u, key) == IF key \in Dates THEN key ELSE u.next_id

\* The flush takes all that is pending.
get_or_create(u, key) ==
  IF DimId(u, key) # 0
  THEN u
  ELSE LET id == NewDimId(u, key)
       IN  [Flushed(u) EXCEPT !.tables.dims[key] = id,
                              !.seen_dims[key] = id,
                              !.next_id = IF key \in Dates THEN @ ELSE @ + 1]

\* Slip: the SKU is not part of the identifier.
check_exists_by_transaction(u, transaction_id, sku) ==
  \/ \E key \in Skus : <<transaction_id, key>> \in u.seen_sales
  \/ \E k \in DOMAIN u.tables.facts : u.tables.facts[k].transaction_id = transaction_id

check_exists(u, transaction_id, sku) ==
  \/ <<transaction_id, sku>> \in u.seen_sales
  \/ \E k \in DOMAIN u.tables.facts :
       /\ u.tables.facts[k].transaction_id = transaction_id
       /\ u.tables.facts[k].product_id = u.tables.dims[sku]

\* With the dimensions in place the product is looked up again by its id; a sale
\* whose product is not there is dropped.
add(u, sale) ==
  LET v == get_or_create(get_or_create(get_or_create(u, sale.sku), sale.customer), sale.date)
      fact == [source_file_id |-> file, transaction_id |-> sale.transaction_id,
               product_id |-> DimId(v, sale.sku), customer_id |-> DimId(v, sale.customer),
               date_id |-> DimId(v, sale.date), quantity_sold |-> sale.quantity_sold]
  IN  IF \E sku \in Skus : v.tables.dims[sku] = fact.product_id
      THEN [v EXCEPT !.pending = Append(@, fact),
                     !.seen_sales = @ \cup {<<sale.transaction_id, sale.sku>>}]
      ELSE v

persist_sale ==
  /\ NextRow("sales")
  /\ LET known == check_exists(uow, dto.transaction_id, dto.sku)
     IN  uow' = [(IF known THEN uow ELSE add(uow, dto)) EXCEPT !.rows = Tail(@)]
  /\ UNCHANGED <<progress, db, attempt, serial, alerting, mishaps>>

CloseUow(next_id) == uow' = NoUow /\ attempt' = 1 /\ serial' = next_id

SessionIsCommitted ==
  /\ uow.open
  /\ uow.rows = << >>
  /\ db' = Flushed(uow).tables
  /\ done' = [done EXCEPT ![file] = uow.batch]

commit ==
  /\ SessionIsCommitted
  /\ CloseUow(uow.next_id)
  /\ UNCHANGED <<status, file, begun, alerting, mishaps>>

Settle(new_status) ==
  /\ status' = [status EXCEPT ![file] = new_status]
  /\ file' = NoFile

file_completed_handler ==
  /\ file # NoFile
  /\ ~uow.open
  /\ done[file] = Len(Batches)
  /\ Settle("PROCESSED")
  /\ UNCHANGED <<begun, done, db, session, alerting, mishaps>>

-------------------------------------------------------------------------------
(***************************************************************************)
(* clean_up rolls the file in hand back, with any number of its batches    *)
(* committed, in one transaction.  (In Pipeline that number is always      *)
(* zero; the repositories promise more.)  It raises, and the file stays    *)
(* busy, when the file has a sale, because session.delete is handed a      *)
(* generator, or when a lead that must go is referred to by an alert.      *)
(***************************************************************************)
get_by_source_file(file_id) ==
  {e \in Emails :
     /\ Exists(db.leads[e])
     /\ \/ db.leads[e].source_file_id = file_id
        \/ \E u \in db.leads[e].updates : u.source_file_id = file_id}

\* The outcomes of delete_by_source_file for one address.
LeadsAfter(e, file_id) ==
  IF e \in get_by_source_file(file_id) THEN rollback(db.leads[e], file_id) ELSE {db.leads[e]}

CannotDelete ==
  \/ \E k \in DOMAIN db.facts : db.facts[k].source_file_id = file
  \/ \E e \in get_by_source_file(file) :
       UpdatesOfOthers(db.leads[e], file) = {} /\ db.leads[e].id \in alerts

clean_up ==
  /\ file # NoFile
  /\ ~uow.open
  /\ ~CannotDelete
  /\ \E leads \in [Emails -> UNION {LeadsAfter(e, file) : e \in Emails}] :
       /\ \A e \in Emails : leads[e] \in LeadsAfter(e, file)
       /\ db' = [db EXCEPT !.leads = leads]
  /\ done' = [done EXCEPT ![file] = 0]
  /\ Settle("FAILED")
  /\ UNCHANGED <<begun, session, alerting, mishaps>>

\* A refused operation ends the same way: the retry cannot move the file again.
clean_up_raises ==
  /\ file # NoFile
  /\ ~uow.open
  /\ \/ CannotDelete /\ UNCHANGED mishaps
     \/ Mishap("outages")
  /\ file' = NoFile
  /\ UNCHANGED <<status, begun, done, db, session, alerting>>

-------------------------------------------------------------------------------
(***************************************************************************)
(* handle_mql_alerts: reads the team and the leads, writes an e-mail to    *)
(* each member with leads, and commits at the end which leads those were.  *)
(***************************************************************************)
Members == DOMAIN Team

\* own_dict: of the members with a sector the last one is left.
Owners(sector) == {m \in Members : sector \in Team[m] /\ \A n \in Members : sector \in Team[n] => n <= m}

Recipients(sector) == IF Owners(sector) # {} THEN Owners(sector) ELSE Owners("Other")

LeadIds == {db.leads[e].id : e \in {a \in Emails : Exists(db.leads[a])}}

\* Slip: no join with lead_alerts.
get_mql_leads_alerted_or_not == {e \in Emails : Exists(db.leads[e]) /\ db.leads[e].data.status = "MQL"}

get_mql_leads ==
  {e \in Emails :
     Exists(db.leads[e]) /\ db.leads[e].data.status = "MQL" /\ db.leads[e].id \notin alerts}

handle_mql_alerts ==
  /\ job = NoJob
  /\ get_mql_leads # {}
  /\ Members # {}
  /\ job' = [at |-> "sending", sent |-> {},
             todo |-> [m \in Members |->
                         {db.leads[e].id : e \in {a \in get_mql_leads :
                                                    m \in Recipients(db.leads[a].data.sector)}}]]
  /\ UNCHANGED <<progress, db, session, alerts, outbox, mishaps>>

\* Slip: the alert is recorded before it is known that the e-mail is written.
Unsent_recorded(m) == job' = [job EXCEPT !.todo[m] = {}, !.sent = @ \cup job.todo[m]]

Unsent(m) == job' = [job EXCEPT !.todo[m] = {}]

send_email(m) ==
  /\ job.at = "sending"
  /\ job.todo[m] # {}
  /\ outbox' = Append(outbox, job.todo[m])
  /\ job' = [job EXCEPT !.todo[m] = {}, !.sent = @ \cup job.todo[m]]
  /\ UNCHANGED <<progress, db, session, alerts, mishaps>>

\* The exception is logged, and the next member has its turn.
alert_email_failed(m) ==
  /\ job.at = "sending"
  /\ job.todo[m] # {}
  /\ Mishap("unsent")
  /\ Unsent(m)
  /\ UNCHANGED <<progress, db, session, alerts, outbox>>

AllSent == job.at = "sending" /\ \A m \in Members : job.todo[m] = {}

\* One refused row refuses them all: a lead may be gone by now.
commit_mql_alerts ==
  /\ AllSent
  /\ alerts' = IF job.sent \subseteq LeadIds THEN alerts \cup job.sent ELSE alerts
  /\ job' = NoJob
  /\ UNCHANGED <<progress, db, session, outbox, mishaps>>

\* Nothing runs handle_mql_alerts again.
mql_alerts_outage ==
  /\ AllSent
  /\ Mishap("outages")
  /\ job' = NoJob
  /\ UNCHANGED <<progress, db, session, alerts, outbox>>

-------------------------------------------------------------------------------
\* Slip: the repositories, and so their caches, outlive the session.
Retried_with_old_caches(tables) ==
  [NewUow(uow.batch, tables, uow.next_id) EXCEPT !.seen_dims = uow.seen_dims]

Retried(tables) == NewUow(uow.batch, tables, uow.next_id)

\* The handler begins anew with the tables as they are; the third time the file is
\* given up by a SystemFaultEvent and stays busy.
Again(tables) ==
  IF attempt < 3
  THEN /\ uow' = Retried(tables)
       /\ attempt' = attempt + 1
       /\ serial' = uow.next_id
       /\ UNCHANGED file
  ELSE CloseUow(uow.next_id) /\ file' = NoFile

operational_error ==
  /\ uow.open
  /\ Mishap("outages")
  /\ Again(db)
  /\ UNCHANGED <<status, begun, done, db, alerting>>

\* The connection breaks after the database has committed: the batch is not yet among
\* the completed ones, and its rows meet themselves.
commit_unanswered ==
  /\ SessionIsCommitted
  /\ Mishap("outages")
  /\ Again(db')
  /\ UNCHANGED <<status, begun, alerting>>

crash ==
  /\ file # NoFile \/ job # NoJob
  /\ Mishap("crashes")
  /\ file' = NoFile
  /\ CloseUow(IF uow.open THEN uow.next_id ELSE serial)
  /\ job' = NoJob
  /\ UNCHANGED <<status, begun, done, db, alerts, outbox>>

Scheduler ==
  \/ \E f \in Files : dispatch_pending_files(f)
  \/ persist_to_database \/ persist_lead \/ persist_sale \/ commit
  \/ file_completed_handler \/ clean_up \/ clean_up_raises

Alerter ==
  \/ handle_mql_alerts \/ commit_mql_alerts
  \/ \E m \in Members : send_email(m) \/ alert_email_failed(m)

Faults == operational_error \/ commit_unanswered \/ mql_alerts_outage \/ crash

Next == (Scheduler \/ Alerter \/ Faults) /\ UNCHANGED content

Spec == Init /\ [][Next]_vars
===============================================================================

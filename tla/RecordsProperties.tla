-------------------------- MODULE RecordsProperties ---------------------------
(***************************************************************************)
(* What the tables of leads, sales and alerts must hold.  The reference is *)
(* the log of the rows of all committed batches: what the tables hold      *)
(* must be a function of it, whatever the batches, the retries and the     *)
(* rollbacks it came about by.                                             *)
(***************************************************************************)
EXTENDS Records

Fact ==
  [source_file_id : Files, transaction_id : Transactions, product_id : Nat \ {0},
   customer_id : Nat \ {0}, date_id : Dates, quantity_sold : Nat]

\* A sequence numbers products and customers; a date is its own id.
DimIds(key) == IF key \in Dates THEN {0, key} ELSE Nat

DimsOK(dims) == DOMAIN dims = DimKeys /\ \A key \in DimKeys : dims[key] \in DimIds(key)

Dims   == [DimKeys -> Nat \cup Dates]
Tables == [leads : [Emails -> LeadRow \cup {NoLead}], facts : Seq(Fact), dims : Dims]

Uow ==
  [open : {TRUE}, batch : Nat, rows : Seq(LeadDTO) \cup Seq(SalesDTO), tables : Tables,
   pending : Seq(Fact), seen_sales : SUBSET (Transactions \X Skus), seen_dims : Dims,
   next_id : Nat \ {0}]

RowsOK(rows) == rows \in (IF content[file].type = "leads" THEN Seq(LeadDTO) ELSE Seq(SalesDTO))

\* A session is open for a batch of the file in hand.
UowOK ==
  uow # NoUow =>
    /\ uow \in Uow
    /\ RowsOK(uow.rows)
    /\ DimsOK(uow.tables.dims)
    /\ DimsOK(uow.seen_dims)
    /\ file # NoFile
    /\ uow.batch \in DOMAIN Batches

ProgressOK ==
  /\ content \in Contents
  /\ status \in [Files -> {"PENDING", "BUSY", "PROCESSED", "FAILED"}]
  /\ file \in Files \cup {NoFile}
  /\ done \in [Files -> Nat]
  /\ file # NoFile => status[file] = "BUSY"
  /\ \A f \in Files : done[f] <= Len(content[f].batches)
  /\ begun \in Seq(Files)
  /\ mishaps \in [outages : Nat, crashes : Nat, unsent : Nat]

StoreOK ==
  /\ db \in Tables
  /\ DimsOK(db.dims)
  /\ UowOK
  /\ attempt \in 1..3
  /\ serial \in Nat \ {0}

AlertingOK ==
  /\ alerts \subseteq Nat
  /\ outbox \in Seq(SUBSET Nat)
  /\ job # NoJob =>
       job \in [at : {"sending"}, todo : [Members -> SUBSET Nat], sent : SUBSET Nat]

\* The variables have their types.
TypeOK == ProgressOK /\ StoreOK /\ AlertingOK

-------------------------------------------------------------------------------
(***************************************************************************)
(* The log: the rows of all committed batches, each with its place (its    *)
(* file in the order of their dispatch, its batch, and which row of it),   *)
(* its file, and its key.  A file that was rolled back has no rows in it.  *)
(* The tables keep one snapshot of an address, a file and a time, and one  *)
(* fact of a transaction and a SKU: that of the first row of the key.      *)
(***************************************************************************)
KeyOf(type, f, row) ==
  IF type = "leads"
  THEN <<row.email, f, row.data.incoming_timestamp>>
  ELSE <<row.transaction_id, row.sku>>

Entry(k, b, r) ==
  LET f   == begun[k]
      row == content[f].batches[b][r]
  IN  [at |-> <<k, b, r>>, file |-> f, row |-> row, key |-> KeyOf(content[f].type, f, row)]

EntriesOf(k, b) == {Entry(k, b, r) : r \in DOMAIN content[begun[k]].batches[b]}

Stored(type) ==
  UNION {UNION {EntriesOf(k, b) : b \in 1..done[begun[k]]} :
           k \in {j \in DOMAIN begun : content[begun[j]].type = type}}

Earlier(x, y) ==
  \/ x.at[1] < y.at[1]
  \/ x.at[1] = y.at[1] /\ x.at[2] < y.at[2]
  \/ x.at[1] = y.at[1] /\ x.at[2] = y.at[2] /\ x.at[3] < y.at[3]

Firsts(log) == {x \in log : \A y \in log : Earlier(y, x) => y.key # x.key}

\* The snapshots an address should have.
History(e, log) ==
  {Snapshot(x.file, x.row.data) : x \in {y \in Firsts(log) : y.row.email = e}}

NewestOf(updates) ==
  {u \in updates : \A v \in updates : v.data.incoming_timestamp <= u.data.incoming_timestamp}

IsMadeOf(lead, updates) ==
  IF updates = {}
  THEN lead = NoLead
  ELSE /\ Exists(lead)
       /\ lead.updates = updates
       /\ lead.data \in {marketing_qualify(u.data) : u \in NewestOf(updates)}
       /\ lead.source_file_id \in {u.source_file_id : u \in updates}

AreLeadsOf(leads, log) == \A e \in Emails : IsMadeOf(leads[e], History(e, log))

\* A lead is what its history makes of it, in whatever order files and rows came and
\* whichever files were rolled back: it exists if it has a history, that is all
\* of its snapshots, its own data are those of a newest one, qualified, and its
\* source file is one of theirs.
LeadsAreTheirHistory == AreLeadsOf(db.leads, Stored("leads"))

\* The fact of an entry of the log, its foreign keys resolved.
IsFactOf(fact, x, dims) ==
  /\ fact.source_file_id = x.file
  /\ fact.transaction_id = x.row.transaction_id
  /\ fact.quantity_sold = x.row.quantity_sold
  /\ fact.product_id = dims[x.row.sku]
  /\ fact.customer_id = dims[x.row.customer]
  /\ fact.date_id = dims[x.row.date]

Rank(x, log) == Cardinality({y \in log : y = x \/ Earlier(y, x)})

AreFactsOf(facts, log, dims) ==
  /\ Len(facts) = Cardinality(Firsts(log))
  /\ \A x \in Firsts(log) : IsFactOf(facts[Rank(x, Firsts(log))], x, dims)

\* The facts are the first row of every transaction and SKU, in order: none is
\* missing, none is doubled by a retry, a later batch or another file, and none
\* is overwritten by a divergent duplicate.
FactsAreFirstSales == AreFactsOf(db.facts, Stored("sales"), db.dims)

\* No commit can be refused for a foreign key: every fact refers to rows that are
\* there, whatever was rolled back while the caches of a repository knew their ids,
\* and no two rows of the dimensions share an id.
DimensionsHold ==
  /\ \A k \in DOMAIN db.facts :
       /\ \E sku \in Skus : db.dims[sku] = db.facts[k].product_id
       /\ \E c \in Customers : db.dims[c] = db.facts[k].customer_id
       /\ db.dims[db.facts[k].date_id] = db.facts[k].date_id
  /\ \A x, y \in DimKeys : db.dims[x] = db.dims[y] /\ db.dims[x] # 0 => x = y

-------------------------------------------------------------------------------
Mailed == UNION {outbox[k] : k \in DOMAIN outbox}

\* A lead that is recorded as alerted was in an e-mail that was written, or nobody
\* would ever hear of it, and it is still there, whatever was rolled back.
AlertIsBacked == alerts \subseteq Mailed \cap LeadIds

\* A lead is in a second e-mail only if the commit of the first was lost, in a mishap
\* or because another lead of the run was rolled back.
SentOnceButForMishaps ==
  \A id \in Mailed :
    Cardinality({k \in DOMAIN outbox : id \in outbox[k]})
      <= 1 + mishaps.outages + mishaps.crashes
           + Cardinality({f \in Files : status[f] = "FAILED"})
===============================================================================

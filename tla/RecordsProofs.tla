---------------------------- MODULE RecordsProofs -----------------------------
(***************************************************************************)
(* Theorems about the tables of leads, sales and alerts, for every set of  *)
(* files, batches, keys and members of the team and any number of faults.  *)
(***************************************************************************)
EXTENDS RecordsProperties, FiniteSetTheorems, TLAPS

LEMMA ContentFacts ==
  ASSUME ProgressOK, file # NoFile
  PROVE  /\ content[file] \in FileContent
         /\ Batches \in Seq(Seq(LeadDTO)) \cup Seq(Seq(SalesDTO))
         /\ \A k \in DOMAIN Batches : RowsOK(Batches[k])
<1>1. content \in [Files -> FileContent] /\ file \in Files
  BY ContentsAssumption DEF ProgressOK
<1>2. content[file] \in FileContent
  BY <1>1
<1> QED BY <1>2 DEF Batches, RowsOK, FileContent

\* The methods of a lead keep its type.
LEMMA LeadMethods ==
  ASSUME NEW f \in Files, NEW data \in LeadData
  PROVE  /\ marketing_qualify(data) \in LeadData
         /\ \A id \in Nat \ {0} : NewLead(id, f, data) \in LeadRow /\ NewLead(id, f, data).id = id
         /\ \A lead \in LeadRow :
              /\ apply_update(lead, f, data) \in LeadRow
              /\ apply_update(lead, f, data).id = lead.id
<1>1. \A d \in LeadData : marketing_qualify(d) \in LeadData
  BY DEF marketing_qualify, LeadData, LeadStatus
<1>2. \A id \in Nat \ {0} : NewLead(id, f, data) \in LeadRow /\ NewLead(id, f, data).id = id
  BY <1>1 DEF NewLead, LeadRow
<1>3. ASSUME NEW lead \in LeadRow
      PROVE  /\ apply_update(lead, f, data) \in LeadRow
             /\ apply_update(lead, f, data).id = lead.id
  <2> DEFINE newest == IF data.incoming_timestamp > lead.data.incoming_timestamp THEN data ELSE lead.data
  <2>1. marketing_qualify(newest) \in LeadData
    BY <1>1 DEF LeadRow
  <2>2. AddSnapshot(lead.updates, Snapshot(f, data)) \in SUBSET LeadSnapshot
    BY DEF AddSnapshot, Snapshot, LeadSnapshot, LeadRow
  <2>3. apply_update(lead, f, data) =
          [lead EXCEPT !.data = marketing_qualify(newest),
                       !.updates = AddSnapshot(lead.updates, Snapshot(f, data))]
    BY DEF apply_update
  <2> HIDE DEF newest
  <2> QED BY <2>1, <2>2, <2>3 DEF LeadRow
<1> QED BY <1>1, <1>2, <1>3

LEMMA RollbackOfLead ==
  ASSUME NEW f \in Files, NEW lead \in LeadRow
  PROVE  \A after \in rollback(lead, f) :
           \/ after = NoLead /\ UpdatesOfOthers(lead, f) = {}
           \/ after \in LeadRow /\ after.id = lead.id
<1>1. \A d \in LeadData : marketing_qualify(d) \in LeadData
  BY DEF marketing_qualify, LeadData, LeadStatus
<1>2. ASSUME NEW after \in rollback(lead, f), UpdatesOfOthers(lead, f) # {}
      PROVE  after \in LeadRow /\ after.id = lead.id
  <2>1. PICK u \in NewBases(lead, f) :
          after = [lead EXCEPT !.source_file_id = u.source_file_id,
                               !.data = marketing_qualify(u.data),
                               !.updates = UpdatesOfOthers(lead, f)]
    BY <1>2 DEF rollback
  <2>2. UpdatesOfOthers(lead, f) \in SUBSET LeadSnapshot /\ u \in LeadSnapshot
    BY DEF UpdatesOfOthers, NewBases, LeadRow
  <2>3. u.source_file_id \in Files /\ marketing_qualify(u.data) \in LeadData
    BY <1>1, <2>2 DEF LeadSnapshot
  <2> QED BY <2>1, <2>2, <2>3 DEF LeadRow
<1>3. UpdatesOfOthers(lead, f) = {} => rollback(lead, f) = {NoLead}
  BY DEF rollback
<1> QED BY <1>2, <1>3

\* A row of the leads is not the absence of one.
LEMMA RowsExist ==
  ASSUME NEW lead \in LeadRow
  PROVE  Exists(lead)
BY DEF Exists, NoLead, LeadRow

-------------------------------------------------------------------------------
(***************************************************************************)
(* The session of a batch.  Its caches know no id the tables do not give,  *)
(* its facts, flushed or not, refer to rows of its tables, and ids are     *)
(* unique because the sequence is ahead of all that it ever gave.          *)
(***************************************************************************)
Numbered(dims, next_id) ==
  /\ \A x, y \in DimKeys : dims[x] = dims[y] /\ dims[x] # 0 => x = y
  /\ \A key \in DimKeys \ Dates : dims[key] < next_id

Refers(fact, dims) ==
  /\ \E sku \in Skus : dims[sku] = fact.product_id
  /\ \E c \in Customers : dims[c] = fact.customer_id
  /\ dims[fact.date_id] = fact.date_id

AllRefer(facts, dims) == \A k \in DOMAIN facts : Refers(facts[k], dims)

SessionType(u) == u \in Uow /\ DimsOK(u.tables.dims) /\ DimsOK(u.seen_dims)

Session(u) ==
  /\ SessionType(u)
  /\ \A key \in DimKeys : u.seen_dims[key] # 0 => u.tables.dims[key] = u.seen_dims[key]
  /\ Numbered(u.tables.dims, u.next_id)
  /\ AllRefer(u.tables.facts, u.tables.dims)
  /\ AllRefer(u.pending, u.tables.dims)

LEMMA ReferringFacts ==
  ASSUME NEW s \in Seq(Fact), NEW dims, AllRefer(s, dims)
  PROVE  /\ \A t \in Seq(Fact) : AllRefer(t, dims) => AllRefer(s \o t, dims)
         /\ \A fact \in Fact : Refers(fact, dims) => AllRefer(Append(s, fact), dims)
<1>1. ASSUME NEW t \in Seq(Fact), AllRefer(t, dims), NEW k \in DOMAIN (s \o t)
      PROVE  Refers((s \o t)[k], dims)
  <2>1. k \in 1..(Len(s) + Len(t))
    OBVIOUS
  <2>2. CASE k <= Len(s)
    <3>1. (s \o t)[k] = s[k] /\ k \in DOMAIN s
      BY <2>1, <2>2
    <3> QED BY <3>1 DEF AllRefer
  <2>3. CASE k > Len(s)
    <3>1. (s \o t)[k] = t[k - Len(s)] /\ k - Len(s) \in DOMAIN t
      BY <2>1, <2>3
    <3> QED BY <1>1, <3>1 DEF AllRefer
  <2> QED BY <2>1, <2>2, <2>3
<1>2. ASSUME NEW fact \in Fact, Refers(fact, dims), NEW k \in DOMAIN Append(s, fact)
      PROVE  Refers(Append(s, fact)[k], dims)
  <2>1. CASE k = Len(s) + 1
    <3>1. Append(s, fact)[k] = fact
      BY <2>1
    <3> QED BY <1>2, <3>1
  <2>2. CASE k # Len(s) + 1
    <3>1. Append(s, fact)[k] = s[k] /\ k \in DOMAIN s
      BY <2>2
    <3> QED BY <3>1 DEF AllRefer
  <2> QED BY <2>1, <2>2
<1> QED BY <1>1, <1>2 DEF AllRefer

\* Facts go on referring to rows while those keep their ids.
LEMMA ReferringStay ==
  ASSUME NEW s \in Seq(Fact), NEW old, NEW new, AllRefer(s, old),
         \A key \in DimKeys : old[key] # 0 => new[key] = old[key]
  PROVE  AllRefer(s, new)
<1> SUFFICES ASSUME NEW k \in DOMAIN s PROVE Refers(s[k], new)
  BY DEF AllRefer
<1>1. s[k] \in Fact /\ Refers(s[k], old)
  BY DEF AllRefer
<1>2. s[k].product_id # 0 /\ s[k].customer_id # 0 /\ s[k].date_id # 0 /\ s[k].date_id \in Dates
  BY <1>1, KeysAssumption DEF Fact
<1> QED BY <1>1, <1>2 DEF Refers, DimKeys

\* A flush moves the pending facts to the table.
LEMMA FlushedFields ==
  ASSUME NEW u \in Uow
  PROVE  LET v == Flushed(u)
         IN  /\ v \in Uow
             /\ v.tables.facts = u.tables.facts \o u.pending
             /\ v.tables.leads = u.tables.leads
             /\ v.tables.dims = u.tables.dims
             /\ v.pending = << >>
             /\ v.rows = u.rows
             /\ v.batch = u.batch
             /\ v.seen_sales = u.seen_sales
             /\ v.seen_dims = u.seen_dims
             /\ v.next_id = u.next_id
<1> DEFINE t == [u.tables EXCEPT !.facts = @ \o u.pending]
<1>1. u.tables \in Tables /\ u.pending \in Seq(Fact)
  BY DEF Uow
<1>2. u.tables.facts \o u.pending \in Seq(Fact)
  BY <1>1 DEF Tables
<1>3. /\ t \in Tables
      /\ t.facts = u.tables.facts \o u.pending
      /\ t.leads = u.tables.leads
      /\ t.dims = u.tables.dims
  BY <1>1, <1>2 DEF Tables
<1>4. Flushed(u) = [u EXCEPT !.tables = t, !.pending = << >>]
  BY <1>1, Zenon DEF Flushed
<1> HIDE DEF t
<1>5. << >> \in Seq(Fact)
  OBVIOUS
<1> QED BY <1>3, <1>4, <1>5 DEF Uow

LEMMA FlushedSession ==
  ASSUME NEW u, Session(u)
  PROVE  Session(Flushed(u))
<1>1. u \in Uow
  BY DEF Session, SessionType
<1>2. u.tables.facts \in Seq(Fact) /\ u.pending \in Seq(Fact)
  BY <1>1 DEF Uow, Tables
<1>3. AllRefer(u.tables.facts \o u.pending, u.tables.dims)
  BY <1>2, ReferringFacts DEF Session
<1>4. AllRefer(<< >>, u.tables.dims)
  BY DEF AllRefer
<1> QED BY <1>1, <1>3, <1>4, FlushedFields DEF Session, SessionType

\* A row of a dimension that is there already is found, one that is not is made, and
\* the rows that are there keep their ids.
LEMMA GetOrCreate ==
  ASSUME NEW u, Session(u), NEW key \in DimKeys
  PROVE  LET v == get_or_create(u, key)
         IN  /\ Session(v)
             /\ DimId(v, key) # 0
             /\ \A k \in DimKeys : DimId(u, k) # 0 => DimId(v, k) # 0
             /\ v.rows = u.rows /\ v.batch = u.batch
             /\ v.tables.leads = u.tables.leads
             /\ v.next_id >= u.next_id
<1>1. u \in Uow /\ u.next_id \in Nat
  BY DEF Session, SessionType, Uow
<1>2. CASE DimId(u, key) # 0
  BY <1>1, <1>2 DEF get_or_create
<1>3. CASE DimId(u, key) = 0
  <2> DEFINE w == Flushed(u)
             id == NewDimId(u, key)
             t == [w.tables EXCEPT !.dims[key] = id]
             seen == [w.seen_dims EXCEPT ![key] = id]
             next == IF key \in Dates THEN u.next_id ELSE u.next_id + 1
             v == [w EXCEPT !.tables = t, !.seen_dims = seen, !.next_id = next]
  <2>1. Session(w) /\ w \in Uow
    BY <1>1, FlushedFields, FlushedSession
  <2>2. get_or_create(u, key) = v
    BY <1>1, <1>3, FlushedFields, Zenon DEF get_or_create
  <2>3. u.seen_dims[key] = 0 /\ u.tables.dims[key] = 0
    BY <1>3 DEF DimId
  <2>4. id # 0 /\ id \in DimIds(key) /\ next \in Nat \ {0} /\ next >= u.next_id
    BY <1>1, KeysAssumption DEF NewDimId, DimIds, Uow
  <2>5. /\ w.tables \in Tables /\ DimsOK(w.tables.dims)
        /\ w.seen_dims \in Dims /\ DimsOK(w.seen_dims)
        /\ w.tables.dims = u.tables.dims
        /\ w.tables.leads = u.tables.leads
        /\ w.seen_dims = u.seen_dims
        /\ w.rows = u.rows /\ w.batch = u.batch
        /\ w.pending = << >>
    BY <1>1, <2>1, FlushedFields DEF Session, SessionType, Uow
  <2> HIDE DEF w, id, next
  <2>6. /\ t \in Tables /\ DimsOK(t.dims)
        /\ t.leads = u.tables.leads
        /\ t.facts = w.tables.facts
        /\ t.dims = [u.tables.dims EXCEPT ![key] = id]
    <3> DEFINE dims == [u.tables.dims EXCEPT ![key] = id]
    <3>1. dims \in Dims /\ DimsOK(dims)
      BY <2>4, <2>5 DEF Tables, Dims, DimsOK, DimIds
    <3>2. t = [w.tables EXCEPT !.dims = dims]
      BY <2>5, Zenon DEF t
    <3> HIDE DEF dims
    <3>3. t \in Tables /\ t.dims = dims /\ t.leads = w.tables.leads /\ t.facts = w.tables.facts
      BY <2>5, <3>1, <3>2 DEF Tables
    <3> QED BY <2>5, <3>1, <3>3 DEF dims
  <2>7. seen \in Dims /\ DimsOK(seen) /\ seen = [u.seen_dims EXCEPT ![key] = id]
    BY <2>4, <2>5 DEF Dims, DimsOK, DimIds
  <2>8. DOMAIN u.tables.dims = DimKeys /\ DOMAIN u.seen_dims = DimKeys
    BY DEF Session, SessionType, DimsOK
  <2> HIDE DEF t, seen
  <2>9. /\ v \in Uow
        /\ v.tables = t /\ v.seen_dims = seen /\ v.next_id = next
        /\ v.rows = u.rows /\ v.batch = u.batch /\ v.pending = << >>
    BY <2>1, <2>4, <2>5, <2>6, <2>7 DEF Uow
  <2> HIDE DEF v
  <2>10. SessionType(v)
    BY <2>6, <2>7, <2>9 DEF SessionType
  <2>11. \A k \in DimKeys : seen[k] # 0 => t.dims[k] = seen[k]
    BY <2>6, <2>7, <2>8 DEF Session
  <2>12. Numbered(t.dims, next)
    <3>1. /\ Numbered(u.tables.dims, u.next_id)
          /\ \A k \in DimKeys : u.tables.dims[k] \in DimIds(k)
      BY DEF Session, SessionType, DimsOK
    <3>2. \/ id = key /\ key \in Dates
          \/ id = u.next_id /\ key \notin Dates /\ next = u.next_id + 1
      BY DEF id, NewDimId, next
    <3>3. ASSUME NEW x \in Dates PROVE u.tables.dims[x] \in {0, x} /\ x \notin Nat
      BY <3>1, KeysAssumption DEF DimIds, DimKeys
    <3>4. ASSUME NEW x \in DimKeys \ Dates
          PROVE  u.tables.dims[x] \in Nat /\ u.tables.dims[x] < u.next_id
      BY <3>1 DEF Numbered, DimIds
    <3>5. ASSUME NEW x \in DimKeys, x # key PROVE u.tables.dims[x] # id
      <4>1. CASE x \in Dates
        BY <1>1, <2>4, <3>2, <3>3, <3>5, <4>1
      <4>2. CASE x \notin Dates
        BY <1>1, <3>2, <3>3, <3>4, <4>2
      <4> QED BY <4>1, <4>2
    <3>6. \A x, y \in DimKeys : t.dims[x] = t.dims[y] /\ t.dims[x] # 0 => x = y
      BY <2>6, <2>8, <3>1, <3>5 DEF Numbered
    <3>7. ASSUME NEW x \in DimKeys \ Dates PROVE t.dims[x] < next
      <4>1. CASE x = key
        BY <1>1, <2>6, <2>8, <3>2, <4>1
      <4>2. CASE x # key
        <5>1. t.dims[x] = u.tables.dims[x]
          BY <2>6, <2>8, <4>2
        <5> QED BY <1>1, <2>4, <3>4, <5>1
      <4> QED BY <4>1, <4>2
    <3> QED BY <3>6, <3>7 DEF Numbered
  <2>13. \A k \in DimKeys : u.tables.dims[k] # 0 => t.dims[k] = u.tables.dims[k]
    BY <2>3, <2>6, <2>8
  <2>14. AllRefer(w.tables.facts, t.dims)
    <3>1. w.tables.facts \in Seq(Fact) /\ AllRefer(w.tables.facts, u.tables.dims)
      BY <2>1, <2>5 DEF Session, Tables
    <3> QED BY <2>13, <3>1, ReferringStay
  <2>15. AllRefer(<< >>, t.dims)
    BY DEF AllRefer
  <2>16. Session(v)
    BY <2>6, <2>9, <2>10, <2>11, <2>12, <2>14, <2>15 DEF Session
  <2>17. \A k \in DimKeys : DimId(u, k) # 0 => DimId(v, k) # 0
    BY <2>4, <2>6, <2>7, <2>8, <2>9, <2>13 DEF DimId
  <2>18. DimId(v, key) # 0
    BY <2>4, <2>7, <2>8, <2>9 DEF DimId
  <2> QED BY <2>2, <2>4, <2>6, <2>9, <2>16, <2>17, <2>18
<1> QED BY <1>2, <1>3

LEMMA DimIdFacts ==
  ASSUME NEW u, Session(u), NEW key \in DimKeys, DimId(u, key) # 0
  PROVE  u.tables.dims[key] = DimId(u, key) /\ DimId(u, key) \in DimIds(key)
BY DEF Session, SessionType, DimsOK, DimId

LEMMA AddSession ==
  ASSUME NEW u, Session(u), NEW sale \in SalesDTO, file \in Files
  PROVE  LET v == add(u, sale)
         IN  /\ Session(v) /\ v.rows = u.rows /\ v.batch = u.batch
             /\ v.tables.leads = u.tables.leads /\ v.next_id >= u.next_id
<1> DEFINE v1 == get_or_create(u, sale.sku)
           v2 == get_or_create(v1, sale.customer)
           v3 == get_or_create(v2, sale.date)
           fact == [source_file_id |-> file, transaction_id |-> sale.transaction_id,
                    product_id |-> DimId(v3, sale.sku), customer_id |-> DimId(v3, sale.customer),
                    date_id |-> DimId(v3, sale.date), quantity_sold |-> sale.quantity_sold]
           v == [v3 EXCEPT !.pending = Append(@, fact),
                           !.seen_sales = @ \cup {<<sale.transaction_id, sale.sku>>}]
<1>1. /\ sale.sku \in Skus /\ sale.customer \in Customers /\ sale.date \in Dates
      /\ sale.transaction_id \in Transactions /\ sale.quantity_sold \in Nat
      /\ sale.sku \in DimKeys /\ sale.customer \in DimKeys /\ sale.date \in DimKeys
      /\ sale.sku \notin Dates /\ sale.customer \notin Dates
  BY KeysAssumption DEF SalesDTO, DimKeys
<1>2. \A w : Session(w) => w.next_id \in Nat
  BY DEF Session, SessionType, Uow
<1>3. /\ Session(v1) /\ DimId(v1, sale.sku) # 0
      /\ v1.rows = u.rows /\ v1.batch = u.batch /\ v1.tables.leads = u.tables.leads /\ v1.next_id >= u.next_id
  BY <1>1, GetOrCreate
<1>4. /\ Session(v2) /\ DimId(v2, sale.sku) # 0 /\ DimId(v2, sale.customer) # 0
      /\ v2.rows = u.rows /\ v2.batch = u.batch /\ v2.tables.leads = u.tables.leads /\ v2.next_id >= v1.next_id
  <2> HIDE DEF v1
  <2> QED BY <1>1, <1>3, GetOrCreate
<1>5. /\ Session(v3)
      /\ DimId(v3, sale.sku) # 0 /\ DimId(v3, sale.customer) # 0 /\ DimId(v3, sale.date) # 0
      /\ v3.rows = u.rows /\ v3.batch = u.batch /\ v3.tables.leads = u.tables.leads /\ v3.next_id >= v2.next_id
  <2> HIDE DEF v2
  <2> QED BY <1>1, <1>4, GetOrCreate
<1>6. add(u, sale) = IF \E sku \in Skus : v3.tables.dims[sku] = fact.product_id THEN v ELSE v3
  BY DEF add
<1> HIDE DEF v1, v2, v3
<1>7. v3.next_id >= u.next_id
  BY <1>2, <1>3, <1>4, <1>5
<1>8. v3 \in Uow
  BY <1>5 DEF Session, SessionType
<1>9. /\ v3.tables.dims[sale.sku] = DimId(v3, sale.sku)
      /\ v3.tables.dims[sale.customer] = DimId(v3, sale.customer)
      /\ v3.tables.dims[sale.date] = DimId(v3, sale.date)
      /\ DimId(v3, sale.sku) \in Nat \ {0} /\ DimId(v3, sale.customer) \in Nat \ {0}
      /\ DimId(v3, sale.date) = sale.date
  BY <1>1, <1>5, DimIdFacts DEF DimIds
<1>10. fact \in Fact /\ Refers(fact, v3.tables.dims)
  BY <1>1, <1>9 DEF Fact, Refers
<1> HIDE DEF fact
<1>11. /\ v3.pending \in Seq(Fact) /\ AllRefer(v3.pending, v3.tables.dims)
  BY <1>5, <1>8 DEF Session, Uow
<1>12. Append(v3.pending, fact) \in Seq(Fact) /\ AllRefer(Append(v3.pending, fact), v3.tables.dims)
  BY <1>10, <1>11, ReferringFacts
<1>13. v3.seen_sales \cup {<<sale.transaction_id, sale.sku>>} \in SUBSET (Transactions \X Skus)
  BY <1>1, <1>8 DEF Uow
<1>14. /\ v \in Uow /\ v.pending = Append(v3.pending, fact)
       /\ v.tables = v3.tables /\ v.seen_dims = v3.seen_dims
       /\ v.rows = v3.rows /\ v.batch = v3.batch /\ v.next_id = v3.next_id
  BY <1>8, <1>12, <1>13 DEF Uow
<1> HIDE DEF v
<1>15. Session(v)
  BY <1>5, <1>12, <1>14 DEF Session, SessionType
<1> QED BY <1>5, <1>6, <1>7, <1>14, <1>15

-------------------------------------------------------------------------------
(***************************************************************************)
(* The types, and the references between facts and dimensions.             *)
(***************************************************************************)
References ==
  /\ Numbered(db.dims, serial)
  /\ AllRefer(db.facts, db.dims)
  /\ uow # NoUow => Session(uow) /\ uow.next_id >= serial

StoreInv == TypeOK /\ References

LEMMA OpenOrNot ==
  ASSUME TypeOK
  PROVE  (uow.open <=> uow # NoUow) /\ (uow # NoUow => uow \in Uow)
<1>1. uow # NoUow => uow \in Uow
  BY DEF TypeOK, StoreOK, UowOK
<1>2. ASSUME uow \in Uow PROVE uow.open = TRUE
  BY <1>2 DEF Uow
<1>3. NoUow.open = FALSE
  BY DEF NoUow
<1> QED BY <1>1, <1>2, <1>3

\* A session begins with what is committed.
LEMMA NewSession ==
  ASSUME TypeOK, file # NoFile, NEW k \in DOMAIN Batches,
         NEW tables \in Tables, DimsOK(tables.dims), AllRefer(tables.facts, tables.dims),
         NEW n \in Nat \ {0}, Numbered(tables.dims, n)
  PROVE  LET u == NewUow(k, tables, n)
         IN  /\ Session(u) /\ RowsOK(u.rows) /\ u # NoUow
             /\ u.batch = k /\ u.next_id = n /\ u.tables = tables
<1>1. /\ Batches \in Seq(Seq(LeadDTO)) \cup Seq(Seq(SalesDTO))
      /\ RowsOK(Batches[k])
  BY ContentFacts DEF TypeOK
<1> DEFINE rows == Batches[k]
<1>2. RowsOK(rows) /\ rows \in Seq(LeadDTO) \cup Seq(SalesDTO) /\ k \in Nat
  BY <1>1 DEF RowsOK
<1>3. NoDims \in Dims /\ DimsOK(NoDims) /\ \A key \in DimKeys : NoDims[key] = 0
  BY DEF NoDims, Dims, DimsOK, DimIds
<1> HIDE DEF rows
<1> DEFINE u == NewUow(k, tables, n)
<1>4. /\ u \in Uow /\ u.rows = rows /\ u.tables = tables /\ u.seen_dims = NoDims
      /\ u.batch = k /\ u.next_id = n /\ u.pending = << >> /\ u # NoUow
  BY <1>2, <1>3 DEF NewUow, rows, Uow, NoUow
<1> HIDE DEF u
<1>5. AllRefer(<< >>, tables.dims)
  BY DEF AllRefer
<1>6. Session(u)
  BY <1>3, <1>4, <1>5 DEF Session, SessionType
<1> QED BY <1>2, <1>4, <1>6 DEF u

\* What the steps of the session leave alone.
SameButSession == UNCHANGED <<content, status, file, begun, done, db, alerts, outbox, job>>

LEMMA SessionStep ==
  ASSUME StoreInv, SameButSession, attempt' \in 1..3, serial' = serial,
         mishaps' \in [outages : Nat, crashes : Nat, unsent : Nat],
         uow' # NoUow, Session(uow'), RowsOK(uow'.rows), uow'.next_id >= serial,
         file # NoFile, uow'.batch \in DOMAIN Batches
  PROVE  StoreInv'
<1> USE DEF SameButSession
<1>1. ProgressOK'
  BY DEF StoreInv, TypeOK, ProgressOK, Batches
<1>2. uow' \in Uow /\ DimsOK(uow'.tables.dims) /\ DimsOK(uow'.seen_dims)
  BY DEF Session, SessionType
<1>3. UowOK'
  BY <1>2 DEF UowOK, RowsOK, Batches
<1>4. StoreOK'
  BY <1>3 DEF StoreInv, TypeOK, StoreOK
<1>5. AlertingOK'
  BY DEF StoreInv, TypeOK, AlertingOK
<1>6. References'
  <2>1. Numbered(db.dims, serial)' /\ AllRefer(db.facts, db.dims)'
    BY DEF StoreInv, References
  <2> QED BY <2>1 DEF References
<1> QED BY <1>1, <1>4, <1>5, <1>6 DEF StoreInv, TypeOK

\* Every step that opens no session and does not touch the store.
LEMMA OtherStep ==
  ASSUME StoreInv, UNCHANGED <<content, db>>, ProgressOK', AlertingOK',
         \/ UNCHANGED session /\ (uow # NoUow => UNCHANGED <<file, done>>)
         \/ uow' = NoUow /\ attempt' = 1 /\ serial' \in Nat /\ serial' >= serial
  PROVE  StoreInv'
<1>1. Numbered(db.dims, serial)' /\ serial' \in Nat \ {0}
  <2>1. serial \in Nat \ {0} /\ serial' \in Nat \ {0} /\ serial' >= serial
    BY DEF StoreInv, TypeOK, StoreOK, session
  <2>2. \A key \in DimKeys \ Dates : db.dims[key] \in Nat /\ db.dims[key] < serial
    BY DEF StoreInv, TypeOK, StoreOK, DimsOK, DimIds, References, Numbered
  <2> QED BY <2>1, <2>2 DEF StoreInv, References, Numbered
<1>2. UowOK'
  BY DEF StoreInv, TypeOK, StoreOK, UowOK, RowsOK, Batches, session
<1>3. StoreOK'
  BY <1>1, <1>2 DEF StoreInv, TypeOK, StoreOK, session
<1>4. References'
  BY <1>1 DEF StoreInv, References, session
<1> QED BY <1>3, <1>4 DEF StoreInv, TypeOK

\* The counters of the faults.
LEMMA MishapType ==
  ASSUME ProgressOK, NEW kind \in {"outages", "crashes", "unsent"}, Mishap(kind)
  PROVE  mishaps' \in [outages : Nat, crashes : Nat, unsent : Nat]
<1>1. mishaps \in [outages : Nat, crashes : Nat, unsent : Nat]
  BY DEF ProgressOK
<1>2. CASE kind = "outages"
  <2>1. mishaps' = [mishaps EXCEPT !["outages"] = mishaps["outages"] + 1]
    BY <1>2 DEF Mishap
  <2> QED BY <1>1, <2>1
<1>3. CASE kind = "crashes"
  <2>1. mishaps' = [mishaps EXCEPT !["crashes"] = mishaps["crashes"] + 1]
    BY <1>3 DEF Mishap
  <2> QED BY <1>1, <2>1
<1>4. CASE kind = "unsent"
  <2>1. mishaps' = [mishaps EXCEPT !["unsent"] = mishaps["unsent"] + 1]
    BY <1>4 DEF Mishap
  <2> QED BY <1>1, <2>1
<1> QED BY <1>2, <1>3, <1>4

LEMMA PersistStore ==
  ASSUME StoreInv, UNCHANGED content,
         persist_to_database \/ persist_lead \/ persist_sale
  PROVE  StoreInv'
<1>1. /\ TypeOK /\ References /\ (uow.open <=> uow # NoUow) /\ (uow # NoUow => uow \in Uow)
      /\ serial \in Nat \ {0} /\ attempt \in 1..3
      /\ mishaps \in [outages : Nat, crashes : Nat, unsent : Nat]
  BY OpenOrNot DEF StoreInv, TypeOK, StoreOK, ProgressOK
<1>2. CASE persist_to_database
  <2>1. file # NoFile /\ done[file] + 1 \in DOMAIN Batches
    <3>1. file # NoFile /\ done[file] < Len(Batches)
      BY <1>2 DEF persist_to_database
    <3> QED BY <1>1, <3>1, ContentFacts DEF TypeOK, ProgressOK
  <2>2. db \in Tables /\ DimsOK(db.dims) /\ AllRefer(db.facts, db.dims) /\ Numbered(db.dims, serial)
    BY <1>1 DEF TypeOK, StoreOK, References
  <2>3. uow' = NewUow(done[file] + 1, db, serial)
    BY <1>2 DEF persist_to_database
  <2>4. /\ Session(uow') /\ RowsOK(uow'.rows) /\ uow' # NoUow /\ uow'.next_id = serial
        /\ uow'.batch \in DOMAIN Batches
    BY <1>1, <2>1, <2>2, <2>3, NewSession
  <2>5. SameButSession /\ UNCHANGED <<attempt, serial, mishaps>>
    BY <1>2 DEF persist_to_database, SameButSession, progress, alerting
  <2> QED BY <1>1, <2>1, <2>4, <2>5, SessionStep
<1>3. ASSUME uow.open
      PROVE  /\ file # NoFile /\ uow.batch \in DOMAIN Batches /\ file \in Files
             /\ Session(uow) /\ RowsOK(uow.rows) /\ uow.next_id >= serial
             /\ uow.next_id \in Nat \ {0}
  <2>1. uow # NoUow /\ uow \in Uow
    BY <1>1, <1>3
  <2> QED BY <1>1, <2>1 DEF TypeOK, StoreOK, UowOK, ProgressOK, References, Uow
<1>4. CASE persist_lead
  <2>1. SameButSession /\ UNCHANGED <<attempt, serial, mishaps>>
    BY <1>4 DEF persist_lead, SameButSession, progress, alerting
  <2>2. uow.open /\ uow.rows # << >> /\ content[file].type = "leads" /\ uow \in Uow
    BY <1>1, <1>4 DEF persist_lead, NextRow
  <2>3. uow.rows \in Seq(LeadDTO) /\ dto \in LeadDTO /\ Tail(uow.rows) \in Seq(LeadDTO)
    BY <1>3, <2>2 DEF RowsOK, dto
  <2> DEFINE found == uow.tables.leads[dto.email]
             entity == IF Exists(found) THEN found ELSE NewLead(uow.next_id, file, dto.data)
             after == apply_update(entity, file, dto.data)
             t == [uow.tables EXCEPT !.leads[dto.email] = after]
             next == IF Exists(found) THEN uow.next_id ELSE uow.next_id + 1
             u == [uow EXCEPT !.rows = Tail(@), !.tables = t, !.next_id = next]
  <2>4. uow' = u
    BY <1>4, Zenon DEF persist_lead
  <2>5. after \in LeadRow
    <3>1. found \in LeadRow \cup {NoLead} /\ dto.data \in LeadData
      BY <2>2, <2>3 DEF Uow, Tables, LeadDTO
    <3>2. entity \in LeadRow
      BY <1>3, <2>2, <3>1, LeadMethods DEF Exists
    <3> HIDE DEF entity
    <3> QED BY <1>3, <2>2, <3>1, <3>2, LeadMethods
  <2>6. next \in Nat \ {0} /\ next >= uow.next_id
    BY <1>3, <2>2
  <2> HIDE DEF after, next
  <2>7. /\ t \in Tables /\ t.dims = uow.tables.dims /\ t.facts = uow.tables.facts
    <3> DEFINE leads == [uow.tables.leads EXCEPT ![dto.email] = after]
    <3>1. leads \in [Emails -> LeadRow \cup {NoLead}]
      BY <2>2, <2>3, <2>5 DEF Uow, Tables
    <3>2. t = [uow.tables EXCEPT !.leads = leads]
      BY Zenon DEF t
    <3> HIDE DEF leads
    <3> QED BY <2>2, <3>1, <3>2 DEF Uow, Tables
  <2> HIDE DEF t
  <2>8. /\ u \in Uow /\ u.tables = t /\ u.rows = Tail(uow.rows) /\ u.next_id = next
        /\ u.batch = uow.batch
        /\ u.seen_dims = uow.seen_dims /\ u.pending = uow.pending
    BY <2>2, <2>3, <2>6, <2>7 DEF Uow
  <2> HIDE DEF u
  <2>9. Session(u)
    <3>1. Numbered(uow.tables.dims, next)
      <4>1. \A key \in DimKeys \ Dates : uow.tables.dims[key] \in Nat
        BY <1>3, <2>2 DEF Session, SessionType, DimsOK, DimIds
      <4> QED BY <1>3, <2>2, <2>6, <4>1 DEF Session, Numbered
    <3> QED BY <1>3, <2>2, <2>7, <2>8, <3>1 DEF Session, SessionType
  <2>10. u # NoUow
    BY <2>8 DEF Uow, NoUow
  <2>11. RowsOK(u.rows)
    BY <2>2, <2>3, <2>8 DEF RowsOK
  <2>12. u.next_id >= serial
    BY <1>1, <1>3, <2>2, <2>6, <2>8
  <2> QED BY <1>1, <1>3, <2>1, <2>2, <2>4, <2>8, <2>9, <2>10, <2>11, <2>12, SessionStep
<1>5. CASE persist_sale
  <2>1. SameButSession /\ UNCHANGED <<attempt, serial, mishaps>>
    BY <1>5 DEF persist_sale, SameButSession, progress, alerting
  <2>2. uow.open /\ uow.rows # << >> /\ content[file].type = "sales" /\ uow \in Uow
    BY <1>1, <1>5 DEF persist_sale, NextRow
  <2>3. uow.rows \in Seq(SalesDTO) /\ dto \in SalesDTO /\ Tail(uow.rows) \in Seq(SalesDTO)
    BY <1>3, <2>2 DEF RowsOK, dto
  <2> DEFINE v == IF check_exists(uow, dto.transaction_id, dto.sku) THEN uow ELSE add(uow, dto)
             u == [v EXCEPT !.rows = Tail(uow.rows)]
  <2>4. Session(v) /\ v.rows = uow.rows /\ v.batch = uow.batch /\ v.next_id >= uow.next_id
    BY <1>3, <2>2, <2>3, AddSession
  <2>5. uow' = u
    BY <1>5, <2>4, Zenon DEF persist_sale
  <2>6. v \in Uow
    BY <2>4 DEF Session, SessionType
  <2> HIDE DEF v
  <2>7. /\ u \in Uow /\ u.tables = v.tables /\ u.rows = Tail(uow.rows) /\ u.next_id = v.next_id
        /\ u.seen_dims = v.seen_dims /\ u.pending = v.pending /\ u.batch = v.batch
    BY <2>3, <2>6 DEF Uow
  <2> HIDE DEF u
  <2>8. Session(u)
    BY <2>4, <2>7 DEF Session, SessionType
  <2>9. u # NoUow
    BY <2>7 DEF Uow, NoUow
  <2>10. RowsOK(u.rows)
    BY <2>2, <2>3, <2>7 DEF RowsOK
  <2>11. u.next_id >= serial
    <3>1. v.next_id \in Nat
      BY <2>6 DEF Uow
    <3> QED BY <1>1, <1>3, <2>2, <2>4, <2>7, <3>1
  <2> QED BY <1>1, <1>3, <2>1, <2>2, <2>4, <2>5, <2>7, <2>8, <2>9, <2>10, <2>11, SessionStep
<1> QED BY <1>2, <1>4, <1>5

\* A session ends with its tables in the database or without, and the next attempt
\* begins with what is there.
LEMMA EndStore ==
  ASSUME StoreInv, UNCHANGED content, commit \/ operational_error \/ commit_unanswered
  PROVE  StoreInv'
<1>1. /\ uow \in Uow /\ uow # NoUow /\ Session(uow) /\ uow.next_id >= serial
      /\ uow.next_id \in Nat \ {0} /\ serial \in Nat \ {0}
  BY OpenOrNot
  DEF commit, operational_error, commit_unanswered, SessionIsCommitted, StoreInv, References, TypeOK,
      StoreOK, Uow
<1>2. file # NoFile /\ file \in Files /\ uow.batch \in DOMAIN Batches
  BY <1>1 DEF StoreInv, TypeOK, StoreOK, UowOK, ProgressOK
<1>3. db' \in Tables /\ DimsOK(db'.dims) /\ Numbered(db'.dims, uow.next_id) /\ AllRefer(db'.facts, db'.dims)
  <2>1. CASE SessionIsCommitted
    <3>1. /\ Session(Flushed(uow)) /\ Flushed(uow) \in Uow
          /\ Flushed(uow).next_id = uow.next_id /\ db' = Flushed(uow).tables
      BY <1>1, <2>1, FlushedFields, FlushedSession DEF SessionIsCommitted
    <3> QED BY <3>1 DEF Session, SessionType, Uow
  <2>2. CASE db' = db
    <3>1. \A key \in DimKeys \ Dates : db.dims[key] \in Nat /\ db.dims[key] < serial
      BY DEF StoreInv, TypeOK, StoreOK, DimsOK, DimIds, References, Numbered
    <3> QED BY <1>1, <2>2, <3>1 DEF StoreInv, TypeOK, StoreOK, References, Numbered
  <2> QED BY <2>1, <2>2 DEF commit, operational_error, commit_unanswered
<1>4. /\ UNCHANGED <<status, begun, alerts, outbox, job>>
      /\ serial' = uow.next_id
      /\ file' \in {file, NoFile}
      /\ \/ uow' = NoUow /\ attempt' = 1
         \/ uow' = NewUow(uow.batch, db', uow.next_id) /\ attempt' = attempt + 1 /\ attempt < 3 /\ file' = file
  BY DEF commit, operational_error, commit_unanswered, CloseUow, Again, Retried, alerting
<1>5. mishaps' \in [outages : Nat, crashes : Nat, unsent : Nat]
  BY MishapType DEF commit, operational_error, commit_unanswered, StoreInv, TypeOK, ProgressOK
<1>6. done' \in [Files -> Nat] /\ \A f \in Files : done'[f] <= Len(content[f].batches)
  <2>1. done \in [Files -> Nat] /\ \A f \in Files : done[f] <= Len(content[f].batches)
    BY DEF StoreInv, TypeOK, ProgressOK
  <2>2. uow.batch \in Nat /\ uow.batch <= Len(content[file].batches)
    BY <1>2, ContentFacts DEF StoreInv, TypeOK, Batches
  <2>3. done' = done \/ done' = [done EXCEPT ![file] = uow.batch]
    BY DEF commit, operational_error, commit_unanswered, SessionIsCommitted
  <2> QED BY <1>2, <2>1, <2>2, <2>3
<1>7. uow' # NoUow =>
        /\ Session(uow') /\ RowsOK(uow'.rows) /\ uow'.batch = uow.batch
        /\ uow'.next_id = uow.next_id /\ file' = file
  BY <1>1, <1>2, <1>3, <1>4, NewSession DEF StoreInv
<1>8. References'
  BY <1>1, <1>3, <1>4, <1>7 DEF References
<1>9. UowOK'
  BY <1>2, <1>7 DEF UowOK, RowsOK, Batches, Session, SessionType
<1>10. StoreOK'
  BY <1>1, <1>3, <1>4, <1>9 DEF StoreInv, TypeOK, StoreOK
<1>11. ProgressOK'
  BY <1>2, <1>4, <1>5, <1>6 DEF StoreInv, TypeOK, ProgressOK
<1>12. AlertingOK'
  BY <1>4 DEF StoreInv, TypeOK, AlertingOK
<1> QED BY <1>8, <1>10, <1>11, <1>12 DEF StoreInv, TypeOK

\* The rollback touches no fact, and a lead it leaves is a lead.
LEMMA CleanUpStore ==
  ASSUME StoreInv, UNCHANGED content, clean_up
  PROVE  StoreInv'
<1>1. uow = NoUow /\ file \in Files
  BY OpenOrNot DEF clean_up, StoreInv, TypeOK, ProgressOK
<1>2. PICK leads \in [Emails -> UNION {LeadsAfter(e, file) : e \in Emails}] :
        /\ \A e \in Emails : leads[e] \in LeadsAfter(e, file)
        /\ db' = [db EXCEPT !.leads = leads]
  BY DEF clean_up
<1>3. db \in Tables /\ DimsOK(db.dims)
  BY DEF StoreInv, TypeOK, StoreOK
<1>4. leads \in [Emails -> LeadRow \cup {NoLead}]
  <2>1. ASSUME NEW e \in Emails PROVE leads[e] \in LeadRow \cup {NoLead}
    <3>1. leads[e] \in LeadsAfter(e, file)
      BY <1>2
    <3>2. db.leads[e] \in LeadRow \cup {NoLead}
      BY <1>3 DEF Tables
    <3>3. CASE e \in get_by_source_file(file)
      <4>1. db.leads[e] \in LeadRow /\ leads[e] \in rollback(db.leads[e], file)
        BY <3>1, <3>2, <3>3 DEF LeadsAfter, get_by_source_file, Exists
      <4>2. \A after \in rollback(db.leads[e], file) : after = NoLead \/ after \in LeadRow
        BY <1>1, <4>1, RollbackOfLead
      <4> QED BY <4>1, <4>2
    <3>4. CASE e \notin get_by_source_file(file)
      BY <3>1, <3>2, <3>4 DEF LeadsAfter
    <3> QED BY <3>3, <3>4
  <2> QED BY <1>2, <2>1
<1>5. db' \in Tables /\ db'.dims = db.dims /\ db'.facts = db.facts
  BY <1>2, <1>3, <1>4 DEF Tables
<1>6. uow' = NoUow /\ UNCHANGED <<serial, attempt, alerts, outbox, job, mishaps, begun>>
  BY <1>1 DEF clean_up, session, alerting
<1>7. References'
  BY <1>5, <1>6 DEF StoreInv, References
<1>8. StoreOK'
  BY <1>3, <1>5, <1>6 DEF StoreInv, TypeOK, StoreOK, UowOK
<1>9. ProgressOK' /\ AlertingOK'
  BY <1>1, <1>6 DEF StoreInv, TypeOK, ProgressOK, AlertingOK, clean_up, Settle
<1> QED BY <1>7, <1>8, <1>9 DEF StoreInv, TypeOK

\* The steps that leave the store alone, session and tables both.
LEMMA ProgressStore ==
  ASSUME StoreInv, UNCHANGED content,
         \/ \E f \in Files : dispatch_pending_files(f)
         \/ file_completed_handler \/ clean_up_raises \/ crash
  PROVE  StoreInv'
<1>1. /\ TypeOK /\ ProgressOK /\ AlertingOK /\ (uow.open <=> uow # NoUow)
      /\ (uow # NoUow => file # NoFile /\ file \in Files /\ uow.next_id \in Nat /\ uow.next_id >= serial)
      /\ serial \in Nat \ {0}
  BY OpenOrNot DEF StoreInv, References, TypeOK, ProgressOK, StoreOK, UowOK, Uow
<1>2. ASSUME NEW f \in Files, dispatch_pending_files(f)
      PROVE  StoreInv'
  <2>1. uow = NoUow
    BY <1>1, <1>2 DEF dispatch_pending_files, ProgressOK
  <2>2. UNCHANGED <<db, session, alerts, outbox, job, mishaps, done>>
    BY <1>2 DEF dispatch_pending_files, alerting
  <2>3. ProgressOK'
    BY <1>1, <1>2, <2>2 DEF ProgressOK, dispatch_pending_files
  <2>4. AlertingOK'
    BY <1>1, <2>2 DEF AlertingOK
  <2> QED BY <2>1, <2>2, <2>3, <2>4, OtherStep
<1>3. CASE file_completed_handler
  <2>1. uow = NoUow /\ UNCHANGED <<db, session, alerts, outbox, job, mishaps, done, begun>>
    BY <1>1, <1>3 DEF file_completed_handler, alerting
  <2>2. ProgressOK'
    BY <1>1, <1>3, <2>1 DEF ProgressOK, file_completed_handler, Settle
  <2>3. AlertingOK'
    BY <1>1, <2>1 DEF AlertingOK
  <2> QED BY <2>1, <2>2, <2>3, OtherStep
<1>4. CASE clean_up_raises
  <2>1. uow = NoUow /\ UNCHANGED <<db, session, alerts, outbox, job, done, begun, status>>
    BY <1>1, <1>4 DEF clean_up_raises, alerting
  <2>2. ProgressOK'
    <3>1. mishaps' \in [outages : Nat, crashes : Nat, unsent : Nat]
      BY <1>1, <1>4, MishapType DEF clean_up_raises, ProgressOK
    <3> QED BY <1>1, <1>4, <2>1, <3>1 DEF ProgressOK, clean_up_raises
  <2>3. AlertingOK'
    BY <1>1, <2>1 DEF AlertingOK
  <2> QED BY <2>1, <2>2, <2>3, OtherStep
<1>5. CASE crash
  <2>1. /\ UNCHANGED <<db, alerts, outbox, done, begun, status>> /\ job' = NoJob /\ file' = NoFile
        /\ uow' = NoUow /\ attempt' = 1 /\ serial' \in Nat /\ serial' >= serial
    BY <1>1, <1>5 DEF crash, CloseUow
  <2>2. ProgressOK'
    <3>1. mishaps' \in [outages : Nat, crashes : Nat, unsent : Nat]
      BY <1>1, <1>5, MishapType DEF crash
    <3> QED BY <1>1, <2>1, <3>1 DEF ProgressOK
  <2>3. AlertingOK'
    BY <1>1, <2>1 DEF AlertingOK
  <2> QED BY <2>1, <2>2, <2>3, OtherStep
<1> QED BY <1>2, <1>3, <1>4, <1>5

LEMMA AlertingStore ==
  ASSUME StoreInv, UNCHANGED content, Alerter \/ mql_alerts_outage
  PROVE  StoreInv'
<1>1. TypeOK /\ ProgressOK /\ AlertingOK
  BY DEF StoreInv, TypeOK
<1>2. LeadIds \subseteq Nat
  BY DEF StoreInv, TypeOK, StoreOK, Tables, LeadIds, LeadRow, Exists
<1>3. UNCHANGED <<progress, db, session>>
  BY DEF Alerter, handle_mql_alerts, commit_mql_alerts, send_email, alert_email_failed, mql_alerts_outage
<1>4. ProgressOK'
  <2>1. mishaps' \in [outages : Nat, crashes : Nat, unsent : Nat]
    BY <1>1, MishapType
    DEF ProgressOK, Alerter, handle_mql_alerts, commit_mql_alerts, send_email, alert_email_failed,
        mql_alerts_outage
  <2> QED BY <1>1, <1>3, <2>1 DEF ProgressOK, progress
<1>5. AlertingOK'
  <2>1. CASE handle_mql_alerts
    <3>1. job'.todo \in [Members -> SUBSET Nat]
      BY <1>2, <2>1 DEF handle_mql_alerts, get_mql_leads, LeadIds
    <3> QED BY <1>1, <2>1, <3>1 DEF AlertingOK, handle_mql_alerts
  <2>2. CASE commit_mql_alerts
    BY <1>1, <1>2, <2>2 DEF AlertingOK, commit_mql_alerts, NoJob
  <2>3. ASSUME NEW m \in Members, send_email(m) \/ alert_email_failed(m)
        PROVE  AlertingOK'
    <3>1. job \in [at : {"sending"}, todo : [Members -> SUBSET Nat], sent : SUBSET Nat]
      BY <1>1, <2>3 DEF AlertingOK, send_email, alert_email_failed, NoJob
    <3>2. job' \in [at : {"sending"}, todo : [Members -> SUBSET Nat], sent : SUBSET Nat]
      <4> DEFINE todo == [job.todo EXCEPT ![m] = {}]
      <4>1. todo \in [Members -> SUBSET Nat] /\ job.sent \cup job.todo[m] \in SUBSET Nat
        BY <3>1
      <4>2. \/ job' = [job EXCEPT !.todo = todo, !.sent = job.sent \cup job.todo[m]]
            \/ job' = [job EXCEPT !.todo = todo]
        BY <2>3, Zenon DEF send_email, alert_email_failed, Unsent
      <4> HIDE DEF todo
      <4> QED BY <3>1, <4>1, <4>2
    <3>3. outbox' \in Seq(SUBSET Nat)
      BY <1>1, <2>3, <3>1 DEF AlertingOK, send_email, alert_email_failed
    <3> QED BY <1>1, <2>3, <3>2, <3>3 DEF AlertingOK, send_email, alert_email_failed
  <2>4. CASE mql_alerts_outage
    BY <1>1, <2>4 DEF AlertingOK, mql_alerts_outage
  <2> QED BY <2>1, <2>2, <2>3, <2>4 DEF Alerter
<1> QED BY <1>3, <1>4, <1>5, OtherStep DEF progress

LEMMA InitStore == Init => StoreInv
<1> SUFFICES ASSUME Init PROVE StoreInv
  OBVIOUS
<1>1. NoDims \in Dims /\ DimsOK(NoDims) /\ \A key \in DimKeys : NoDims[key] = 0
  BY DEF NoDims, Dims, DimsOK, DimIds
<1>2. StoreOK
  BY <1>1 DEF Init, StoreOK, UowOK, Tables
<1>3. ProgressOK
  BY ContentsAssumption DEF Init, ProgressOK, FileContent
<1>4. AlertingOK
  BY DEF Init, AlertingOK
<1>5. References
  BY <1>1 DEF Init, References, Numbered, AllRefer
<1> QED BY <1>2, <1>3, <1>4, <1>5 DEF StoreInv, TypeOK

LEMMA NextStore ==
  ASSUME StoreInv, [Next]_vars
  PROVE  StoreInv'
<1>1. CASE UNCHANGED vars
  <2>1. UNCHANGED <<content, db, session, file, done>> /\ ProgressOK' /\ AlertingOK'
    BY <1>1 DEF vars, progress, alerting, StoreInv, TypeOK, ProgressOK, AlertingOK
  <2> QED BY <2>1, OtherStep
<1>2. CASE Next
  BY <1>2, PersistStore, EndStore, CleanUpStore, ProgressStore, AlertingStore
  DEF Next, Scheduler, Faults
<1> QED BY <1>1, <1>2

\* The variables of Records have their types in every behaviour.
THEOREM TypeCorrect == Spec => []TypeOK
<1>1. StoreInv => TypeOK
  BY DEF StoreInv
<1> QED BY <1>1, InitStore, NextStore, PTL DEF Spec

\* No fact refers to a row that is not there, and no two rows share an id: no commit
\* of a batch is refused by the database for a foreign key.
THEOREM ForeignKeysHold == Spec => []DimensionsHold
<1>1. StoreInv => DimensionsHold
  BY DEF StoreInv, References, Numbered, AllRefer, Refers, DimensionsHold
<1> QED BY <1>1, InitStore, NextStore, PTL DEF Spec

-------------------------------------------------------------------------------
(***************************************************************************)
(* Alerts are backed.  A session takes no lead away and gives none another *)
(* id, so a commit keeps the leads that are alerted; a rollback is refused *)
(* when it would take one.  What a run of handle_mql_alerts has sent is in *)
(* the mail, so what it commits is.                                        *)
(***************************************************************************)
Keeps(old, new) == \A e \in Emails : Exists(old[e]) => Exists(new[e]) /\ new[e].id = old[e].id

AlertsInv ==
  /\ uow # NoUow => Keeps(db.leads, uow.tables.leads)
  /\ job # NoJob => job.sent \subseteq Mailed
  /\ AlertIsBacked

\* What rows of leads and sales do to the leads of the session: nothing, or they give
\* one address another row, with the id it had or with a new one.
LEMMA RowOnLeads ==
  ASSUME StoreInv, UNCHANGED content, persist_lead \/ persist_sale
  PROVE  /\ uow'.next_id \in Nat /\ uow'.next_id >= uow.next_id
         /\ \/ uow'.tables.leads = uow.tables.leads
            \/ \E e \in Emails, after \in LeadRow :
                 /\ uow'.tables.leads = [uow.tables.leads EXCEPT ![e] = after]
                 /\ IF Exists(uow.tables.leads[e])
                    THEN after.id = uow.tables.leads[e].id
                    ELSE after.id = uow.next_id /\ uow'.next_id = uow.next_id + 1
<1>1. /\ uow # NoUow /\ uow \in Uow /\ Session(uow) /\ RowsOK(uow.rows) /\ file \in Files
      /\ uow.next_id \in Nat \ {0}
  BY OpenOrNot
  DEF StoreInv, References, TypeOK, StoreOK, UowOK, ProgressOK, persist_lead, persist_sale, NextRow, Uow
<1>2. uow.rows # << >>
  BY DEF persist_lead, persist_sale, NextRow
<1>3. CASE persist_lead
  <2>1. dto \in LeadDTO
    BY <1>1, <1>2, <1>3 DEF RowsOK, dto, persist_lead, NextRow
  <2> DEFINE found == uow.tables.leads[dto.email]
             entity == IF Exists(found) THEN found ELSE NewLead(uow.next_id, file, dto.data)
             after == apply_update(entity, file, dto.data)
  <2>2. found \in LeadRow \cup {NoLead} /\ dto.data \in LeadData /\ dto.email \in Emails
    BY <1>1, <2>1 DEF Uow, Tables, LeadDTO
  <2>3. entity \in LeadRow
    BY <1>1, <2>2, LeadMethods DEF Exists
  <2>4. entity.id = IF Exists(found) THEN found.id ELSE uow.next_id
    BY <1>1, <2>2, LeadMethods
  <2> HIDE DEF entity
  <2>5. after \in LeadRow /\ after.id = entity.id
    BY <1>1, <2>2, <2>3, LeadMethods
  <2>6. /\ uow'.tables.leads = [uow.tables.leads EXCEPT ![dto.email] = after]
        /\ uow'.next_id = IF Exists(found) THEN uow.next_id ELSE uow.next_id + 1
    <3> HIDE DEF after
    <3>1. uow' = [uow EXCEPT !.rows = Tail(@), !.tables.leads[dto.email] = after,
                             !.next_id = IF Exists(found) THEN @ ELSE @ + 1]
      BY <1>3, Zenon DEF persist_lead, after, entity
    <3> DEFINE t == [uow.tables EXCEPT !.leads[dto.email] = after]
    <3>2. uow' = [uow EXCEPT !.rows = Tail(uow.rows), !.tables = t,
                             !.next_id = IF Exists(found) THEN uow.next_id ELSE uow.next_id + 1]
      BY <3>1, Zenon
    <3>3. t = [uow.tables EXCEPT !.leads = [uow.tables.leads EXCEPT ![dto.email] = after]]
      BY Zenon
    <3>4. t.leads = [uow.tables.leads EXCEPT ![dto.email] = after]
      BY <1>1, <3>3 DEF Uow, Tables
    <3> HIDE DEF t
    <3>5. /\ uow'.tables = t
          /\ uow'.next_id = IF Exists(found) THEN uow.next_id ELSE uow.next_id + 1
      BY <1>1, <3>2 DEF Uow
    <3> QED BY <3>4, <3>5
  <2> HIDE DEF after, found
  <2>7. IF Exists(found)
        THEN after.id = found.id
        ELSE after.id = uow.next_id /\ uow'.next_id = uow.next_id + 1
    BY <2>4, <2>5, <2>6
  <2>8. uow'.next_id \in Nat /\ uow'.next_id >= uow.next_id
    BY <1>1, <2>6
  <2> QED BY <2>2, <2>5, <2>6, <2>7, <2>8 DEF found
<1>4. CASE persist_sale
  <2>1. dto \in SalesDTO
    BY <1>1, <1>2, <1>4 DEF RowsOK, dto, persist_sale, NextRow
  <2> DEFINE v == IF check_exists(uow, dto.transaction_id, dto.sku) THEN uow ELSE add(uow, dto)
  <2>2. Session(v) /\ v.tables.leads = uow.tables.leads /\ v.next_id >= uow.next_id
    BY <1>1, <2>1, AddSession
  <2>3. uow' = [v EXCEPT !.rows = Tail(@)]
    BY <1>4, Zenon DEF persist_sale
  <2> HIDE DEF v
  <2>4. v \in Uow
    BY <2>2 DEF Session, SessionType
  <2>5. uow'.tables = v.tables /\ uow'.next_id = v.next_id /\ v.next_id \in Nat
    BY <2>3, <2>4 DEF Uow
  <2> QED BY <2>2, <2>5
<1> QED BY <1>3, <1>4

LEMMA RowsKeepLeads ==
  ASSUME StoreInv, AlertsInv, UNCHANGED content, persist_lead \/ persist_sale
  PROVE  Keeps(db.leads, uow'.tables.leads)
<1>1. uow # NoUow /\ DOMAIN uow.tables.leads = Emails
  BY OpenOrNot DEF StoreInv, persist_lead, persist_sale, NextRow, Uow, Tables
<1>2. Keeps(uow.tables.leads, uow'.tables.leads)
  BY <1>1, RowOnLeads, RowsExist DEF Keeps
<1> QED BY <1>1, <1>2 DEF AlertsInv, Keeps

\* The alerts stay backed as long as their leads are there and no e-mail goes away.
LEMMA StillBacked ==
  ASSUME AlertIsBacked, Mailed \subseteq Mailed',
         \A e \in Emails :
           Exists(db.leads[e]) /\ db.leads[e].id \in alerts =>
             Exists(db'.leads[e]) /\ db'.leads[e].id = db.leads[e].id,
         alerts' = alerts
  PROVE  AlertIsBacked'
<1> SUFFICES ASSUME NEW id \in alerts PROVE id \in Mailed' /\ id \in LeadIds'
  BY DEF AlertIsBacked
<1>1. PICK e \in Emails : Exists(db.leads[e]) /\ db.leads[e].id = id
  BY DEF AlertIsBacked, LeadIds
<1>2. Exists(db'.leads[e]) /\ db'.leads[e].id = id
  BY <1>1
<1>3. LeadIds' = {db'.leads[a].id : a \in {b \in Emails : Exists(db'.leads[b])}}
  BY DEF LeadIds
<1> QED BY <1>2, <1>3 DEF AlertIsBacked

\* The steps that leave tables, mail and alerts alone, the session apart.
LEMMA QuietStep ==
  ASSUME AlertsInv, UNCHANGED <<db, alerts, outbox>>, UNCHANGED job \/ job' = NoJob,
         uow' # NoUow => Keeps(db.leads, uow'.tables.leads)
  PROVE  AlertsInv'
<1>1. Mailed' = Mailed
  BY DEF Mailed
<1>2. AlertIsBacked'
  BY <1>1, StillBacked DEF AlertsInv
<1> QED BY <1>1, <1>2 DEF AlertsInv

LEMMA CommitAlerts ==
  ASSUME StoreInv, AlertsInv, commit \/ commit_unanswered
  PROVE  AlertsInv'
<1>1. uow # NoUow /\ uow \in Uow
  BY OpenOrNot DEF commit, commit_unanswered, SessionIsCommitted, StoreInv
<1>2. Keeps(db.leads, db'.leads)
  BY <1>1, FlushedFields DEF commit, commit_unanswered, SessionIsCommitted, AlertsInv
<1>3. /\ uow' = NoUow \/ uow'.tables = db'
      /\ UNCHANGED <<alerts, outbox, job>> /\ Mailed' = Mailed
  BY DEF commit, commit_unanswered, CloseUow, Again, Retried, NewUow, alerting, Mailed
<1>4. AlertIsBacked'
  BY <1>2, <1>3, StillBacked DEF AlertsInv, Keeps
<1> QED BY <1>3, <1>4 DEF AlertsInv, Keeps

LEMMA CleanUpAlerts ==
  ASSUME StoreInv, AlertsInv, clean_up
  PROVE  AlertsInv'
<1>1. uow = NoUow /\ file \in Files /\ db \in Tables
  BY OpenOrNot DEF clean_up, StoreInv, TypeOK, StoreOK, ProgressOK
<1>2. PICK leads \in [Emails -> UNION {LeadsAfter(e, file) : e \in Emails}] :
        /\ \A e \in Emails : leads[e] \in LeadsAfter(e, file)
        /\ db' = [db EXCEPT !.leads = leads]
  BY DEF clean_up
<1>3. db'.leads = leads
  BY <1>1, <1>2 DEF Tables
<1>4. ASSUME NEW e \in Emails, Exists(db.leads[e]), db.leads[e].id \in alerts
      PROVE  Exists(db'.leads[e]) /\ db'.leads[e].id = db.leads[e].id
  <2>1. db.leads[e] \in LeadRow
    BY <1>1, <1>4 DEF Tables, Exists
  <2>2. leads[e] \in LeadsAfter(e, file)
    BY <1>2
  <2>3. CASE e \in get_by_source_file(file)
    <3>1. UpdatesOfOthers(db.leads[e], file) # {}
      BY <1>4, <2>3 DEF clean_up, CannotDelete
    <3>2. leads[e] \in rollback(db.leads[e], file)
      BY <2>2, <2>3 DEF LeadsAfter
    <3>3. leads[e] \in LeadRow /\ leads[e].id = db.leads[e].id
      BY <1>1, <2>1, <3>1, <3>2, RollbackOfLead
    <3> QED BY <1>3, <3>3, RowsExist
  <2>4. CASE e \notin get_by_source_file(file)
    BY <1>3, <1>4, <2>2, <2>4 DEF LeadsAfter
  <2> QED BY <2>3, <2>4
<1>5. uow' = NoUow /\ UNCHANGED <<alerts, outbox, job>> /\ Mailed' = Mailed
  BY <1>1 DEF clean_up, session, alerting, Mailed
<1>6. AlertIsBacked'
  BY <1>4, <1>5, StillBacked DEF AlertsInv
<1> QED BY <1>5, <1>6 DEF AlertsInv

LEMMA AlertingAlerts ==
  ASSUME StoreInv, AlertsInv, Alerter
  PROVE  AlertsInv'
<1>1. TypeOK /\ outbox \in Seq(SUBSET Nat)
  BY DEF StoreInv, TypeOK, AlertingOK
<1>2. UNCHANGED <<db, uow>>
  BY DEF Alerter, handle_mql_alerts, commit_mql_alerts, send_email, alert_email_failed, session
<1>3. CASE handle_mql_alerts
  <2>1. UNCHANGED <<alerts, outbox>> /\ job'.sent = {} /\ Mailed' = Mailed
    BY <1>3 DEF handle_mql_alerts, Mailed
  <2>2. AlertIsBacked'
    BY <1>2, <2>1, StillBacked DEF AlertsInv
  <2> QED BY <1>2, <2>1, <2>2 DEF AlertsInv
<1>4. CASE commit_mql_alerts
  <2>1. job # NoJob /\ job' = NoJob /\ Mailed' = Mailed /\ LeadIds' = LeadIds
    BY <1>2, <1>4 DEF commit_mql_alerts, AllSent, NoJob, Mailed, LeadIds
  <2>2. AlertIsBacked'
    BY <1>4, <2>1 DEF commit_mql_alerts, AlertsInv, AlertIsBacked
  <2> QED BY <1>2, <2>1, <2>2 DEF AlertsInv
<1>5. ASSUME NEW m \in Members, send_email(m)
      PROVE  AlertsInv'
  <2>1. job \in [at : {"sending"}, todo : [Members -> SUBSET Nat], sent : SUBSET Nat]
    BY <1>1, <1>5 DEF TypeOK, AlertingOK, send_email, NoJob
  <2>2. job'.sent = job.sent \cup job.todo[m] /\ job # NoJob
    BY <1>5, <2>1 DEF send_email, NoJob
  <2>3. outbox' = Append(outbox, job.todo[m]) /\ job.todo[m] \in SUBSET Nat
    BY <1>5, <2>1 DEF send_email
  <2>4. Mailed \subseteq Mailed' /\ job.todo[m] \subseteq Mailed'
    <3>1. /\ DOMAIN outbox' = 1..(Len(outbox) + 1) /\ outbox'[Len(outbox) + 1] = job.todo[m]
          /\ \A k \in DOMAIN outbox : k \in DOMAIN outbox' /\ outbox'[k] = outbox[k]
          /\ Len(outbox) + 1 \in DOMAIN outbox'
      BY <1>1, <2>3
    <3> QED BY <3>1 DEF Mailed
  <2>5. AlertIsBacked'
    BY <1>2, <1>5, <2>4, StillBacked DEF AlertsInv, send_email
  <2> QED BY <1>2, <2>2, <2>4, <2>5 DEF AlertsInv
<1>6. ASSUME NEW m \in Members, alert_email_failed(m)
      PROVE  AlertsInv'
  <2>1. job \in [at : {"sending"}, todo : [Members -> SUBSET Nat], sent : SUBSET Nat]
    BY <1>1, <1>6 DEF TypeOK, AlertingOK, alert_email_failed, NoJob
  <2>2. job'.sent = job.sent /\ job # NoJob /\ UNCHANGED <<alerts, outbox>> /\ Mailed' = Mailed
    BY <1>6, <2>1 DEF alert_email_failed, Unsent, NoJob, Mailed
  <2>3. AlertIsBacked'
    BY <1>2, <2>2, StillBacked DEF AlertsInv
  <2> QED BY <1>2, <2>2, <2>3 DEF AlertsInv
<1> QED BY <1>3, <1>4, <1>5, <1>6 DEF Alerter

LEMMA NextAlerts ==
  ASSUME StoreInv, AlertsInv, [Next]_vars
  PROVE  AlertsInv'
<1>1. CASE UNCHANGED vars
  BY <1>1, QuietStep DEF vars, alerting, session, AlertsInv
<1>2. CASE (persist_lead \/ persist_sale) /\ UNCHANGED content
  BY <1>2, RowsKeepLeads, QuietStep DEF persist_lead, persist_sale, alerting
<1>3. CASE persist_to_database
  <2>1. uow'.tables = db
    BY <1>3 DEF persist_to_database, NewUow
  <2> QED BY <1>3, <2>1, QuietStep DEF persist_to_database, alerting, Keeps
<1>4. CASE operational_error
  <2>1. uow' = NoUow \/ uow'.tables = db
    BY <1>4 DEF operational_error, Again, Retried, NewUow, CloseUow
  <2> QED BY <1>4, <2>1, QuietStep DEF operational_error, alerting, Keeps
<1>5. CASE commit \/ commit_unanswered
  BY <1>5, CommitAlerts
<1>6. CASE clean_up
  BY <1>6, CleanUpAlerts
<1>7. CASE crash \/ mql_alerts_outage
  BY <1>7, QuietStep DEF crash, mql_alerts_outage, CloseUow, session, AlertsInv
<1>8. CASE (\E f \in Files : dispatch_pending_files(f)) \/ file_completed_handler \/ clean_up_raises
  BY <1>8, QuietStep
  DEF dispatch_pending_files, file_completed_handler, clean_up_raises, session, alerting, AlertsInv
<1>9. CASE Alerter
  BY <1>9, AlertingAlerts
<1> QED BY <1>1, <1>2, <1>3, <1>4, <1>5, <1>6, <1>7, <1>8, <1>9 DEF Next, Scheduler, Faults

\* Whatever is rolled back, retried, refused or crashes while handle_mql_alerts runs, an
\* alert on record is of a lead that exists and that an e-mail spoke of.
THEOREM AlertsAreBacked == Spec => []AlertIsBacked
<1>1. Init => AlertsInv
  BY DEF Init, AlertsInv, AlertIsBacked
<1>2. AlertsInv => AlertIsBacked
  BY DEF AlertsInv
<1> QED BY <1>1, <1>2, InitStore, NextStore, NextAlerts, PTL DEF Spec

-------------------------------------------------------------------------------
(***************************************************************************)
(* No lead is in a second e-mail but for a mishap.  The argument counts.   *)
(* What excuses an e-mail that repeats another is an outage, a crash or a  *)
(* file that was rolled back.  A lead that is neither recorded as alerted  *)
(* nor sent by the run in progress is in at most as many e-mails as there  *)
(* are excuses, and any other lead in one more.  A run that ends without   *)
(* its commit is itself an excuse; a commit that fails because a lead has  *)
(* gone is excused by the rollback that took it, which is why the run has  *)
(* one excuse to spare from then on.                                       *)
(***************************************************************************)
FailedFiles == {f \in Files : status[f] = "FAILED"}
Excuses     == mishaps.outages + mishaps.crashes + Cardinality(FailedFiles)

EmailsAbout(id) == {k \in DOMAIN outbox : id \in outbox[k]}
Count(id)       == Cardinality(EmailsAbout(id))

Sent == IF job = NoJob THEN {} ELSE job.sent
Todo == IF job = NoJob THEN {} ELSE UNION {job.todo[m] : m \in Members}
Lost == ~(Todo \cup Sent \subseteq LeadIds)

CountFits(id) ==
  /\ Count(id) <= 1 + Excuses
  /\ id \notin alerts \cup Sent => Count(id) <= Excuses
  /\ Lost /\ id \in Sent => Count(id) <= Excuses
  /\ Lost /\ id \in Todo => Count(id) < Excuses

\* A run speaks of a lead to one member, and of none that was alerted before.
TodoApart ==
  /\ Todo \cap (alerts \cup Sent) = {}
  /\ job # NoJob => \A m, n \in Members : m # n => job.todo[m] \cap job.todo[n] = {}

MailInv == IsFiniteSet(FailedFiles) /\ TodoApart /\ \A id \in Nat : CountFits(id)

\* No two leads share an id, and the sequence is ahead of all of them.
LeadsNumbered(leads, next_id) ==
  \A a \in Emails :
    Exists(leads[a]) =>
      /\ leads[a].id < next_id
      /\ \A b \in Emails : Exists(leads[b]) /\ leads[b].id = leads[a].id => a = b

IdsInv ==
  /\ LeadsNumbered(db.leads, serial)
  /\ uow # NoUow => LeadsNumbered(uow.tables.leads, uow.next_id)

-------------------------------------------------------------------------------
\* The types the ids of leads are compared by.
LEMMA IdTypes ==
  ASSUME StoreInv
  PROVE  /\ serial \in Nat /\ db \in Tables
         /\ \A a \in Emails : Exists(db.leads[a]) => db.leads[a].id \in Nat
         /\ uow # NoUow =>
              /\ uow \in Uow /\ uow.next_id \in Nat /\ uow.next_id >= serial
              /\ DOMAIN uow.tables.leads = Emails
              /\ \A a \in Emails : Exists(uow.tables.leads[a]) => uow.tables.leads[a].id \in Nat
<1>1. \A tables \in Tables :
        /\ DOMAIN tables.leads = Emails
        /\ \A a \in Emails : Exists(tables.leads[a]) => tables.leads[a].id \in Nat
  BY DEF Tables, LeadRow, Exists
<1>2. serial \in Nat /\ db \in Tables
  BY DEF StoreInv, TypeOK, StoreOK
<1>3. uow # NoUow =>
        uow \in Uow /\ uow.next_id \in Nat /\ uow.next_id >= serial /\ uow.tables \in Tables
  BY OpenOrNot DEF StoreInv, References, Uow
<1> QED BY <1>1, <1>2, <1>3

\* Numbering takes only that ids stay what they are and that the sequence moves on.
LEMMA StillNumbered ==
  ASSUME NEW old, NEW new, NEW m \in Nat, NEW n \in Nat, m <= n, LeadsNumbered(old, m),
         \A a \in Emails :
           Exists(new[a]) => Exists(old[a]) /\ new[a].id = old[a].id /\ old[a].id \in Nat
  PROVE  LeadsNumbered(new, n)
<1>1. ASSUME NEW a \in Emails, Exists(new[a])
      PROVE  new[a].id < n
  BY <1>1 DEF LeadsNumbered
<1> QED BY <1>1 DEF LeadsNumbered

LEMMA RowsKeepIds ==
  ASSUME StoreInv, IdsInv, UNCHANGED content, persist_lead \/ persist_sale
  PROVE  IdsInv'
<1>1. uow # NoUow /\ UNCHANGED <<db, serial>>
  BY OpenOrNot DEF StoreInv, persist_lead, persist_sale, NextRow
<1> DEFINE old == uow.tables.leads
           n == uow.next_id
<1>2. /\ n \in Nat /\ DOMAIN old = Emails /\ LeadsNumbered(old, n)
      /\ \A a \in Emails : Exists(old[a]) => old[a].id \in Nat
  BY <1>1, IdTypes DEF IdsInv
<1>3. LeadsNumbered(uow'.tables.leads, uow'.next_id)
  <2>1. uow'.next_id \in Nat /\ uow'.next_id >= n
    BY RowOnLeads
  <2>2. CASE uow'.tables.leads = old
    BY <1>2, <2>1, <2>2, StillNumbered
  <2>3. CASE uow'.tables.leads # old
    <3>1. PICK e \in Emails, after \in LeadRow :
            /\ uow'.tables.leads = [old EXCEPT ![e] = after]
            /\ IF Exists(old[e])
               THEN after.id = old[e].id
               ELSE after.id = n /\ uow'.next_id = n + 1
      BY <2>3, RowOnLeads
    <3> DEFINE new == [old EXCEPT ![e] = after]
    <3>2. CASE Exists(old[e])
      <4>1. \A a \in Emails :
              Exists(new[a]) => Exists(old[a]) /\ new[a].id = old[a].id /\ old[a].id \in Nat
        BY <1>2, <3>1, <3>2
      <4> HIDE DEF new
      <4>2. LeadsNumbered(new, uow'.next_id)
        BY <1>2, <2>1, <4>1, StillNumbered
      <4> QED BY <3>1, <4>2 DEF new
    <3>3. CASE ~Exists(old[e])
      <4>1. new[e].id = n /\ uow'.next_id = n + 1 /\ \A a \in Emails : a # e => new[a] = old[a]
        BY <1>2, <3>1, <3>3
      <4> HIDE DEF new
      <4>2. \A a \in Emails :
              a # e /\ Exists(new[a]) =>
                new[a].id < n /\ new[a].id \in Nat /\
                \A b \in Emails : b # e /\ Exists(new[b]) /\ new[b].id = new[a].id => a = b
        BY <1>2, <4>1 DEF LeadsNumbered
      <4>3. LeadsNumbered(new, n + 1)
        <5>1. ASSUME NEW a \in Emails, Exists(new[a])
              PROVE  new[a].id < n + 1
          BY <1>2, <4>1, <4>2, <5>1
        <5>2. ASSUME NEW a \in Emails, NEW b \in Emails, Exists(new[a]), Exists(new[b]),
                     new[b].id = new[a].id
              PROVE  a = b
          BY <1>2, <4>1, <4>2, <5>2
        <5> QED BY <5>1, <5>2 DEF LeadsNumbered
      <4> QED BY <3>1, <4>1, <4>3 DEF new
    <3> QED BY <3>2, <3>3
  <2> QED BY <2>2, <2>3
<1> QED BY <1>1, <1>3 DEF IdsInv

LEMMA NextIds ==
  ASSUME StoreInv, IdsInv, [Next]_vars
  PROVE  IdsInv'
<1>1. /\ serial \in Nat /\ LeadsNumbered(db.leads, serial) /\ db \in Tables
      /\ (uow.open <=> uow # NoUow)
      /\ \A a \in Emails : Exists(db.leads[a]) => db.leads[a].id \in Nat
      /\ uow # NoUow => uow.next_id \in Nat /\ uow.next_id >= serial
  BY IdTypes, OpenOrNot DEF IdsInv, StoreInv
<1>2. CASE UNCHANGED <<db, uow, serial>>
  BY <1>2 DEF IdsInv
<1>3. CASE (persist_lead \/ persist_sale) /\ UNCHANGED content
  BY <1>3, RowsKeepIds
<1>4. CASE persist_to_database
  <2>1. uow'.tables = db /\ uow'.next_id = serial /\ UNCHANGED <<db, serial>>
    BY <1>4 DEF persist_to_database, NewUow
  <2> QED BY <1>1, <2>1 DEF IdsInv
<1>5. CASE operational_error \/ crash
  <2>1. /\ db' = db /\ serial' \in Nat /\ serial' >= serial
        /\ uow' # NoUow => uow'.tables = db /\ uow'.next_id = serial'
    BY <1>1, <1>5 DEF operational_error, crash, Again, Retried, NewUow, CloseUow
  <2>2. LeadsNumbered(db.leads, serial')
    BY <1>1, <2>1, StillNumbered
  <2> QED BY <2>1, <2>2 DEF IdsInv
<1>6. CASE commit \/ commit_unanswered
  <2>1. uow # NoUow /\ uow \in Uow
    BY <1>1, <1>6, OpenOrNot DEF commit, commit_unanswered, SessionIsCommitted, StoreInv
  <2>2. db'.leads = uow.tables.leads /\ LeadsNumbered(uow.tables.leads, uow.next_id)
    BY <1>6, <2>1, FlushedFields DEF commit, commit_unanswered, SessionIsCommitted, IdsInv
  <2>3. /\ serial' = uow.next_id
        /\ uow' # NoUow => uow'.tables = db' /\ uow'.next_id = uow.next_id
    BY <1>6 DEF commit, commit_unanswered, CloseUow, Again, Retried, NewUow
  <2> QED BY <2>2, <2>3 DEF IdsInv
<1>7. CASE clean_up
  <2>1. uow = NoUow /\ file \in Files /\ UNCHANGED <<uow, serial>>
    BY <1>1, <1>7 DEF clean_up, session, StoreInv, TypeOK, ProgressOK
  <2>2. PICK leads \in [Emails -> UNION {LeadsAfter(e, file) : e \in Emails}] :
          /\ \A e \in Emails : leads[e] \in LeadsAfter(e, file)
          /\ db' = [db EXCEPT !.leads = leads]
    BY <1>7 DEF clean_up
  <2>3. db'.leads = leads
    BY <1>1, <2>2 DEF Tables
  <2>4. ASSUME NEW a \in Emails, Exists(leads[a])
        PROVE  Exists(db.leads[a]) /\ leads[a].id = db.leads[a].id
    <3>1. leads[a] \in LeadsAfter(a, file)
      BY <2>2
    <3>2. CASE a \in get_by_source_file(file)
      <4>1. Exists(db.leads[a]) /\ db.leads[a] \in LeadRow
        BY <1>1, <3>2 DEF get_by_source_file, Tables, Exists
      <4>2. leads[a] \in rollback(db.leads[a], file)
        BY <3>1, <3>2 DEF LeadsAfter
      <4> QED BY <2>1, <2>4, <4>1, <4>2, RollbackOfLead DEF Exists
    <3>3. CASE a \notin get_by_source_file(file)
      BY <2>4, <3>1, <3>3 DEF LeadsAfter
    <3> QED BY <3>2, <3>3
  <2>5. LeadsNumbered(leads, serial)
    BY <1>1, <2>4, StillNumbered
  <2> QED BY <2>1, <2>3, <2>5 DEF IdsInv
<1>8. ASSUME UNCHANGED vars \/ Alerter \/ mql_alerts_outage
             \/ (\E f \in Files : dispatch_pending_files(f)) \/ file_completed_handler
             \/ clean_up_raises
      PROVE  UNCHANGED <<db, uow, serial>>
  BY <1>8
  DEF vars, Alerter, handle_mql_alerts, commit_mql_alerts, send_email, alert_email_failed,
      mql_alerts_outage, dispatch_pending_files, file_completed_handler, clean_up_raises, session
<1> QED BY <1>2, <1>3, <1>4, <1>5, <1>6, <1>7, <1>8 DEF Next, Scheduler, Faults

-------------------------------------------------------------------------------
\* The counts are natural numbers.
LEMMA MailTypes ==
  ASSUME StoreInv, IsFiniteSet(FailedFiles)
  PROVE  /\ Excuses \in Nat
         /\ \A id \in Nat : IsFiniteSet(EmailsAbout(id)) /\ Count(id) \in Nat
<1>1. mishaps.outages \in Nat /\ mishaps.crashes \in Nat /\ Cardinality(FailedFiles) \in Nat
  BY FS_CardinalityType DEF StoreInv, TypeOK, ProgressOK
<1>2. DOMAIN outbox = 1..Len(outbox) /\ Len(outbox) \in Nat
  BY DEF StoreInv, TypeOK, AlertingOK
<1>3. ASSUME NEW id \in Nat PROVE IsFiniteSet(EmailsAbout(id)) /\ Count(id) \in Nat
  <2>1. IsFiniteSet(1..Len(outbox)) /\ EmailsAbout(id) \in SUBSET (1..Len(outbox))
    BY <1>2, FS_Interval DEF EmailsAbout
  <2>2. IsFiniteSet(EmailsAbout(id))
    BY <2>1, FS_Subset
  <2> QED BY <2>2, FS_CardinalityType DEF Count
<1> QED BY <1>1, <1>3 DEF Excuses

LEMMA SameMail ==
  ASSUME UNCHANGED outbox, NEW id
  PROVE  Count(id)' = Count(id)
BY DEF Count, EmailsAbout

LEMMA OneMoreEmail ==
  ASSUME StoreInv, IsFiniteSet(FailedFiles), NEW ids \in SUBSET Nat, outbox' = Append(outbox, ids),
         NEW id \in Nat
  PROVE  Count(id)' = IF id \in ids THEN Count(id) + 1 ELSE Count(id)
<1>1. /\ DOMAIN outbox' = 1..(Len(outbox) + 1) /\ outbox'[Len(outbox) + 1] = ids
      /\ DOMAIN outbox = 1..Len(outbox) /\ Len(outbox) \in Nat
      /\ \A k \in DOMAIN outbox : outbox'[k] = outbox[k]
  BY DEF StoreInv, TypeOK, AlertingOK
<1> DEFINE last == Len(outbox) + 1
<1>2. last \notin EmailsAbout(id)
  BY <1>1 DEF EmailsAbout
<1>3. EmailsAbout(id)' = IF id \in ids THEN EmailsAbout(id) \cup {last} ELSE EmailsAbout(id)
  BY <1>1 DEF EmailsAbout
<1>4. IsFiniteSet(EmailsAbout(id)) /\ Cardinality(EmailsAbout(id)) \in Nat
  BY MailTypes DEF Count
<1> HIDE DEF last
<1> QED BY <1>2, <1>3, <1>4, FS_AddElement DEF Count

\* An outage or a crash is one more excuse; an e-mail that cannot be written is none.
LEMMA MishapExcuses ==
  ASSUME StoreInv, IsFiniteSet(FailedFiles), UNCHANGED status,
         NEW kind \in {"outages", "crashes", "unsent"}, Mishap(kind)
  PROVE  /\ IsFiniteSet(FailedFiles')
         /\ Excuses' = IF kind = "unsent" THEN Excuses ELSE Excuses + 1
<1>1. mishaps \in [outages : Nat, crashes : Nat, unsent : Nat] /\ Cardinality(FailedFiles) \in Nat
  BY FS_CardinalityType DEF StoreInv, TypeOK, ProgressOK
<1>2. FailedFiles' = FailedFiles
  BY DEF FailedFiles
<1>3. mishaps' = [mishaps EXCEPT ![kind] = mishaps[kind] + 1]
  BY DEF Mishap
<1>4. /\ mishaps'.outages = IF kind = "outages" THEN mishaps.outages + 1 ELSE mishaps.outages
      /\ mishaps'.crashes = IF kind = "crashes" THEN mishaps.crashes + 1 ELSE mishaps.crashes
  BY <1>1, <1>3
<1>5. Excuses' = mishaps'.outages + mishaps'.crashes + Cardinality(FailedFiles)
  BY <1>2 DEF Excuses
<1> QED BY <1>1, <1>2, <1>4, <1>5 DEF Excuses

\* A file that is rolled back is one more excuse; other settlements are none.
LEMMA SettledExcuses ==
  ASSUME StoreInv, IsFiniteSet(FailedFiles), UNCHANGED mishaps, file # NoFile,
         NEW new_status \in {"PROCESSED", "FAILED"}, Settle(new_status)
  PROVE  /\ IsFiniteSet(FailedFiles')
         /\ Excuses' = IF new_status = "FAILED" THEN Excuses + 1 ELSE Excuses
<1>1. /\ file \in Files /\ status[file] = "BUSY" /\ DOMAIN status = Files
      /\ mishaps.outages \in Nat /\ mishaps.crashes \in Nat /\ Cardinality(FailedFiles) \in Nat
  BY FS_CardinalityType DEF StoreInv, TypeOK, ProgressOK
<1>2. /\ file \notin FailedFiles
      /\ FailedFiles' = IF new_status = "FAILED" THEN FailedFiles \cup {file} ELSE FailedFiles
  BY <1>1 DEF Settle, FailedFiles
<1>3. IsFiniteSet(FailedFiles') /\
      Cardinality(FailedFiles') =
        IF new_status = "FAILED" THEN Cardinality(FailedFiles) + 1 ELSE Cardinality(FailedFiles)
  BY <1>2, FS_AddElement
<1>4. Excuses' = mishaps.outages + mishaps.crashes + Cardinality(FailedFiles')
  BY DEF Excuses
<1> QED BY <1>1, <1>3, <1>4 DEF Excuses

\* Steps that end no run, write no e-mail and take no lead away.
LEMMA LeadsStay ==
  ASSUME StoreInv, MailInv, UNCHANGED <<alerts, outbox, job>>, LeadIds \subseteq LeadIds',
         IsFiniteSet(FailedFiles'), Excuses' \in Nat, Excuses' >= Excuses
  PROVE  MailInv'
<1>1. Sent' = Sent /\ Todo' = Todo /\ TodoApart' /\ (Lost' => Lost)
  BY DEF Sent, Todo, TodoApart, Lost, MailInv
<1>2. ASSUME NEW id \in Nat PROVE CountFits(id)'
  BY <1>1, MailTypes, SameMail DEF MailInv, CountFits
<1> QED BY <1>1, <1>2 DEF MailInv

\* Steps that take leads away, or a run, and are an excuse.
LEMMA OneMoreExcuse ==
  ASSUME StoreInv, MailInv, UNCHANGED <<alerts, outbox>>, UNCHANGED job \/ job' = NoJob,
         IsFiniteSet(FailedFiles'), Excuses' = Excuses + 1
  PROVE  MailInv'
<1>1. \/ Sent' = Sent /\ Todo' = Todo
      \/ Sent' = {} /\ Todo' = {}
  BY DEF Sent, Todo
<1>2. TodoApart'
  <2>1. job' # NoJob => UNCHANGED job
    OBVIOUS
  <2> QED BY <1>1, <2>1 DEF TodoApart, MailInv
<1>3. ASSUME NEW id \in Nat PROVE CountFits(id)'
  <2>1. Count(id) \in Nat /\ Excuses \in Nat /\ Count(id)' = Count(id) /\ alerts' = alerts
    BY MailTypes, SameMail DEF MailInv
  <2>2. id \in Todo => Count(id) <= Excuses
    BY DEF MailInv, TodoApart, CountFits
  <2> QED BY <1>1, <2>1, <2>2 DEF MailInv, CountFits
<1> QED BY <1>2, <1>3 DEF MailInv

\* A run begins with leads that are there and were never alerted, each for one member.
LEMMA RunBegins ==
  ASSUME StoreInv, IdsInv, MailInv, handle_mql_alerts
  PROVE  MailInv'
<1>1. UNCHANGED <<db, alerts, outbox, status, mishaps>> /\ job = NoJob /\ job' # NoJob
  BY DEF handle_mql_alerts, progress, NoJob
<1>2. FailedFiles' = FailedFiles /\ Excuses' = Excuses /\ LeadIds' = LeadIds
  BY <1>1 DEF FailedFiles, Excuses, LeadIds
<1> DEFINE For(m) == {a \in get_mql_leads : m \in Recipients(db.leads[a].data.sector)}
<1>3. /\ job'.sent = {}
      /\ \A m \in Members : job'.todo[m] = {db.leads[e].id : e \in For(m)}
  BY DEF handle_mql_alerts
<1>4. Sent' = {} /\ Sent = {} /\ Todo' = UNION {job'.todo[m] : m \in Members}
  BY <1>1, <1>3 DEF Sent, Todo
<1>5. \A id \in Todo' : id \in LeadIds /\ id \notin alerts
  BY <1>3, <1>4 DEF LeadIds, get_mql_leads
<1>6. ~Lost'
  BY <1>2, <1>4, <1>5 DEF Lost
<1>7. ASSUME NEW m \in Members, NEW n \in Members, m # n
      PROVE  job'.todo[m] \cap job'.todo[n] = {}
  <2>1. SUFFICES ASSUME NEW a \in For(m), NEW b \in For(n), db.leads[a].id = db.leads[b].id
                 PROVE  FALSE
    BY <1>3
  <2>2. a = b
    BY <2>1 DEF get_mql_leads, IdsInv, LeadsNumbered
  <2>3. \A sector : \A k, l \in Recipients(sector) : k = l
    <3>1. DOMAIN Team = 1..Len(Team) /\ Len(Team) \in Nat
      BY TeamAssumption
    <3>2. \A sector : \A k, l \in Owners(sector) : k <= l /\ l <= k /\ k \in Int /\ l \in Int
      BY <3>1 DEF Owners, Members
    <3>3. \A sector : \A k, l \in Owners(sector) : k = l
      BY <3>2
    <3> QED BY <3>3 DEF Recipients
  <2> QED BY <1>7, <2>2, <2>3
<1>8. TodoApart'
  BY <1>1, <1>4, <1>5, <1>7 DEF TodoApart
<1>9. ASSUME NEW id \in Nat PROVE CountFits(id)'
  BY <1>1, <1>2, <1>4, <1>6, SameMail DEF MailInv, CountFits
<1> QED BY <1>2, <1>8, <1>9 DEF MailInv

\* What is taken from a member's list is in no list any more.
LEMMA ListDone ==
  ASSUME StoreInv, TodoApart, NEW m \in Members, send_email(m) \/ alert_email_failed(m)
  PROVE  /\ job \in [at : {"sending"}, todo : [Members -> SUBSET Nat], sent : SUBSET Nat]
         /\ job # NoJob /\ job' # NoJob
         /\ job.todo[m] \subseteq Todo /\ Todo' = Todo \ job.todo[m]
         /\ \A k, l \in Members : k # l => job'.todo[k] \cap job'.todo[l] = {}
         /\ Sent = job.sent /\ Sent' = job'.sent
         /\ job'.sent = IF send_email(m) THEN job.sent \cup job.todo[m] ELSE job.sent
<1>1. job \in [at : {"sending"}, todo : [Members -> SUBSET Nat], sent : SUBSET Nat] /\ job # NoJob
  BY DEF StoreInv, TypeOK, AlertingOK, send_email, alert_email_failed, NoJob
<1> DEFINE todo == [job.todo EXCEPT ![m] = {}]
<1>2. \/ send_email(m) /\ job' = [job EXCEPT !.todo = todo, !.sent = job.sent \cup job.todo[m]]
      \/ ~send_email(m) /\ job' = [job EXCEPT !.todo = todo]
  BY Zenon DEF send_email, alert_email_failed, Unsent
<1>3. todo[m] = {} /\ \A k \in Members : k # m => todo[k] = job.todo[k]
  BY <1>1
<1> HIDE DEF todo
<1>4. /\ job'.todo = todo /\ job'.at = "sending"
      /\ job'.sent = IF send_email(m) THEN job.sent \cup job.todo[m] ELSE job.sent
  BY <1>1, <1>2
<1>5. job' # NoJob
  BY <1>4 DEF NoJob
<1>6. Todo' = UNION {todo[k] : k \in Members} /\ Todo = UNION {job.todo[k] : k \in Members}
  BY <1>1, <1>4, <1>5 DEF Todo
<1>7. \A k, l \in Members : k # l => job.todo[k] \cap job.todo[l] = {}
  BY <1>1 DEF TodoApart
<1>8. Todo' = Todo \ job.todo[m]
  <2>1. ASSUME NEW id \in Todo' PROVE id \in Todo \ job.todo[m]
    BY <1>3, <1>6, <1>7, <2>1
  <2>2. ASSUME NEW id \in Todo \ job.todo[m] PROVE id \in Todo'
    BY <1>3, <1>6, <2>2
  <2> QED BY <2>1, <2>2
<1>9. \A k, l \in Members : k # l => todo[k] \cap todo[l] = {}
  BY <1>3, <1>7
<1>10. Sent = job.sent /\ Sent' = job'.sent
  BY <1>1, <1>5 DEF Sent
<1> QED BY <1>1, <1>4, <1>5, <1>6, <1>8, <1>9, <1>10

LEMMA EmailCounts ==
  ASSUME StoreInv, MailInv, NEW m \in Members, send_email(m)
  PROVE  MailInv'
<1>1. UNCHANGED <<db, alerts, status, mishaps>>
  BY DEF send_email, progress
<1>2. FailedFiles' = FailedFiles /\ Excuses' = Excuses /\ LeadIds' = LeadIds
  BY <1>1 DEF FailedFiles, Excuses, LeadIds
<1> DEFINE ids == job.todo[m]
<1>3. TodoApart /\ ids \in SUBSET Nat /\ outbox' = Append(outbox, ids)
  BY ListDone DEF MailInv, send_email
<1>4. ids \subseteq Todo /\ Todo' = Todo \ ids /\ Sent' = Sent \cup ids
  BY <1>3, ListDone
<1>5. TodoApart' /\ (Lost' => Lost)
  <2>1. (Todo \cap (alerts \cup Sent) = {}) /\ alerts' = alerts
    BY <1>1, <1>3 DEF TodoApart
  <2>2. \A k, l \in Members : k # l => job'.todo[k] \cap job'.todo[l] = {}
    BY <1>3, ListDone
  <2> HIDE DEF ids
  <2> QED BY <1>2, <1>4, <2>1, <2>2 DEF TodoApart, Lost
<1> HIDE DEF ids
<1>6. ASSUME NEW id \in Nat PROVE CountFits(id)'
  <2>1. Count(id)' = IF id \in ids THEN Count(id) + 1 ELSE Count(id)
    BY <1>3, OneMoreEmail DEF MailInv
  <2>2. /\ Count(id) \in Nat /\ Excuses \in Nat /\ CountFits(id)
        /\ id \in Todo => id \notin alerts \cup Sent
    BY <1>3, MailTypes DEF MailInv, TodoApart
  <2>3. CASE id \in ids
    BY <1>1, <1>2, <1>4, <1>5, <2>1, <2>2, <2>3 DEF CountFits
  <2>4. CASE id \notin ids
    BY <1>1, <1>2, <1>4, <1>5, <2>1, <2>2, <2>4 DEF CountFits
  <2> QED BY <2>3, <2>4
<1> QED BY <1>2, <1>5, <1>6 DEF MailInv

\* The leads of an e-mail that cannot be written are not in it: nothing is counted.
LEMMA FailedEmailCounts ==
  ASSUME StoreInv, MailInv, NEW m \in Members, alert_email_failed(m), ~send_email(m)
  PROVE  MailInv'
<1>1. UNCHANGED <<db, alerts, status, outbox>>
  BY DEF alert_email_failed, progress
<1>2. IsFiniteSet(FailedFiles') /\ Excuses' = Excuses /\ LeadIds' = LeadIds
  BY <1>1, MishapExcuses DEF alert_email_failed, MailInv, LeadIds
<1>3. TodoApart /\ Todo' \subseteq Todo /\ Sent' = Sent
  BY ListDone DEF MailInv
<1>4. TodoApart' /\ (Lost' => Lost)
  <2>1. (Todo \cap (alerts \cup Sent) = {}) /\ alerts' = alerts
    BY <1>1, <1>3 DEF TodoApart
  <2>2. \A k, l \in Members : k # l => job'.todo[k] \cap job'.todo[l] = {}
    BY <1>3, ListDone
  <2> QED BY <1>2, <1>3, <2>1, <2>2 DEF TodoApart, Lost
<1>5. ASSUME NEW id \in Nat PROVE CountFits(id)'
  BY <1>1, <1>2, <1>3, <1>4, SameMail DEF MailInv, CountFits
<1> QED BY <1>2, <1>4, <1>5 DEF MailInv

\* The commit records what was sent; if it fails, a lead has gone, and the rollback
\* that took it is the excuse of all that were sent.
LEMMA RunCommits ==
  ASSUME StoreInv, MailInv, commit_mql_alerts
  PROVE  MailInv'
<1>1. UNCHANGED <<db, status, mishaps, outbox>> /\ job # NoJob /\ job' = NoJob
  BY DEF commit_mql_alerts, AllSent, NoJob, progress
<1>2. FailedFiles' = FailedFiles /\ Excuses' = Excuses /\ Sent' = {} /\ Todo' = {} /\ Sent = job.sent
  BY <1>1 DEF FailedFiles, Excuses, Sent, Todo
<1>3. alerts' = IF Sent \subseteq LeadIds THEN alerts \cup Sent ELSE alerts
  BY <1>2 DEF commit_mql_alerts
<1>4. ~(Sent \subseteq LeadIds) => Lost
  BY DEF Lost
<1>5. TodoApart'
  BY <1>1, <1>2 DEF TodoApart
<1>6. ASSUME NEW id \in Nat PROVE CountFits(id)'
  BY <1>1, <1>2, <1>3, <1>4, SameMail DEF MailInv, CountFits
<1> QED BY <1>2, <1>5, <1>6 DEF MailInv

\* The scheduler's steps and the faults, by what they do to the leads and the excuses.
LEMMA SchedulerCounts ==
  ASSUME StoreInv, AlertsInv, MailInv, UNCHANGED content, Scheduler
  PROVE  MailInv'
<1>1. /\ UNCHANGED <<alerts, outbox, job>> /\ Excuses \in Nat /\ IsFiniteSet(FailedFiles)
      /\ (uow.open <=> uow # NoUow)
  BY MailTypes, OpenOrNot
  DEF Scheduler, dispatch_pending_files, persist_to_database, persist_lead, persist_sale, commit,
      file_completed_handler, clean_up, clean_up_raises, alerting, MailInv, StoreInv
<1>2. UNCHANGED db => LeadIds' = LeadIds
  BY DEF LeadIds
<1>3. CASE persist_to_database \/ persist_lead \/ persist_sale
  <2>1. UNCHANGED <<db, status, mishaps>>
    BY <1>3 DEF persist_to_database, persist_lead, persist_sale, progress
  <2>2. FailedFiles' = FailedFiles /\ Excuses' = Excuses
    BY <2>1 DEF FailedFiles, Excuses
  <2> QED BY <1>1, <1>2, <2>1, <2>2, LeadsStay
<1>4. ASSUME NEW f \in Files, dispatch_pending_files(f)
      PROVE  MailInv'
  <2>1. UNCHANGED <<db, mishaps>> /\ DOMAIN status = Files
    BY <1>4 DEF dispatch_pending_files, StoreInv, TypeOK, ProgressOK
  <2>2. FailedFiles' = FailedFiles
    BY <1>4, <2>1 DEF dispatch_pending_files, FailedFiles
  <2>3. Excuses' = Excuses
    BY <2>1, <2>2 DEF Excuses
  <2> QED BY <1>1, <1>2, <2>1, <2>2, <2>3, LeadsStay
<1>5. CASE file_completed_handler
  <2>1. UNCHANGED <<db, mishaps>> /\ file # NoFile /\ Settle("PROCESSED")
    BY <1>5 DEF file_completed_handler
  <2>2. IsFiniteSet(FailedFiles') /\ Excuses' = Excuses
    BY <1>1, <2>1, SettledExcuses
  <2> QED BY <1>1, <1>2, <2>1, <2>2, LeadsStay
<1>6. CASE clean_up
  <2>1. UNCHANGED mishaps /\ file # NoFile /\ Settle("FAILED")
    BY <1>6 DEF clean_up
  <2>2. IsFiniteSet(FailedFiles') /\ Excuses' = Excuses + 1
    BY <1>1, <2>1, SettledExcuses
  <2> QED BY <1>1, <2>2, OneMoreExcuse
<1>7. CASE clean_up_raises
  <2>1. UNCHANGED <<db, status>>
    BY <1>7 DEF clean_up_raises
  <2>2. IsFiniteSet(FailedFiles') /\ Excuses' \in Nat /\ Excuses' >= Excuses
    <3>1. CASE UNCHANGED mishaps
      BY <1>1, <2>1, <3>1 DEF FailedFiles, Excuses
    <3>2. CASE Mishap("outages")
      BY <1>1, <2>1, <3>2, MishapExcuses
    <3> QED BY <1>7, <3>1, <3>2 DEF clean_up_raises
  <2> QED BY <1>1, <1>2, <2>1, <2>2, LeadsStay
<1>8. CASE commit
  <2>1. LeadIds \subseteq LeadIds'
    <3>1. uow # NoUow /\ uow \in Uow /\ db'.leads = Flushed(uow).tables.leads
      BY <1>1, <1>8, OpenOrNot DEF commit, SessionIsCommitted, StoreInv
    <3>2. Keeps(db.leads, db'.leads)
      BY <3>1, FlushedFields DEF AlertsInv
    <3> QED BY <3>2 DEF Keeps, LeadIds
  <2>2. UNCHANGED <<status, mishaps>>
    BY <1>8 DEF commit
  <2>3. FailedFiles' = FailedFiles /\ Excuses' = Excuses
    BY <2>2 DEF FailedFiles, Excuses
  <2> QED BY <1>1, <2>1, <2>3, LeadsStay
<1> QED BY <1>3, <1>4, <1>5, <1>6, <1>7, <1>8 DEF Scheduler

LEMMA FaultsCount ==
  ASSUME StoreInv, MailInv, Faults
  PROVE  MailInv'
<1>1. UNCHANGED <<status, alerts, outbox>> /\ (UNCHANGED job \/ job' = NoJob)
  BY DEF Faults, operational_error, commit_unanswered, mql_alerts_outage, crash, progress, alerting
<1>2. Mishap("outages") \/ Mishap("crashes")
  BY DEF Faults, operational_error, commit_unanswered, mql_alerts_outage, crash
<1>3. IsFiniteSet(FailedFiles') /\ Excuses' = Excuses + 1
  BY <1>1, <1>2, MishapExcuses DEF MailInv
<1> QED BY <1>1, <1>3, OneMoreExcuse

LEMMA NextMail ==
  ASSUME StoreInv, AlertsInv, IdsInv, MailInv, [Next]_vars
  PROVE  MailInv'
<1>1. CASE UNCHANGED vars
  <2>1. UNCHANGED <<db, status, mishaps, alerts, outbox, job>>
    BY <1>1 DEF vars, progress, alerting
  <2>2. FailedFiles' = FailedFiles /\ Excuses' = Excuses /\ LeadIds' = LeadIds
    BY <2>1 DEF FailedFiles, Excuses, LeadIds
  <2>3. IsFiniteSet(FailedFiles) /\ Excuses \in Nat
    BY MailTypes DEF MailInv
  <2> QED BY <2>1, <2>2, <2>3, LeadsStay
<1>2. CASE Scheduler /\ UNCHANGED content
  BY <1>2, SchedulerCounts
<1>3. CASE Alerter
  BY <1>3, RunBegins, EmailCounts, FailedEmailCounts, RunCommits DEF Alerter
<1>4. CASE Faults
  BY <1>4, FaultsCount
<1> QED BY <1>1, <1>2, <1>3, <1>4 DEF Next

\* A lead is in a second e-mail only if an outage, a crash or a rollback lost the commit
\* that records the first.
THEOREM LeadsAreSentOnce == Spec => []SentOnceButForMishaps
<1>1. ASSUME Init PROVE IdsInv /\ MailInv
  <2>1. FailedFiles = {} /\ Excuses = 0
    <3>1. FailedFiles = {} /\ mishaps.outages = 0 /\ mishaps.crashes = 0
      BY <1>1 DEF Init, FailedFiles
    <3>2. Cardinality(FailedFiles) = 0
      BY <3>1, FS_EmptySet
    <3> QED BY <3>1, <3>2 DEF Excuses
  <2>2. \A id : EmailsAbout(id) = {}
    BY <1>1 DEF Init, EmailsAbout
  <2>3. \A id : Count(id) = 0
    BY <2>2, FS_EmptySet DEF Count
  <2>4. Sent = {} /\ Todo = {} /\ ~Lost
    BY <1>1 DEF Init, Sent, Todo, Lost
  <2>5. IdsInv
    BY <1>1 DEF Init, IdsInv, LeadsNumbered, Exists
  <2> QED BY <1>1, <2>1, <2>3, <2>4, <2>5, FS_EmptySet DEF Init, MailInv, TodoApart, CountFits
<1>2. Init => AlertsInv
  BY DEF Init, AlertsInv, AlertIsBacked
<1>3. StoreInv /\ MailInv => SentOnceButForMishaps
  <2> SUFFICES ASSUME StoreInv, MailInv, NEW id \in Mailed
               PROVE  Count(id) <= 1 + Excuses
    <3>1. /\ \A id : Count(id) = Cardinality({k \in DOMAIN outbox : id \in outbox[k]})
          /\ Cardinality(FailedFiles) = Cardinality({f \in Files : status[f] = "FAILED"})
      BY DEF Count, EmailsAbout, FailedFiles
    <3>2. ASSUME StoreInv, MailInv
          PROVE  /\ mishaps.outages \in Nat /\ mishaps.crashes \in Nat
                 /\ Cardinality(FailedFiles) \in Nat
      BY <3>2, FS_CardinalityType DEF StoreInv, TypeOK, ProgressOK, MailInv
    <3>3. ASSUME StoreInv, MailInv, NEW id \in Mailed
          PROVE  Cardinality({k \in DOMAIN outbox : id \in outbox[k]})
                   <= 1 + mishaps.outages + mishaps.crashes + Cardinality(FailedFiles)
      <4> DEFINE total == mishaps.outages + mishaps.crashes + Cardinality(FailedFiles)
      <4>1. Count(id) <= 1 + total
        BY <3>3 DEF Excuses
      <4>2. 1 + total = 1 + mishaps.outages + mishaps.crashes + Cardinality(FailedFiles)
        BY <3>2, <3>3
      <4> HIDE DEF total
      <4> QED BY <3>1, <4>1, <4>2
    <3> QED BY <3>1, <3>3 DEF SentOnceButForMishaps
  <2>1. id \in Nat
    BY DEF Mailed, StoreInv, TypeOK, AlertingOK
  <2> QED BY <2>1 DEF MailInv, CountFits
<1> QED BY <1>1, <1>2, <1>3, InitStore, NextStore, NextAlerts, NextIds, NextMail, PTL DEF Spec
===============================================================================

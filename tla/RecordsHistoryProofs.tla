------------------------- MODULE RecordsHistoryProofs --------------------------
(***************************************************************************)
(* The tables of leads and of facts are functions of the log of all        *)
(* committed rows, for every content of the files, whatever is retried,    *)
(* refused, lost or rolled back.                                           *)
(***************************************************************************)
EXTENDS RecordsInvariant, RecordsProofs, FoldTheorems

-------------------------------------------------------------------------------
(***************************************************************************)
(* Logs, and the first entries of their keys.                              *)
(***************************************************************************)
Place      == Nat \X Nat \X Nat
IsLog(log) == \A x \in log : x.at \in Place

\* Every entry of new comes after all of log.
ComesLast(new, log) == new.at \in Place /\ \A x \in log : Earlier(x, new)

Known(key, log) == \E x \in log : x.key = key

\* Places are in a strict total order.
LEMMA EarlierOrders ==
  ASSUME NEW x, NEW y, x.at \in Place, y.at \in Place
  PROVE  /\ ~Earlier(x, x)
         /\ ~(Earlier(x, y) /\ Earlier(y, x))
         /\ Earlier(x, y) \/ Earlier(y, x) \/ x.at = y.at
BY DEF Earlier, Place

\* A set of entries has an earliest one.
LEMMA Earliest ==
  ASSUME NEW T, T # {}, IsLog(T)
  PROVE  \E x \in T : \A y \in T : ~Earlier(y, x)
<1>1. \A x \in T : x.at[1] \in Nat /\ x.at[2] \in Nat /\ x.at[3] \in Nat
  BY DEF IsLog, Place
<1> DEFINE N1 == {x.at[1] : x \in T}
<1>2. PICK i \in N1 : \A n \in N1 : i <= n
  <2>1. N1 \in SUBSET Nat /\ N1 # {}
    BY <1>1
  <2> HIDE DEF N1
  <2> QED BY <2>1, LeastNumber
<1> DEFINE N2 == {x.at[2] : x \in {y \in T : y.at[1] = i}}
<1>3. PICK j \in N2 : \A n \in N2 : j <= n
  <2>1. N2 \in SUBSET Nat /\ N2 # {}
    BY <1>1, <1>2
  <2> HIDE DEF N2
  <2> QED BY <2>1, LeastNumber
<1> DEFINE N3 == {x.at[3] : x \in {y \in T : y.at[1] = i /\ y.at[2] = j}}
<1>4. PICK k \in N3 : \A n \in N3 : k <= n
  <2>1. N3 \in SUBSET Nat /\ N3 # {}
    BY <1>1, <1>3
  <2> HIDE DEF N3
  <2> QED BY <2>1, LeastNumber
<1>5. PICK x \in T : x.at[1] = i /\ x.at[2] = j /\ x.at[3] = k
  BY <1>4
<1>6. ASSUME NEW y \in T
      PROVE  /\ i <= y.at[1]
             /\ y.at[1] = i => j <= y.at[2]
             /\ y.at[1] = i /\ y.at[2] = j => k <= y.at[3]
  BY <1>2, <1>3, <1>4
<1> HIDE DEF N1, N2, N3
<1>7. \A y \in T : ~Earlier(y, x)
  BY <1>1, <1>5, <1>6 DEF Earlier
<1> QED BY <1>7

\* A key that is in the log has a first entry.
LEMMA FirstExists ==
  ASSUME NEW log, IsLog(log), NEW x \in log
  PROVE  \E y \in Firsts(log) : y.key = x.key /\ ~Earlier(x, y)
<1> DEFINE T == {y \in log : y.key = x.key}
<1>1. T # {} /\ IsLog(T)
  BY DEF IsLog
<1>2. PICK y \in T : \A z \in T : ~Earlier(z, y)
  <2> HIDE DEF T
  <2> QED BY <1>1, Earliest
<1> QED BY <1>2 DEF Firsts

\* An entry at the end of the log is a first one if its key is new, and changes no other.
LEMMA FirstsGrow ==
  ASSUME NEW log, IsLog(log), NEW new, ComesLast(new, log)
  PROVE  Firsts(log \cup {new}) =
           IF Known(new.key, log) THEN Firsts(log) ELSE Firsts(log) \cup {new}
<1>1. \A x \in log : ~Earlier(new, x) /\ Earlier(x, new)
  BY EarlierOrders DEF ComesLast, IsLog
<1>2. ~Earlier(new, new)
  BY EarlierOrders DEF ComesLast
<1>3. ASSUME NEW x \in log
      PROVE  x \in Firsts(log \cup {new}) <=> x \in Firsts(log)
  BY <1>1 DEF Firsts
<1>4. new \in Firsts(log \cup {new}) <=> ~Known(new.key, log)
  BY <1>1, <1>2 DEF Firsts, Known
<1>5. new \notin log
  BY <1>1, <1>2
<1>6. Firsts(log) \subseteq log /\ Firsts(log \cup {new}) \subseteq log \cup {new}
  BY DEF Firsts
<1> QED BY <1>3, <1>4, <1>5, <1>6

\* The ranks of first entries count from one.
LEMMA Ranks ==
  ASSUME NEW firsts, IsFiniteSet(firsts), IsLog(firsts)
  PROVE  \A x \in firsts : Rank(x, firsts) \in 1..Cardinality(firsts)
<1> SUFFICES ASSUME NEW x \in firsts PROVE Rank(x, firsts) \in 1..Cardinality(firsts)
  OBVIOUS
<1> DEFINE upto == {y \in firsts : y = x \/ Earlier(y, x)}
<1>1. upto \in SUBSET firsts /\ x \in upto
  OBVIOUS
<1>2. IsFiniteSet(upto) /\ Cardinality(upto) <= Cardinality(firsts)
  <2> HIDE DEF upto
  <2> QED BY <1>1, FS_Subset
<1>3. Cardinality(upto) \in Nat /\ Cardinality(upto) # 0 /\ Cardinality(firsts) \in Nat
  <2> HIDE DEF upto
  <2> QED BY <1>1, <1>2, FS_CardinalityType, FS_EmptySet
<1>4. Rank(x, firsts) = Cardinality(upto)
  BY DEF Rank
<1> QED BY <1>2, <1>3, <1>4

\* An entry that comes last has the last rank and changes no other.
LEMMA RanksGrow ==
  ASSUME NEW firsts, IsFiniteSet(firsts), IsLog(firsts), NEW new, ComesLast(new, firsts)
  PROVE  /\ new \notin firsts
         /\ IsFiniteSet(firsts \cup {new})
         /\ Cardinality(firsts) \in Nat
         /\ Cardinality(firsts \cup {new}) = Cardinality(firsts) + 1
         /\ Rank(new, firsts \cup {new}) = Cardinality(firsts) + 1
         /\ \A x \in firsts : Rank(x, firsts \cup {new}) = Rank(x, firsts)
<1>1. \A x \in firsts : Earlier(x, new) /\ ~Earlier(new, x)
  BY EarlierOrders DEF ComesLast, IsLog
<1>2. ~Earlier(new, new)
  BY EarlierOrders DEF ComesLast
<1>3. new \notin firsts
  BY <1>1, <1>2
<1>4. /\ IsFiniteSet(firsts \cup {new}) /\ Cardinality(firsts \cup {new}) = Cardinality(firsts) + 1
      /\ Cardinality(firsts) \in Nat
  BY <1>3, FS_AddElement, FS_CardinalityType
<1>5. {y \in firsts \cup {new} : y = new \/ Earlier(y, new)} = firsts \cup {new}
  BY <1>1
<1>6. \A x \in firsts :
        {y \in firsts \cup {new} : y = x \/ Earlier(y, x)} = {y \in firsts : y = x \/ Earlier(y, x)}
  BY <1>1, <1>3
<1> QED BY <1>3, <1>4, <1>5, <1>6 DEF Rank

-------------------------------------------------------------------------------
(***************************************************************************)
(* Facts, as a function of a log.                                          *)
(***************************************************************************)
LEMMA FactOfEntry ==
  ASSUME NEW facts \in Seq(Fact), NEW log, IsLog(log), NEW dims, FactsFit(facts, log, dims)
  PROVE  /\ IsLog(Firsts(log))
         /\ Cardinality(Firsts(log)) = Len(facts)
         /\ \A x \in Firsts(log) :
              LET k == Rank(x, Firsts(log))
              IN  k \in DOMAIN facts /\ facts[k] \in Fact /\ IsFactOf(facts[k], x, dims)
         /\ \A k \in DOMAIN facts : \E x \in Firsts(log) : Rank(x, Firsts(log)) = k
<1> DEFINE firsts == Firsts(log)
<1>1. IsFiniteSet(firsts) /\ IsLog(firsts) /\ Cardinality(firsts) = Len(facts)
  BY DEF FactsFit, AreFactsOf, Firsts, IsLog
<1>2. \A x \in firsts : Rank(x, firsts) \in 1..Len(facts)
  <2> HIDE DEF firsts
  <2> QED BY <1>1, Ranks
<1>3. \A x \in firsts : IsFactOf(facts[Rank(x, firsts)], x, dims)
  BY DEF FactsFit, AreFactsOf
<1>4. \A k \in DOMAIN facts : \E x \in firsts : Rank(x, firsts) = k
  BY DEF FactsFit
<1>5. DOMAIN facts = 1..Len(facts) /\ \A k \in DOMAIN facts : facts[k] \in Fact
  OBVIOUS
<1> HIDE DEF firsts
<1> QED BY <1>1, <1>2, <1>3, <1>4, <1>5 DEF firsts

\* Facts stay what they are when the rows they refer to keep their ids.
LEMMA FactsOfOtherDims ==
  ASSUME NEW facts \in Seq(Fact), NEW log, IsLog(log), NEW old, NEW new,
         FactsFit(facts, log, old),
         \A x \in log : x.row \in SalesDTO,
         \A key \in DimKeys : old[key] # 0 => new[key] = old[key]
  PROVE  FactsFit(facts, log, new)
<1>1. ASSUME NEW x \in Firsts(log)
      PROVE  IsFactOf(facts[Rank(x, Firsts(log))], x, new)
  <2> DEFINE fact == facts[Rank(x, Firsts(log))]
  <2>1. fact \in Fact /\ IsFactOf(fact, x, old)
    BY FactOfEntry
  <2> HIDE DEF fact
  <2>2. fact.product_id # 0 /\ fact.customer_id # 0 /\ fact.date_id # 0
    BY <2>1, KeysAssumption DEF Fact
  <2>3. x.row.sku \in DimKeys /\ x.row.customer \in DimKeys /\ x.row.date \in DimKeys
    BY DEF Firsts, SalesDTO, DimKeys
  <2>4. IsFactOf(fact, x, new)
    BY <2>1, <2>2, <2>3 DEF IsFactOf
  <2> QED BY <2>4 DEF fact
<1> QED BY <1>1 DEF FactsFit, AreFactsOf

\* A row of a known sale adds none.
LEMMA FactsOfKnownSale ==
  ASSUME NEW facts, NEW log, IsLog(log), NEW dims, FactsFit(facts, log, dims),
         NEW new, ComesLast(new, log), Known(new.key, log)
  PROVE  FactsFit(facts, log \cup {new}, dims)
<1>1. Firsts(log \cup {new}) = Firsts(log)
  BY FirstsGrow
<1> QED BY <1>1 DEF FactsFit, AreFactsOf

\* A row of a new sale adds its own.
LEMMA FactsOfNewSale ==
  ASSUME NEW facts \in Seq(Fact), NEW log, IsLog(log), NEW dims, FactsFit(facts, log, dims),
         NEW new, ComesLast(new, log), ~Known(new.key, log),
         NEW fact \in Fact, IsFactOf(fact, new, dims)
  PROVE  FactsFit(Append(facts, fact), log \cup {new}, dims)
<1> DEFINE firsts == Firsts(log)
           more == firsts \cup {new}
           longer == Append(facts, fact)
<1>1. Firsts(log \cup {new}) = more
  BY FirstsGrow
<1>2. /\ IsLog(firsts) /\ Cardinality(firsts) = Len(facts)
      /\ \A x \in firsts :
           Rank(x, firsts) \in DOMAIN facts /\ IsFactOf(facts[Rank(x, firsts)], x, dims)
      /\ \A k \in DOMAIN facts : \E x \in firsts : Rank(x, firsts) = k
  BY FactOfEntry
<1>3. IsFiniteSet(firsts) /\ ComesLast(new, firsts)
  BY DEF FactsFit, ComesLast, Firsts
<1> HIDE DEF firsts
<1>4. /\ IsFiniteSet(more)
      /\ Cardinality(more) = Len(facts) + 1
      /\ Rank(new, more) = Len(facts) + 1
      /\ \A x \in firsts : Rank(x, more) = Rank(x, firsts)
  BY <1>2, <1>3, RanksGrow
<1>5. /\ Len(longer) = Len(facts) + 1
      /\ longer[Len(facts) + 1] = fact
      /\ \A k \in DOMAIN facts : longer[k] = facts[k]
      /\ DOMAIN longer = DOMAIN facts \cup {Len(facts) + 1}
  OBVIOUS
<1>6. ASSUME NEW x \in more PROVE IsFactOf(longer[Rank(x, more)], x, dims)
  <2>1. CASE x = new
    BY <1>4, <1>5, <2>1
  <2>2. CASE x \in firsts
    BY <1>2, <1>4, <1>5, <2>2
  <2> QED BY <2>1, <2>2
<1>7. ASSUME NEW k \in DOMAIN longer PROVE \E x \in more : Rank(x, more) = k
  <2>1. CASE k = Len(facts) + 1
    BY <1>4, <2>1
  <2>2. CASE k \in DOMAIN facts
    BY <1>2, <1>4, <2>2
  <2> QED BY <1>5, <2>1, <2>2
<1> HIDE DEF more, longer
<1> QED BY <1>1, <1>4, <1>5, <1>6, <1>7 DEF FactsFit, AreFactsOf, longer

\* When entries are taken out of the log of which none is a first one, facts stay.
LEMMA FactsOfShorterLog ==
  ASSUME NEW facts, NEW log, IsLog(log), NEW dims, FactsFit(facts, log, dims),
         NEW rest \in SUBSET log, Firsts(log) \subseteq rest
  PROVE  FactsFit(facts, rest, dims)
<1>1. Firsts(log) \subseteq Firsts(rest)
  BY DEF Firsts
<1>2. ASSUME NEW x \in Firsts(rest), x \notin Firsts(log)
      PROVE  FALSE
  <2>1. PICK z \in log : Earlier(z, x) /\ z.key = x.key
    BY <1>2 DEF Firsts
  <2>2. PICK w \in Firsts(log) : w.key = z.key /\ ~Earlier(z, w)
    BY <2>1, FirstExists
  <2>3. w \in rest /\ w.key = x.key
    BY <2>1, <2>2
  <2>4. w.at \in Place /\ x.at \in Place /\ z.at \in Place
    BY <2>1, <2>2 DEF IsLog, Firsts
  <2>5. ~Earlier(w, x)
    BY <2>3 DEF Firsts
  <2> QED BY <2>1, <2>2, <2>4, <2>5 DEF Earlier, Place
<1>3. Firsts(rest) = Firsts(log)
  BY <1>1, <1>2
<1> QED BY <1>3 DEF FactsFit, AreFactsOf

-------------------------------------------------------------------------------
(***************************************************************************)
(* Leads, as a function of a log.                                          *)
(***************************************************************************)
IsLeadLog(log) ==
  /\ IsLog(log)
  /\ \A x \in log : /\ x.row \in LeadDTO /\ x.file \in Files
                    /\ x.key = KeyOf("leads", x.file, x.row)

\* A history is made of snapshots.
LEMMA HistoryType ==
  ASSUME NEW log, IsLeadLog(log), NEW e
  PROVE  History(e, log) \subseteq LeadSnapshot
BY DEF History, Firsts, IsLeadLog, LeadDTO, Snapshot, LeadSnapshot

\* The history of an address has a snapshot of every file and time that the log has.
LEMMA KeysInHistory ==
  ASSUME NEW log, IsLeadLog(log), NEW e, NEW f, NEW data
  PROVE  Known(KeyOf("leads", f, [email |-> e, data |-> data]), log) <=>
           \E u \in History(e, log) :
             /\ u.source_file_id = f
             /\ u.data.incoming_timestamp = data.incoming_timestamp
<1> DEFINE key == <<e, f, data.incoming_timestamp>>
<1>1. KeyOf("leads", f, [email |-> e, data |-> data]) = key
  BY DEF KeyOf
<1>2. \A x \in log : x.key = <<x.row.email, x.file, x.row.data.incoming_timestamp>>
  BY DEF IsLeadLog, KeyOf
<1>3. ASSUME NEW x \in log, x.key = key
      PROVE  \E u \in History(e, log) :
               u.source_file_id = f /\ u.data.incoming_timestamp = data.incoming_timestamp
  <2>1. PICK y \in Firsts(log) : y.key = x.key
    BY FirstExists DEF IsLeadLog
  <2>2. y \in log
    BY DEF Firsts
  <2>3. y.row.email = e /\ y.file = f /\ y.row.data.incoming_timestamp = data.incoming_timestamp
    BY <1>2, <1>3, <2>1, <2>2
  <2>4. Snapshot(y.file, y.row.data) \in History(e, log)
    BY <2>3 DEF History
  <2> QED BY <2>3, <2>4 DEF Snapshot
<1>4. ASSUME NEW u \in History(e, log), u.source_file_id = f,
             u.data.incoming_timestamp = data.incoming_timestamp
      PROVE  Known(key, log)
  <2>1. PICK x \in Firsts(log) : x.row.email = e /\ u = Snapshot(x.file, x.row.data)
    BY DEF History
  <2>2. x \in log /\ x.file = f /\ x.row.data.incoming_timestamp = data.incoming_timestamp
    BY <1>4, <2>1 DEF Firsts, Snapshot
  <2>3. x.key = key
    BY <1>2, <2>1, <2>2
  <2> QED BY <2>2, <2>3 DEF Known
<1> HIDE DEF key
<1> QED BY <1>1, <1>3, <1>4 DEF Known

\* A row at the end of the log adds its snapshot, if none is there of its file and time.
LEMMA HistoryGrows ==
  ASSUME NEW log, IsLeadLog(log), NEW new, ComesLast(new, log),
         new.row \in LeadDTO, new.file \in Files, new.key = KeyOf("leads", new.file, new.row)
  PROVE  \A e \in Emails :
           History(e, log \cup {new}) =
             IF new.row.email = e
             THEN AddSnapshot(History(e, log), Snapshot(new.file, new.row.data))
             ELSE History(e, log)
<1> SUFFICES ASSUME NEW e \in Emails
             PROVE  History(e, log \cup {new}) =
                      IF new.row.email = e
                      THEN AddSnapshot(History(e, log), Snapshot(new.file, new.row.data))
                      ELSE History(e, log)
  OBVIOUS
<1>1. Firsts(log \cup {new}) =
        IF Known(new.key, log) THEN Firsts(log) ELSE Firsts(log) \cup {new}
  BY FirstsGrow DEF IsLeadLog
<1>2. CASE new.row.email # e
  BY <1>1, <1>2 DEF History
<1>3. CASE new.row.email = e
  <2> DEFINE snapshot == Snapshot(new.file, new.row.data)
  <2>1. new.row = [email |-> e, data |-> new.row.data]
    BY <1>3 DEF LeadDTO
  <2>2. Known(new.key, log) <=>
          \E u \in History(e, log) :
            /\ u.source_file_id = new.file
            /\ u.data.incoming_timestamp = new.row.data.incoming_timestamp
    BY <2>1, KeysInHistory
  <2>3. snapshot.source_file_id = new.file /\ snapshot.data = new.row.data
    BY DEF Snapshot
  <2>4. AddSnapshot(History(e, log), snapshot) =
          IF Known(new.key, log) THEN History(e, log) ELSE History(e, log) \cup {snapshot}
    BY <2>2, <2>3 DEF AddSnapshot
  <2>5. CASE Known(new.key, log)
    BY <1>1, <1>3, <2>4, <2>5 DEF History
  <2>6. CASE ~Known(new.key, log)
    <3>1. {y \in Firsts(log) \cup {new} : y.row.email = e} =
            {y \in Firsts(log) : y.row.email = e} \cup {new}
      BY <1>3
    <3>2. History(e, log \cup {new}) = History(e, log) \cup {snapshot}
      BY <1>1, <2>6, <3>1 DEF History
    <3> QED BY <1>3, <2>4, <2>6, <3>2
  <2> QED BY <2>5, <2>6
<1> QED BY <1>2, <1>3

\* A row that is in the log already adds nothing.
LEMMA HistoryHas ==
  ASSUME NEW log, IsLeadLog(log), NEW x \in log
  PROVE  AddSnapshot(History(x.row.email, log), Snapshot(x.file, x.row.data)) =
           History(x.row.email, log)
<1>1. Known(x.key, log) /\ x.row = [email |-> x.row.email, data |-> x.row.data]
      /\ x.key = KeyOf("leads", x.file, x.row)
  BY DEF Known, IsLeadLog, LeadDTO
<1>2. \E u \in History(x.row.email, log) :
        u.source_file_id = x.file /\ u.data.incoming_timestamp = x.row.data.incoming_timestamp
  BY <1>1, KeysInHistory
<1> QED BY <1>2 DEF AddSnapshot, Snapshot

\* marketing_qualify keeps the time, and does nothing the second time.
LEMMA Qualified ==
  ASSUME NEW data \in LeadData
  PROVE  /\ marketing_qualify(data) \in LeadData
         /\ marketing_qualify(data).incoming_timestamp = data.incoming_timestamp
         /\ marketing_qualify(marketing_qualify(data)) = marketing_qualify(data)
<1>1. CASE data.score >= 50 /\ data.status = "NEW"
  <2>1. marketing_qualify(data) = [data EXCEPT !.status = "MQL"]
    BY <1>1 DEF marketing_qualify
  <2>2. [data EXCEPT !.status = "MQL"].status = "MQL"
    BY DEF LeadData
  <2>3. marketing_qualify([data EXCEPT !.status = "MQL"]) = [data EXCEPT !.status = "MQL"]
    BY <2>2 DEF marketing_qualify
  <2> QED BY <2>1, <2>3 DEF LeadData, LeadStatus
<1>2. CASE ~(data.score >= 50 /\ data.status = "NEW")
  BY <1>2 DEF marketing_qualify
<1> QED BY <1>1, <1>2

\* apply_update makes of a lead and a row what the history with the row makes.
LEMMA UpdateOfLead ==
  ASSUME NEW H \in SUBSET LeadSnapshot, NEW found \in LeadRow \cup {NoLead}, IsMadeOf(found, H),
         NEW f \in Files, NEW data \in LeadData, NEW id \in Nat \ {0}
  PROVE  LET entity == IF Exists(found) THEN found ELSE NewLead(id, f, data)
         IN  IsMadeOf(apply_update(entity, f, data), AddSnapshot(H, Snapshot(f, data)))
<1> DEFINE entity == IF Exists(found) THEN found ELSE NewLead(id, f, data)
           new == Snapshot(f, data)
           more == AddSnapshot(H, new)
           newest == IF data.incoming_timestamp > entity.data.incoming_timestamp
                     THEN data ELSE entity.data
           after == apply_update(entity, f, data)
<1>1. new \in LeadSnapshot /\ new.source_file_id = f /\ new.data = data
  BY DEF Snapshot, LeadSnapshot
<1>2. /\ H \subseteq more /\ more \subseteq H \cup {new} /\ more \in SUBSET LeadSnapshot
      /\ \/ more = H /\ \E u \in H : u.source_file_id = f
                                     /\ u.data.incoming_timestamp = data.incoming_timestamp
         \/ new \in more
  BY <1>1 DEF AddSnapshot
<1>3. entity \in LeadRow /\ entity.data \in LeadData
  <2>1. NewLead(id, f, data) \in LeadRow
    BY LeadMethods
  <2> QED BY <2>1 DEF Exists, LeadRow
<1>4. after \in LeadRow /\ Exists(after)
  <2> HIDE DEF entity
  <2> QED BY <1>3, LeadMethods, RowsExist
<1>5. /\ after.data = marketing_qualify(newest)
      /\ after.updates = AddSnapshot(entity.updates, new)
      /\ after.source_file_id = entity.source_file_id
  <2> HIDE DEF entity
  <2> QED BY <1>3 DEF apply_update, LeadRow
<1>6. \A u \in LeadSnapshot : u.data \in LeadData /\ u.data.incoming_timestamp \in Nat
  BY DEF LeadSnapshot, LeadData
<1>7. CASE Exists(found)
  <2>1. H # {} /\ entity = found /\ found.updates = H
    BY <1>7 DEF IsMadeOf, Exists
  <2>2. PICK u \in NewestOf(H) : found.data = marketing_qualify(u.data)
    BY <2>1 DEF IsMadeOf
  <2>3. u \in H /\ \A v \in H : v.data.incoming_timestamp <= u.data.incoming_timestamp
    BY <2>2 DEF NewestOf
  <2>4. /\ found.data.incoming_timestamp = u.data.incoming_timestamp
        /\ marketing_qualify(found.data) = marketing_qualify(u.data)
    BY <1>6, <2>2, <2>3, Qualified
  <2>5. after.data \in {marketing_qualify(v.data) : v \in NewestOf(more)}
    <3>1. CASE data.incoming_timestamp > found.data.incoming_timestamp
      <4>1. new \in more
        BY <1>2, <1>6, <2>3, <2>4, <3>1 DEF LeadData
      <4>2. new \in NewestOf(more)
        BY <1>1, <1>2, <1>6, <2>3, <2>4, <3>1, <4>1 DEF NewestOf, LeadData
      <4>3. after.data = marketing_qualify(new.data)
        BY <1>1, <1>5, <2>1, <3>1
      <4> QED BY <4>2, <4>3
    <3>2. CASE ~(data.incoming_timestamp > found.data.incoming_timestamp)
      <4>1. u \in NewestOf(more)
        BY <1>1, <1>2, <1>6, <2>3, <2>4, <3>2 DEF NewestOf, LeadData
      <4>2. after.data = marketing_qualify(u.data)
        BY <1>5, <2>1, <2>4, <3>2
      <4> QED BY <4>1, <4>2
    <3> QED BY <3>1, <3>2
  <2>6. after.source_file_id \in {v.source_file_id : v \in more}
    BY <1>2, <1>5, <2>1 DEF IsMadeOf
  <2>7. after.updates = more /\ more # {}
    BY <1>2, <1>5, <2>1
  <2> QED BY <1>4, <2>5, <2>6, <2>7 DEF IsMadeOf
<1>8. CASE ~Exists(found)
  <2>1. H = {} /\ entity = NewLead(id, f, data)
    BY <1>8 DEF IsMadeOf
  <2>2. more = {new}
    BY <2>1 DEF AddSnapshot
  <2>3. entity.data = marketing_qualify(data) /\ entity.updates = {} /\ entity.source_file_id = f
    BY <2>1 DEF NewLead
  <2>4. newest = marketing_qualify(data)
    BY <2>3, Qualified DEF LeadData
  <2>5. after.data = marketing_qualify(new.data) /\ after.updates = more /\ after.source_file_id = f
    BY <1>1, <1>5, <2>1, <2>3, <2>4, Qualified
  <2>6. new \in NewestOf(more)
    BY <1>1, <1>6, <2>2 DEF NewestOf
  <2> QED BY <1>1, <1>4, <2>2, <2>5, <2>6 DEF IsMadeOf
<1> QED BY <1>7, <1>8

\* rollback makes of a lead what the history without the file makes.
LEMMA RollbackIsMadeOf ==
  ASSUME NEW H \in SUBSET LeadSnapshot, NEW lead \in LeadRow, IsMadeOf(lead, H), NEW f \in Files
  PROVE  \A after \in rollback(lead, f) : IsMadeOf(after, {u \in H : u.source_file_id # f})
<1> DEFINE rest == {u \in H : u.source_file_id # f}
<1> SUFFICES ASSUME NEW after \in rollback(lead, f) PROVE IsMadeOf(after, rest)
  OBVIOUS
<1>1. UpdatesOfOthers(lead, f) = rest
  BY RowsExist DEF IsMadeOf, UpdatesOfOthers, Exists
<1>2. NewBases(lead, f) = NewestOf(rest)
  BY <1>1 DEF NewBases, NewestOf
<1>3. CASE rest = {}
  BY <1>1, <1>3 DEF rollback, IsMadeOf
<1>4. CASE rest # {}
  <2>1. PICK u \in NewestOf(rest) :
          after = [lead EXCEPT !.source_file_id = u.source_file_id,
                               !.data = marketing_qualify(u.data),
                               !.updates = rest]
    BY <1>1, <1>2, <1>4 DEF rollback
  <2>2. /\ after.source_file_id = u.source_file_id
        /\ after.data = marketing_qualify(u.data)
        /\ after.updates = rest
    BY <2>1 DEF LeadRow
  <2>3. u \in rest
    BY DEF NewestOf
  <2>4. Exists(after)
    BY <1>1, <1>4, RollbackOfLead, RowsExist
  <2> QED BY <1>4, <2>2, <2>3, <2>4 DEF IsMadeOf
<1> QED BY <1>3, <1>4

-------------------------------------------------------------------------------
(***************************************************************************)
(* The log of what is committed, and that of the session.                  *)
(***************************************************************************)
IsSaleLog(log) ==
  /\ IsLog(log)
  /\ \A x \in log : /\ x.row \in SalesDTO /\ x.file \in Files
                    /\ x.key = KeyOf("sales", x.file, x.row)

\* What is in the log, now and after a step.
LEMMA StoredMembers ==
  ASSUME NEW type
  PROVE  /\ \A x : x \in Stored(type) <=>
              \E k \in DOMAIN begun : /\ content[begun[k]].type = type
                                      /\ \E b \in 1..done[begun[k]] : x \in EntriesOf(k, b)
         /\ \A x : x \in Stored(type)' <=>
              \E k \in DOMAIN begun' : /\ content'[begun'[k]].type = type
                                       /\ \E b \in 1..done'[begun'[k]] : x \in EntriesOf(k, b)'
BY DEF Stored

\* The entry of a row.
LEMMA EntryOfRow ==
  ASSUME StoreInv, NEW k \in DOMAIN begun, NEW b \in DOMAIN content[begun[k]].batches,
         NEW r \in DOMAIN content[begun[k]].batches[b]
  PROVE  LET x    == Entry(k, b, r)
             type == content[begun[k]].type
         IN  /\ x.at = <<k, b, r>> /\ x.at \in Place
             /\ x.file = begun[k] /\ x.file \in Files
             /\ x.row = content[begun[k]].batches[b][r]
             /\ x.key = KeyOf(type, x.file, x.row)
             /\ \/ type = "leads" /\ x.row \in LeadDTO
                \/ type = "sales" /\ x.row \in SalesDTO
<1>1. begun[k] \in Files /\ content \in [Files -> FileContent] /\ k \in Nat
  BY ContentsAssumption DEF StoreInv, TypeOK, ProgressOK
<1>2. content[begun[k]] \in FileContent
  BY <1>1
<1> DEFINE c == content[begun[k]]
<1>3. \/ c.type = "leads" /\ c.batches \in Seq(Seq(LeadDTO))
      \/ c.type = "sales" /\ c.batches \in Seq(Seq(SalesDTO))
  BY <1>2 DEF FileContent
<1> HIDE DEF c
<1>4. b \in DOMAIN c.batches /\ r \in DOMAIN c.batches[b]
  BY DEF c
<1>5. /\ b \in Nat /\ r \in Nat
      /\ \/ c.type = "leads" /\ c.batches[b][r] \in LeadDTO
         \/ c.type = "sales" /\ c.batches[b][r] \in SalesDTO
  BY <1>3, <1>4
<1>6. /\ Entry(k, b, r).at = <<k, b, r>> /\ Entry(k, b, r).file = begun[k]
      /\ Entry(k, b, r).row = c.batches[b][r]
      /\ Entry(k, b, r).key = KeyOf(c.type, begun[k], c.batches[b][r])
  BY DEF Entry, c
<1>7. <<k, b, r>> \in Place
  BY <1>1, <1>5 DEF Place
<1> QED BY <1>1, <1>5, <1>6, <1>7 DEF c

\* The log of what is committed is a log of leads and one of sales.
LEMMA StoredTypes ==
  ASSUME StoreInv
  PROVE  IsLeadLog(Stored("leads")) /\ IsSaleLog(Stored("sales"))
<1>1. ASSUME NEW type, NEW x \in Stored(type)
      PROVE  \E k \in DOMAIN begun : /\ content[begun[k]].type = type
                                     /\ \E b \in DOMAIN content[begun[k]].batches :
                                          \E r \in DOMAIN content[begun[k]].batches[b] :
                                            x = Entry(k, b, r)
  <2>1. PICK k \in DOMAIN begun : /\ content[begun[k]].type = type
                                  /\ \E b \in 1..done[begun[k]] : x \in EntriesOf(k, b)
    BY <1>1, StoredMembers
  <2>2. PICK b \in 1..done[begun[k]] : x \in EntriesOf(k, b)
    BY <2>1
  <2>3. b \in DOMAIN content[begun[k]].batches
    <3>1. begun[k] \in Files /\ content \in [Files -> FileContent]
      BY ContentsAssumption DEF StoreInv, TypeOK, ProgressOK
    <3>2. done[begun[k]] \in Nat /\ done[begun[k]] <= Len(content[begun[k]].batches)
      BY <3>1 DEF StoreInv, TypeOK, ProgressOK
    <3> DEFINE s == content[begun[k]].batches
    <3>3. s \in Seq(Seq(LeadDTO)) \cup Seq(Seq(SalesDTO))
      BY <3>1 DEF FileContent
    <3> HIDE DEF s
    <3>4. DOMAIN s = 1..Len(s) /\ Len(s) \in Nat
      BY <3>3
    <3> QED BY <3>2, <3>4 DEF s
  <2> QED BY <2>1, <2>2, <2>3 DEF EntriesOf
<1>2. ASSUME NEW x \in Stored("leads")
      PROVE  /\ x.at \in Place /\ x.row \in LeadDTO /\ x.file \in Files
             /\ x.key = KeyOf("leads", x.file, x.row)
  <2>1. PICK k \in DOMAIN begun : /\ content[begun[k]].type = "leads"
                                  /\ \E b \in DOMAIN content[begun[k]].batches :
                                       \E r \in DOMAIN content[begun[k]].batches[b] :
                                         x = Entry(k, b, r)
    BY <1>1
  <2> QED BY <2>1, EntryOfRow
<1>3. ASSUME NEW x \in Stored("sales")
      PROVE  /\ x.at \in Place /\ x.row \in SalesDTO /\ x.file \in Files
             /\ x.key = KeyOf("sales", x.file, x.row)
  <2>1. PICK k \in DOMAIN begun : /\ content[begun[k]].type = "sales"
                                  /\ \E b \in DOMAIN content[begun[k]].batches :
                                       \E r \in DOMAIN content[begun[k]].batches[b] :
                                         x = Entry(k, b, r)
    BY <1>1
  <2> QED BY <2>1, EntryOfRow
<1> QED BY <1>2, <1>3 DEF IsLeadLog, IsSaleLog, IsLog

\* The session of a batch: the file in hand is the last one, and what is left of the
\* batch is its end.
LEMMA OpenSession ==
  ASSUME StoreInv, LogInvariant, uow # NoUow
  PROVE  /\ SessionFits /\ Session(uow) /\ uow \in Uow
         /\ file # NoFile /\ file \in Files
         /\ Len(begun) \in DOMAIN begun /\ begun[Len(begun)] = file
         /\ done[file] \in Nat /\ uow.batch \in Nat
         /\ uow.batch \in DOMAIN Batches
         /\ \/ /\ content[file].type = "leads"
               /\ uow.rows \in Seq(LeadDTO) /\ Batches[uow.batch] \in Seq(LeadDTO)
            \/ /\ content[file].type = "sales"
               /\ uow.rows \in Seq(SalesDTO) /\ Batches[uow.batch] \in Seq(SalesDTO)
         /\ Taken \in Nat /\ Len(uow.rows) \in Nat
         /\ Taken + Len(uow.rows) = Len(Batches[uow.batch])
         /\ DOMAIN Batches[uow.batch] = 1..Len(Batches[uow.batch])
<1>1. /\ SessionFits /\ Session(uow) /\ uow \in Uow /\ file # NoFile /\ file \in Files
      /\ uow.batch \in DOMAIN Batches /\ RowsOK(uow.rows)
  BY DEF LogInvariant, StoreInv, TypeOK, ProgressOK, StoreOK, UowOK, References
<1>2. begun \in Seq(Files) /\ begun # << >> /\ begun[Len(begun)] = file
  BY <1>1 DEF LogInvariant, DispatchedOnce, StoreInv, TypeOK, ProgressOK
<1>3. Len(begun) \in DOMAIN begun
  BY <1>2
<1>4. done[file] \in Nat /\ uow.batch \in Nat
  BY <1>1 DEF StoreInv, TypeOK, ProgressOK, Uow
<1>5. content[file] \in FileContent /\ RowsOK(Batches[uow.batch])
  BY <1>1, ContentFacts DEF StoreInv, TypeOK
<1> DEFINE whole == Batches[uow.batch]
<1>6. \/ content[file].type = "leads" /\ uow.rows \in Seq(LeadDTO) /\ whole \in Seq(LeadDTO)
      \/ content[file].type = "sales" /\ uow.rows \in Seq(SalesDTO) /\ whole \in Seq(SalesDTO)
  BY <1>1, <1>5 DEF RowsOK, FileContent
<1>7. Taken \in Nat /\ Taken = Len(whole) - Len(uow.rows)
  BY <1>1 DEF SessionFits, InOrder, Taken
<1> HIDE DEF whole
<1>8. Len(uow.rows) \in Nat /\ Len(whole) \in Nat /\ DOMAIN whole = 1..Len(whole)
  BY <1>6
<1> QED BY <1>1, <1>2, <1>3, <1>4, <1>6, <1>7, <1>8 DEF whole

\* The entries of the rows of the batch in hand.
LEMMA EntryInHand ==
  ASSUME StoreInv, LogInvariant, uow # NoUow, NEW r \in 1..Len(Batches[uow.batch])
  PROVE  LET x == Entry(Len(begun), uow.batch, r)
         IN  /\ x.at = <<Len(begun), uow.batch, r>> /\ x.at \in Place
             /\ x.file = file /\ x.row = Batches[uow.batch][r]
             /\ x.key = KeyOf(content[file].type, file, x.row)
             /\ \/ content[file].type = "leads" /\ x.row \in LeadDTO
                \/ content[file].type = "sales" /\ x.row \in SalesDTO
<1>1. /\ Len(begun) \in DOMAIN begun /\ begun[Len(begun)] = file
      /\ uow.batch \in DOMAIN Batches /\ r \in DOMAIN Batches[uow.batch]
  BY OpenSession
<1> QED BY <1>1, EntryOfRow DEF Batches

\* So is the log of a session.
LEMMA SessionLogTypes ==
  ASSUME StoreInv, LogInvariant, uow # NoUow
  PROVE  IsLeadLog(SessionLog("leads")) /\ IsSaleLog(SessionLog("sales"))
<1>1. IsLeadLog(Stored("leads")) /\ IsSaleLog(Stored("sales"))
  BY StoredTypes
<1>2. 1..Taken \subseteq 1..Len(Batches[uow.batch]) /\ file \in Files
  BY OpenSession
<1>3. ASSUME NEW type, NEW x \in TakenRows(type)
      PROVE  /\ x.at \in Place /\ x.file \in Files /\ x.key = KeyOf(type, x.file, x.row)
             /\ \/ type = "leads" /\ x.row \in LeadDTO
                \/ type = "sales" /\ x.row \in SalesDTO
  <2>1. PICK r \in 1..Taken : x = Entry(Len(begun), uow.batch, r)
    BY <1>3 DEF TakenRows
  <2>2. content[file].type = type
    BY <1>3 DEF TakenRows
  <2>3. r \in 1..Len(Batches[uow.batch])
    BY <1>2, <2>1
  <2> QED BY <1>2, <2>1, <2>2, <2>3, EntryInHand
<1> QED BY <1>1, <1>3 DEF IsLeadLog, IsSaleLog, IsLog, SessionLog

\* The next row of the session is in its log already, or comes after all of it.
LEMMA NextEntry ==
  ASSUME StoreInv, LogInvariant, uow # NoUow, uow.rows # << >>
  PROVE  LET type == content[file].type
             new  == Entry(Len(begun), uow.batch, Taken + 1)
         IN  /\ new.at \in Place /\ new.file = file /\ new.row = dto
             /\ new.key = KeyOf(type, file, dto)
             /\ \/ type = "leads" /\ dto \in LeadDTO
                \/ type = "sales" /\ dto \in SalesDTO
             /\ new \in SessionLog(type) \/ ComesLast(new, SessionLog(type))
<1> DEFINE type == content[file].type
           new  == Entry(Len(begun), uow.batch, Taken + 1)
<1>1. /\ Len(begun) \in DOMAIN begun /\ begun[Len(begun)] = file /\ begun \in Seq(Files)
      /\ done[file] \in Nat /\ uow.batch \in Nat /\ uow.batch \in DOMAIN Batches
      /\ uow.batch \in {done[file], done[file] + 1} /\ Taken \in Nat
      /\ \A i \in DOMAIN uow.rows : uow.rows[i] = Batches[uow.batch][Taken + i]
  BY OpenSession DEF SessionFits, InOrder, StoreInv, TypeOK, ProgressOK
<1>2. Len(uow.rows) \in Nat \ {0} /\ 1 \in DOMAIN uow.rows /\ dto = uow.rows[1]
  BY OpenSession DEF dto
<1>3. Taken + 1 \in 1..Len(Batches[uow.batch]) /\ Batches[uow.batch][Taken + 1] = dto
  BY <1>1, <1>2, OpenSession
<1>4. /\ new.at = <<Len(begun), uow.batch, Taken + 1>> /\ new.at \in Place
      /\ new.file = file /\ new.row = dto /\ new.key = KeyOf(type, file, dto)
      /\ \/ type = "leads" /\ dto \in LeadDTO
         \/ type = "sales" /\ dto \in SalesDTO
  BY <1>3, EntryInHand
<1>5. CASE uow.batch = done[file]
  <2>1. new \in EntriesOf(Len(begun), uow.batch)
    BY <1>1, <1>3, OpenSession DEF EntriesOf, Batches
  <2>2. uow.batch \in 1..done[file]
    <3>1. uow.batch # 0
      BY <1>1, ContentFacts, OpenSession DEF StoreInv, TypeOK
    <3> QED BY <1>1, <1>5, <3>1
  <2>3. new \in Stored(type)
    BY <1>1, <2>1, <2>2, StoredMembers
  <2> QED BY <1>4, <2>3 DEF SessionLog
<1>6. CASE uow.batch = done[file] + 1
  <2>1. ASSUME NEW x \in Stored(type) PROVE Earlier(x, new)
    <3>1. PICK k \in DOMAIN begun : \E b \in 1..done[begun[k]] : x \in EntriesOf(k, b)
      BY <2>1, StoredMembers
    <3>2. PICK b \in 1..done[begun[k]] : x \in EntriesOf(k, b)
      BY <3>1
    <3>3. PICK r : x.at = <<k, b, r>>
      BY <3>2 DEF EntriesOf, Entry
    <3>4. k \in Nat /\ k <= Len(begun) /\ done[begun[k]] \in Nat
      BY <1>1 DEF StoreInv, TypeOK, ProgressOK
    <3>5. CASE k = Len(begun)
      BY <1>1, <1>4, <1>6, <3>3, <3>4, <3>5 DEF Earlier
    <3>6. CASE k # Len(begun)
      BY <1>1, <1>4, <3>3, <3>4, <3>6 DEF Earlier
    <3> QED BY <3>5, <3>6
  <2>2. ASSUME NEW x \in TakenRows(type) PROVE Earlier(x, new)
    <3>1. PICK r \in 1..Taken : x.at = <<Len(begun), uow.batch, r>>
      BY <2>2 DEF TakenRows, Entry
    <3> QED BY <1>1, <1>4, <3>1 DEF Earlier
  <2>3. ComesLast(new, SessionLog(type))
    BY <1>4, <2>1, <2>2 DEF ComesLast, SessionLog
  <2> QED BY <1>4, <2>3
<1> QED BY <1>1, <1>5, <1>6

\* The log changes with the batches that are committed only.
LEMMA LogStays ==
  ASSUME UNCHANGED <<content, begun, done>>
  PROVE  \A type : Stored(type)' = Stored(type)
BY DEF Stored, EntriesOf, Entry

\* A step of the session takes a row of its batch.
LEMMA RowTaken ==
  ASSUME StoreInv, LogInvariant, uow # NoUow, uow.rows # << >>,
         UNCHANGED <<content, file, begun, done>>,
         uow'.rows = Tail(uow.rows), uow'.batch = uow.batch
  PROVE  /\ InOrder'
         /\ \A type : SessionLog(type)' =
              IF content[file].type = type
              THEN SessionLog(type) \cup {Entry(Len(begun), uow.batch, Taken + 1)}
              ELSE SessionLog(type)
<1>1. /\ uow.batch \in {done[file], done[file] + 1} /\ Taken \in Nat
      /\ \A i \in DOMAIN uow.rows : uow.rows[i] = Batches[uow.batch][Taken + i]
  BY OpenSession DEF SessionFits, InOrder
<1>2. /\ Len(Tail(uow.rows)) = Len(uow.rows) - 1
      /\ \A i \in DOMAIN Tail(uow.rows) :
           i \in Nat /\ i + 1 \in DOMAIN uow.rows /\ Tail(uow.rows)[i] = uow.rows[i + 1]
  BY OpenSession
<1>3. Taken' = Taken + 1
  <2>1. Len(Batches[uow.batch]) \in Nat /\ Len(uow.rows) \in Nat
    BY OpenSession
  <2>2. Taken' = Len(Batches[uow.batch]) - Len(Tail(uow.rows))
    BY DEF Taken, Batches
  <2>3. Taken = Len(Batches[uow.batch]) - Len(uow.rows)
    BY DEF Taken
  <2> DEFINE left == Len(Tail(uow.rows))
             whole == Len(Batches[uow.batch])
             rows == Len(uow.rows)
  <2>4. /\ left = rows - 1 /\ rows \in Nat /\ whole \in Nat
        /\ Taken' = whole - left /\ Taken = whole - rows
    BY <1>2, <2>1, <2>2, <2>3
  <2> HIDE DEF left, rows, whole
  <2> QED BY <2>4
<1>4. InOrder'
  <2>1. \A i \in DOMAIN Tail(uow.rows) : Tail(uow.rows)[i] = Batches[uow.batch][Taken + 1 + i]
    <3> SUFFICES ASSUME NEW i \in DOMAIN Tail(uow.rows)
                 PROVE  Tail(uow.rows)[i] = Batches[uow.batch][Taken + 1 + i]
      OBVIOUS
    <3>1. i \in Nat /\ i + 1 \in DOMAIN uow.rows /\ Tail(uow.rows)[i] = uow.rows[i + 1]
      BY <1>2
    <3>2. uow.rows[i + 1] = Batches[uow.batch][Taken + (i + 1)]
      BY <1>1, <3>1
    <3>3. Taken + (i + 1) = Taken + 1 + i
      BY <1>1, <3>1
    <3> QED BY <3>1, <3>2, <3>3
  <2> QED BY <1>1, <1>3, <2>1 DEF InOrder, Batches
<1>5. \A type : TakenRows(type)' =
        IF content[file].type = type
        THEN TakenRows(type) \cup {Entry(Len(begun), uow.batch, Taken + 1)}
        ELSE TakenRows(type)
  <2>1. \A r : Entry(Len(begun), uow.batch, r)' = Entry(Len(begun), uow.batch, r)
    BY DEF Entry
  <2>2. 1..(Taken + 1) = 1..Taken \cup {Taken + 1}
    BY <1>1
  <2>3. \A type : TakenRows(type)' =
          IF content[file].type = type
          THEN {Entry(Len(begun), uow.batch, r) : r \in 1..(Taken + 1)}
          ELSE {}
    BY <1>3, <2>1 DEF TakenRows
  <2> QED BY <2>2, <2>3 DEF TakenRows
<1> QED BY <1>4, <1>5, LogStays DEF SessionLog

\* The log of a session that has taken all its rows is the log after the commit.
LEMMA AllTaken ==
  ASSUME StoreInv, LogInvariant, uow # NoUow, uow.rows = << >>,
         UNCHANGED <<content, begun>>, done' = [done EXCEPT ![file] = uow.batch]
  PROVE  \A type : Stored(type)' = SessionLog(type)
<1> SUFFICES ASSUME NEW type, NEW x PROVE x \in Stored(type)' <=> x \in SessionLog(type)
  <2>1. \A type : (\A x : x \in Stored(type)' <=> x \in SessionLog(type))
                   => Stored(type)' = SessionLog(type)
    OBVIOUS
  <2> QED BY <2>1
<1>1. /\ Len(begun) \in DOMAIN begun /\ begun[Len(begun)] = file
      /\ \A j, k \in DOMAIN begun : begun[j] = begun[k] => j = k
      /\ done[file] \in Nat /\ uow.batch \in Nat \ {0}
      /\ uow.batch \in {done[file], done[file] + 1}
      /\ done' = [f \in Files |-> IF f = file THEN uow.batch ELSE done[f]]
      /\ \A k \in DOMAIN begun : begun[k] \in Files
  <2>1. uow.batch \in Nat \ {0}
    BY ContentFacts, OpenSession DEF StoreInv, TypeOK
  <2>2. \A k \in DOMAIN begun : begun[k] \in Files
    BY DEF StoreInv, TypeOK, ProgressOK
  <2>3. done' = [f \in Files |-> IF f = file THEN uow.batch ELSE done[f]]
    BY DEF StoreInv, TypeOK, ProgressOK
  <2>4. uow.batch \in {done[file], done[file] + 1}
    BY OpenSession DEF SessionFits, InOrder
  <2>5. \A j, k \in DOMAIN begun : begun[j] = begun[k] => j = k
    BY DEF LogInvariant, DispatchedOnce
  <2> QED BY <2>1, <2>2, <2>3, <2>4, <2>5, OpenSession
<1>2. TakenRows(type) = IF content[file].type = type THEN EntriesOf(Len(begun), uow.batch) ELSE {}
  <2>1. Len(uow.rows) = 0
    OBVIOUS
  <2>2. 1..Taken = DOMAIN Batches[uow.batch]
    BY <2>1, OpenSession
  <2> QED BY <1>1, <2>2 DEF TakenRows, EntriesOf, Batches
<1>3. \A k, b : EntriesOf(k, b)' = EntriesOf(k, b)
  BY DEF EntriesOf, Entry
<1>4. ASSUME x \in Stored(type)'
      PROVE  x \in SessionLog(type)
  <2>1. PICK k \in DOMAIN begun : /\ content[begun[k]].type = type
                                  /\ \E b \in 1..done'[begun[k]] : x \in EntriesOf(k, b)
    BY <1>3, <1>4 DEF Stored
  <2>2. PICK b \in 1..done'[begun[k]] : x \in EntriesOf(k, b)
    BY <2>1
  <2>3. CASE b \in 1..done[begun[k]]
    <3>1. x \in Stored(type)
      BY <2>1, <2>2, <2>3, StoredMembers
    <3> QED BY <3>1 DEF SessionLog
  <2>4. CASE b \notin 1..done[begun[k]]
    <3>1. begun[k] = file /\ k = Len(begun)
      BY <1>1, <2>2, <2>4
    <3>2. b = uow.batch
      BY <1>1, <2>2, <2>4, <3>1
    <3> QED BY <1>2, <2>1, <2>2, <3>1, <3>2 DEF SessionLog
  <2> QED BY <2>3, <2>4
<1>5. ASSUME x \in Stored(type)
      PROVE  x \in Stored(type)'
  <2>1. PICK k \in DOMAIN begun : /\ content[begun[k]].type = type
                                  /\ \E b \in 1..done[begun[k]] : x \in EntriesOf(k, b)
    BY <1>5, StoredMembers
  <2>2. PICK b \in 1..done[begun[k]] : x \in EntriesOf(k, b)
    BY <2>1
  <2>3. b \in 1..done'[begun[k]]
    BY <1>1
  <2> QED BY <1>3, <2>1, <2>2, <2>3 DEF Stored
<1>6. ASSUME x \in TakenRows(type)
      PROVE  x \in Stored(type)'
  <2>1. content[file].type = type /\ x \in EntriesOf(Len(begun), uow.batch)
    BY <1>2, <1>6
  <2>2. uow.batch \in 1..done'[file]
    BY <1>1, OpenSession
  <2> QED BY <1>1, <1>3, <2>1, <2>2 DEF Stored
<1> QED BY <1>4, <1>5, <1>6 DEF SessionLog

\* A rollback takes the rows of its file out of the log.
LEMMA FileTakenOut ==
  ASSUME StoreInv, LogInvariant, file \in Files,
         UNCHANGED <<content, begun>>, done' = [done EXCEPT ![file] = 0]
  PROVE  \A type : Stored(type)' = {x \in Stored(type) : x.file # file}
<1> SUFFICES ASSUME NEW type, NEW x
             PROVE  x \in Stored(type)' <=> x \in Stored(type) /\ x.file # file
  OBVIOUS
<1>1. /\ done' = [f \in Files |-> IF f = file THEN 0 ELSE done[f]]
      /\ \A k \in DOMAIN begun : begun[k] \in Files
  <2>1. \A k \in DOMAIN begun : begun[k] \in Files
    BY DEF StoreInv, TypeOK, ProgressOK
  <2> QED BY <2>1 DEF StoreInv, TypeOK, ProgressOK
<1>2. \A k, b : EntriesOf(k, b)' = EntriesOf(k, b)
  BY DEF EntriesOf, Entry
<1>3. ASSUME NEW k, NEW b, x \in EntriesOf(k, b) PROVE x.file = begun[k]
  BY <1>3 DEF EntriesOf, Entry
<1>4. ASSUME NEW k \in DOMAIN begun, NEW b, x \in EntriesOf(k, b)
      PROVE  b \in 1..done'[begun[k]] <=> b \in 1..done[begun[k]] /\ x.file # file
  BY <1>1, <1>3, <1>4
<1>5. x \in Stored(type) <=>
        \E k \in DOMAIN begun : /\ content[begun[k]].type = type
                                /\ \E b \in 1..done[begun[k]] : x \in EntriesOf(k, b)
  BY StoredMembers
<1>6. x \in Stored(type)' <=>
        \E k \in DOMAIN begun : /\ content[begun[k]].type = type
                                /\ \E b \in 1..done'[begun[k]] : x \in EntriesOf(k, b)
  BY <1>2 DEF Stored
<1> QED BY <1>4, <1>5, <1>6

-------------------------------------------------------------------------------
(***************************************************************************)
(* The facts of a session, which come with their dimensions.               *)
(***************************************************************************)
LEMMA FactsOfSession ==
  ASSUME NEW u \in Uow
  PROVE  /\ AllFacts(u) \in Seq(Fact)
         /\ \A k \in DOMAIN u.tables.facts :
              k \in DOMAIN AllFacts(u) /\ AllFacts(u)[k] = u.tables.facts[k]
         /\ \A k \in DOMAIN AllFacts(u) :
              \/ k \in DOMAIN u.tables.facts /\ AllFacts(u)[k] = u.tables.facts[k]
              \/ \E j \in DOMAIN u.pending : AllFacts(u)[k] = u.pending[j]
<1> DEFINE s == u.tables.facts
           t == u.pending
<1>1. s \in Seq(Fact) /\ t \in Seq(Fact)
  BY DEF Uow, Tables
<1>2. AllFacts(u) = s \o t
  BY DEF AllFacts
<1> HIDE DEF s, t
<1>3. /\ s \o t \in Seq(Fact)
      /\ \A k \in DOMAIN s : k \in DOMAIN (s \o t) /\ (s \o t)[k] = s[k]
  BY <1>1
<1>4. ASSUME NEW k \in DOMAIN (s \o t)
      PROVE  \/ k \in DOMAIN s /\ (s \o t)[k] = s[k]
             \/ \E j \in DOMAIN t : (s \o t)[k] = t[j]
  <2>1. k \in 1..(Len(s) + Len(t))
    BY <1>1
  <2>2. CASE k <= Len(s)
    BY <1>1, <2>1, <2>2
  <2>3. CASE k > Len(s)
    <3>1. (s \o t)[k] = t[k - Len(s)] /\ k - Len(s) \in DOMAIN t
      BY <1>1, <2>1, <2>3
    <3> QED BY <3>1
  <2> QED BY <1>1, <2>1, <2>2, <2>3
<1> QED BY <1>2, <1>3, <1>4 DEF s, t

\* A dimension's row may be made, and a flush with it: the facts stay, and the ids that
\* are given.
LEMMA GetOrCreateKeeps ==
  ASSUME NEW u, Session(u), NEW key \in DimKeys
  PROVE  LET v == get_or_create(u, key)
         IN  /\ AllFacts(v) = AllFacts(u)
             /\ v.seen_sales = u.seen_sales
             /\ v.pending = u.pending \/ v.pending = << >>
             /\ \A k \in DimKeys : u.tables.dims[k] # 0 => v.tables.dims[k] = u.tables.dims[k]
<1>1. u \in Uow
  BY DEF Session, SessionType
<1>2. CASE DimId(u, key) # 0
  BY <1>2 DEF get_or_create
<1>3. CASE DimId(u, key) = 0
  <2> DEFINE w == Flushed(u)
             id == NewDimId(u, key)
             t == [w.tables EXCEPT !.dims[key] = id]
             seen == [w.seen_dims EXCEPT ![key] = id]
             next == IF key \in Dates THEN u.next_id ELSE u.next_id + 1
             v == [w EXCEPT !.tables = t, !.seen_dims = seen, !.next_id = next]
  <2>1. get_or_create(u, key) = v
    BY <1>1, <1>3, FlushedFields, Zenon DEF get_or_create
  <2>2. /\ w \in Uow /\ w.tables.facts = AllFacts(u) /\ w.pending = << >>
        /\ w.tables.dims = u.tables.dims /\ w.seen_sales = u.seen_sales
    BY <1>1, FlushedFields DEF AllFacts
  <2>3. u.tables.dims[key] = 0 /\ DOMAIN u.tables.dims = DimKeys
    BY <1>3 DEF DimId, Session, SessionType, DimsOK
  <2> HIDE DEF w, id, next, seen
  <2>4. t.facts = w.tables.facts /\ t.dims = [u.tables.dims EXCEPT ![key] = id]
    <3> DEFINE dims == [u.tables.dims EXCEPT ![key] = id]
    <3>1. t = [w.tables EXCEPT !.dims = dims]
      BY <2>2, Zenon DEF t
    <3> HIDE DEF dims
    <3>2. t.facts = w.tables.facts /\ t.dims = dims
      BY <2>2, <3>1 DEF Uow, Tables
    <3> QED BY <3>2 DEF dims
  <2> HIDE DEF t
  <2>5. v.tables = t /\ v.pending = << >> /\ v.seen_sales = w.seen_sales
    BY <2>2 DEF Uow
  <2> HIDE DEF v
  <2>6. AllFacts(v) = AllFacts(u)
    <3>1. AllFacts(u) \in Seq(Fact)
      BY <1>1, FactsOfSession
    <3>2. AllFacts(v) = AllFacts(u) \o << >>
      BY <2>2, <2>4, <2>5 DEF AllFacts
    <3> QED BY <3>1, <3>2
  <2>7. \A k \in DimKeys : u.tables.dims[k] # 0 => t.dims[k] = u.tables.dims[k]
    BY <2>3, <2>4
  <2> QED BY <2>1, <2>2, <2>5, <2>6, <2>7
<1> QED BY <1>2, <1>3

\* What seen_sales says stays true as long as rows keep their ids.
LEMMA SeenStays ==
  ASSUME NEW u \in Uow, SeenFits(u), NEW v, AllFacts(v) = AllFacts(u),
         v.seen_sales = u.seen_sales, v.pending = u.pending \/ v.pending = << >>,
         \A k \in DimKeys : u.tables.dims[k] # 0 => v.tables.dims[k] = u.tables.dims[k]
  PROVE  SeenFits(v)
<1>1. /\ \A k \in DOMAIN AllFacts(u) : AllFacts(u)[k] \in Fact
      /\ \A k \in DOMAIN u.pending : u.pending[k] \in Fact
      /\ u.seen_sales \in SUBSET (Transactions \X Skus)
  <2>1. /\ u.pending \in Seq(Fact)
        /\ u.seen_sales \in SUBSET (Transactions \X Skus)
    BY DEF Uow
  <2>2. AllFacts(u) \in Seq(Fact)
    BY FactsOfSession
  <2>3. \A s \in Seq(Fact) : \A k \in DOMAIN s : s[k] \in Fact
    OBVIOUS
  <2> QED BY <2>1, <2>2, <2>3
<1>2. ASSUME NEW sku \in Skus, NEW fact \in Fact, fact.product_id = u.tables.dims[sku]
      PROVE  fact.product_id = v.tables.dims[sku]
  BY <1>2 DEF Fact, DimKeys
<1>3. ASSUME NEW sale \in v.seen_sales
      PROVE  \E k \in DOMAIN AllFacts(v) :
               /\ AllFacts(v)[k].transaction_id = sale[1]
               /\ AllFacts(v)[k].product_id = v.tables.dims[sale[2]]
  <2>1. PICK k \in DOMAIN AllFacts(u) :
          /\ AllFacts(u)[k].transaction_id = sale[1]
          /\ AllFacts(u)[k].product_id = u.tables.dims[sale[2]]
    BY <1>3 DEF SeenFits
  <2>2. sale[2] \in Skus
    BY <1>1, <1>3
  <2> QED BY <1>1, <1>2, <2>1, <2>2
<1>4. ASSUME NEW k \in DOMAIN v.pending
      PROVE  \E sku \in Skus : /\ <<v.pending[k].transaction_id, sku>> \in v.seen_sales
                               /\ v.pending[k].product_id = v.tables.dims[sku]
  <2>1. v.pending = u.pending
    BY <1>4
  <2>2. PICK sku \in Skus : /\ <<u.pending[k].transaction_id, sku>> \in u.seen_sales
                            /\ u.pending[k].product_id = u.tables.dims[sku]
    BY <1>4, <2>1 DEF SeenFits
  <2> QED BY <1>1, <1>2, <1>4, <2>1, <2>2
<1> QED BY <1>3, <1>4 DEF SeenFits

\* Whether a sale is there is decided as by the log: through its transaction and the id
\* of its product, which no other product has, or through seen_sales.
LEMMA KnownSale ==
  ASSUME NEW u, Session(u), SeenFits(u), NEW log, IsSaleLog(log),
         FactsFit(AllFacts(u), log, u.tables.dims), NEW t \in Transactions, NEW s \in Skus
  PROVE  check_exists(u, t, s) <=> Known(<<t, s>>, log)
<1> DEFINE facts == AllFacts(u)
           dims == u.tables.dims
<1>1. u \in Uow /\ \A x, y \in Skus : dims[x] = dims[y] /\ dims[x] # 0 => x = y
  BY DEF Session, SessionType, Numbered, DimKeys
<1>2. /\ facts \in Seq(Fact)
      /\ \A k \in DOMAIN u.tables.facts : k \in DOMAIN facts /\ facts[k] = u.tables.facts[k]
      /\ \A k \in DOMAIN facts :
           \/ k \in DOMAIN u.tables.facts /\ facts[k] = u.tables.facts[k]
           \/ \E j \in DOMAIN u.pending : facts[k] = u.pending[j]
  BY <1>1, FactsOfSession
<1> HIDE DEF facts
<1>3. /\ \A x \in Firsts(log) :
           LET k == Rank(x, Firsts(log))
           IN  k \in DOMAIN facts /\ facts[k] \in Fact /\ IsFactOf(facts[k], x, dims)
      /\ \A k \in DOMAIN facts : \E x \in Firsts(log) : Rank(x, Firsts(log)) = k
  BY <1>2, FactOfEntry DEF IsSaleLog, facts
<1>4. \A x \in log : x.key = <<x.row.transaction_id, x.row.sku>> /\ x.row.sku \in Skus
  BY DEF IsSaleLog, KeyOf, SalesDTO
<1>5. ASSUME NEW k \in DOMAIN facts, facts[k].transaction_id = t, facts[k].product_id = dims[s]
      PROVE  Known(<<t, s>>, log)
  <2>1. PICK x \in Firsts(log) : Rank(x, Firsts(log)) = k
    BY <1>3
  <2>2. x \in log /\ IsFactOf(facts[k], x, dims) /\ facts[k] \in Fact
    BY <1>3, <2>1 DEF Firsts
  <2>3. x.row.transaction_id = t /\ dims[x.row.sku] = dims[s] /\ dims[s] # 0
    BY <1>5, <2>2 DEF IsFactOf, Fact
  <2>4. x.row.sku = s
    BY <1>1, <1>4, <2>2, <2>3
  <2> QED BY <1>4, <2>2, <2>3, <2>4 DEF Known
<1>6. ASSUME check_exists(u, t, s)
      PROVE  Known(<<t, s>>, log)
  <2>1. CASE <<t, s>> \in u.seen_sales
    <3>1. PICK k \in DOMAIN facts : facts[k].transaction_id = t /\ facts[k].product_id = dims[s]
      BY <2>1 DEF SeenFits, facts
    <3> QED BY <1>5, <3>1
  <2>2. CASE <<t, s>> \notin u.seen_sales
    <3>1. PICK k \in DOMAIN u.tables.facts :
            /\ u.tables.facts[k].transaction_id = t
            /\ u.tables.facts[k].product_id = dims[s]
      BY <1>6, <2>2 DEF check_exists
    <3> QED BY <1>2, <1>5, <3>1
  <2> QED BY <2>1, <2>2
<1>7. ASSUME Known(<<t, s>>, log)
      PROVE  check_exists(u, t, s)
  <2>1. PICK x \in log : x.key = <<t, s>>
    BY <1>7 DEF Known
  <2>2. PICK y \in Firsts(log) : y.key = <<t, s>>
    BY <2>1, FirstExists DEF IsSaleLog
  <2>3. y \in log /\ y.row.transaction_id = t /\ y.row.sku = s
    BY <1>4, <2>2 DEF Firsts
  <2> DEFINE k == Rank(y, Firsts(log))
  <2>4. k \in DOMAIN facts /\ facts[k] \in Fact /\ IsFactOf(facts[k], y, dims)
    BY <1>3
  <2> HIDE DEF k
  <2>5. facts[k].transaction_id = t /\ facts[k].product_id = dims[s] /\ dims[s] # 0
    BY <2>3, <2>4 DEF IsFactOf, Fact
  <2>6. CASE k \in DOMAIN u.tables.facts /\ facts[k] = u.tables.facts[k]
    BY <2>5, <2>6 DEF check_exists
  <2>7. CASE \E j \in DOMAIN u.pending : facts[k] = u.pending[j]
    <3>1. PICK j \in DOMAIN u.pending : facts[k] = u.pending[j]
      BY <2>7
    <3>2. PICK sku \in Skus : /\ <<u.pending[j].transaction_id, sku>> \in u.seen_sales
                              /\ u.pending[j].product_id = dims[sku]
      BY DEF SeenFits
    <3>3. sku = s
      BY <1>1, <2>5, <3>1, <3>2
    <3> QED BY <2>5, <3>1, <3>2, <3>3 DEF check_exists
  <2> QED BY <1>2, <2>4, <2>6, <2>7
<1> QED BY <1>6, <1>7

\* A pending fact comes last, and seen_sales knows it.
LEMMA OneMoreFact ==
  ASSUME NEW u \in Uow, SeenFits(u), NEW fact \in Fact, NEW sku \in Skus,
         fact.product_id = u.tables.dims[sku], NEW v,
         v.tables = u.tables, v.pending = Append(u.pending, fact),
         v.seen_sales = u.seen_sales \cup {<<fact.transaction_id, sku>>}
  PROVE  AllFacts(v) = Append(AllFacts(u), fact) /\ SeenFits(v)
<1>1. u.tables.facts \in Seq(Fact) /\ u.pending \in Seq(Fact) /\ AllFacts(u) \in Seq(Fact)
  BY FactsOfSession DEF Uow, Tables
<1>2. AllFacts(v) = Append(AllFacts(u), fact)
  <2>1. \A s, t \in Seq(Fact) : s \o Append(t, fact) = Append(s \o t, fact)
    OBVIOUS
  <2> QED BY <1>1, <2>1 DEF AllFacts
<1>3. \A s \in Seq(Fact) :
        /\ \A k \in DOMAIN s : k \in DOMAIN Append(s, fact) /\ Append(s, fact)[k] = s[k]
        /\ Len(s) + 1 \in DOMAIN Append(s, fact) /\ Append(s, fact)[Len(s) + 1] = fact
        /\ \A k \in DOMAIN Append(s, fact) : k \in DOMAIN s \/ Append(s, fact)[k] = fact
  OBVIOUS
<1>4. ASSUME NEW sale \in v.seen_sales
      PROVE  \E k \in DOMAIN AllFacts(v) :
               /\ AllFacts(v)[k].transaction_id = sale[1]
               /\ AllFacts(v)[k].product_id = v.tables.dims[sale[2]]
  <2>1. CASE sale \in u.seen_sales
    <3>1. PICK k \in DOMAIN AllFacts(u) :
            /\ AllFacts(u)[k].transaction_id = sale[1]
            /\ AllFacts(u)[k].product_id = u.tables.dims[sale[2]]
      BY <2>1 DEF SeenFits
    <3>2. k \in DOMAIN AllFacts(v) /\ AllFacts(v)[k] = AllFacts(u)[k]
      BY <1>1, <1>2, <1>3
    <3> QED BY <3>1, <3>2
  <2>2. CASE sale = <<fact.transaction_id, sku>>
    <3> DEFINE k == Len(AllFacts(u)) + 1
    <3>1. k \in DOMAIN AllFacts(v) /\ AllFacts(v)[k] = fact
      BY <1>1, <1>2, <1>3
    <3> HIDE DEF k
    <3> QED BY <2>2, <3>1
  <2> QED BY <2>1, <2>2
<1>5. ASSUME NEW k \in DOMAIN v.pending
      PROVE  \E s \in Skus : /\ <<v.pending[k].transaction_id, s>> \in v.seen_sales
                             /\ v.pending[k].product_id = v.tables.dims[s]
  <2>1. CASE k \in DOMAIN u.pending
    <3>1. PICK s \in Skus : /\ <<u.pending[k].transaction_id, s>> \in u.seen_sales
                            /\ u.pending[k].product_id = u.tables.dims[s]
      BY <2>1 DEF SeenFits
    <3>2. v.pending[k] = u.pending[k]
      BY <1>1, <1>3, <2>1
    <3> QED BY <3>1, <3>2
  <2>2. CASE v.pending[k] = fact
    BY <2>2
  <2>3. k \in DOMAIN u.pending \/ v.pending[k] = fact
    <3> DEFINE s == u.pending
    <3>1. s \in Seq(Fact) /\ k \in DOMAIN Append(s, fact) /\ v.pending = Append(s, fact)
      BY <1>1, <1>5
    <3> HIDE DEF s
    <3>2. k \in DOMAIN s \/ v.pending[k] = fact
      BY <1>3, <3>1
    <3> QED BY <3>2 DEF s
  <2> QED BY <2>1, <2>2, <2>3
<1> QED BY <1>2, <1>4, <1>5 DEF SeenFits

\* A sale that is not there yet is added, as the last fact.
LEMMA AddFact ==
  ASSUME NEW u, Session(u), SeenFits(u), NEW sale \in SalesDTO, file \in Files
  PROVE  LET v == add(u, sale)
         IN  /\ SeenFits(v)
             /\ \A k \in DimKeys : u.tables.dims[k] # 0 => v.tables.dims[k] = u.tables.dims[k]
             /\ \E fact \in Fact :
                  /\ AllFacts(v) = Append(AllFacts(u), fact)
                  /\ fact.source_file_id = file
                  /\ fact.transaction_id = sale.transaction_id
                  /\ fact.quantity_sold = sale.quantity_sold
                  /\ fact.product_id = v.tables.dims[sale.sku]
                  /\ fact.customer_id = v.tables.dims[sale.customer]
                  /\ fact.date_id = v.tables.dims[sale.date]
<1> DEFINE v1 == get_or_create(u, sale.sku)
           v2 == get_or_create(v1, sale.customer)
           v3 == get_or_create(v2, sale.date)
           fact == [source_file_id |-> file, transaction_id |-> sale.transaction_id,
                    product_id |-> DimId(v3, sale.sku), customer_id |-> DimId(v3, sale.customer),
                    date_id |-> DimId(v3, sale.date), quantity_sold |-> sale.quantity_sold]
           v == [v3 EXCEPT !.pending = Append(@, fact),
                           !.seen_sales = @ \cup {<<sale.transaction_id, sale.sku>>}]
           Keep(a, b) ==
             \A k \in DimKeys : a.tables.dims[k] # 0 => b.tables.dims[k] = a.tables.dims[k]
<1>1. /\ sale.sku \in Skus /\ sale.customer \in Customers /\ sale.date \in Dates
      /\ sale.transaction_id \in Transactions /\ sale.quantity_sold \in Nat
      /\ sale.sku \in DimKeys /\ sale.customer \in DimKeys /\ sale.date \in DimKeys
      /\ sale.sku \notin Dates /\ sale.customer \notin Dates
  BY KeysAssumption DEF SalesDTO, DimKeys
<1>2. ASSUME NEW w, Session(w), SeenFits(w), NEW key \in DimKeys
      PROVE  LET x == get_or_create(w, key)
             IN  SeenFits(x) /\ AllFacts(x) = AllFacts(w) /\ Keep(w, x)
  <2>1. w \in Uow
    BY <1>2 DEF Session, SessionType
  <2> DEFINE x == get_or_create(w, key)
  <2>2. /\ AllFacts(x) = AllFacts(w) /\ x.seen_sales = w.seen_sales
        /\ x.pending = w.pending \/ x.pending = << >>
        /\ Keep(w, x)
    BY <1>2, GetOrCreateKeeps
  <2> HIDE DEF x
  <2>3. SeenFits(x)
    BY <1>2, <2>1, <2>2, SeenStays
  <2> QED BY <2>2, <2>3 DEF x
<1>3. /\ Session(v1) /\ DimId(v1, sale.sku) # 0
      /\ SeenFits(v1) /\ AllFacts(v1) = AllFacts(u) /\ Keep(u, v1)
  BY <1>1, <1>2, GetOrCreate
<1>4. /\ Session(v2) /\ DimId(v2, sale.sku) # 0 /\ DimId(v2, sale.customer) # 0
      /\ SeenFits(v2) /\ AllFacts(v2) = AllFacts(v1) /\ Keep(v1, v2)
  <2> HIDE DEF v1, fact, v, Keep
  <2>1. SeenFits(v2) /\ AllFacts(v2) = AllFacts(v1) /\ Keep(v1, v2)
    BY <1>1, <1>2, <1>3
  <2>2. Session(v2) /\ \A k \in DimKeys : DimId(v1, k) # 0 => DimId(v2, k) # 0
    BY <1>1, <1>3, GetOrCreate
  <2>3. DimId(v2, sale.customer) # 0
    BY <1>1, <1>3, GetOrCreate
  <2> QED BY <1>1, <1>3, <2>1, <2>2, <2>3
<1>5. /\ Session(v3)
      /\ DimId(v3, sale.sku) # 0 /\ DimId(v3, sale.customer) # 0 /\ DimId(v3, sale.date) # 0
      /\ SeenFits(v3) /\ AllFacts(v3) = AllFacts(v2) /\ Keep(v2, v3)
  <2> HIDE DEF v2, fact, v, Keep
  <2>1. SeenFits(v3) /\ AllFacts(v3) = AllFacts(v2) /\ Keep(v2, v3)
    BY <1>1, <1>2, <1>4
  <2>2. Session(v3) /\ \A k \in DimKeys : DimId(v2, k) # 0 => DimId(v3, k) # 0
    BY <1>1, <1>4, GetOrCreate
  <2>3. DimId(v3, sale.date) # 0
    BY <1>1, <1>4, GetOrCreate
  <2> QED BY <1>1, <1>4, <2>1, <2>2, <2>3
<1>6. add(u, sale) = IF \E sku \in Skus : v3.tables.dims[sku] = fact.product_id THEN v ELSE v3
  BY DEF add
<1> HIDE DEF v1, v2, v3
<1>7. v3 \in Uow /\ Keep(u, v3)
  BY <1>3, <1>4, <1>5 DEF Session, SessionType
<1>8. /\ v3.tables.dims[sale.sku] = DimId(v3, sale.sku)
      /\ v3.tables.dims[sale.customer] = DimId(v3, sale.customer)
      /\ v3.tables.dims[sale.date] = DimId(v3, sale.date)
      /\ DimId(v3, sale.sku) \in Nat \ {0} /\ DimId(v3, sale.customer) \in Nat \ {0}
      /\ DimId(v3, sale.date) = sale.date
  BY <1>1, <1>5, DimIdFacts DEF DimIds
<1>9. /\ fact \in Fact
      /\ fact.source_file_id = file
      /\ fact.transaction_id = sale.transaction_id
      /\ fact.quantity_sold = sale.quantity_sold
      /\ fact.product_id = v3.tables.dims[sale.sku]
      /\ fact.customer_id = v3.tables.dims[sale.customer]
      /\ fact.date_id = v3.tables.dims[sale.date]
  BY <1>1, <1>8 DEF Fact
<1> HIDE DEF fact
<1>10. add(u, sale) = v
  BY <1>1, <1>6, <1>9
<1>11. /\ v.pending = Append(v3.pending, fact) /\ v.tables = v3.tables
       /\ v.seen_sales = v3.seen_sales \cup {<<sale.transaction_id, sale.sku>>}
  BY <1>7 DEF Uow
<1> HIDE DEF v
<1>12. AllFacts(v) = Append(AllFacts(v3), fact) /\ SeenFits(v)
  BY <1>1, <1>5, <1>7, <1>9, <1>11, OneMoreFact
<1>13. AllFacts(v3) = AllFacts(u)
  BY <1>3, <1>4, <1>5
<1> QED BY <1>7, <1>9, <1>10, <1>11, <1>12, <1>13

-------------------------------------------------------------------------------
(***************************************************************************)
(* The steps of a session.                                                 *)
(***************************************************************************)
\* A session begins with the tables as they are, and has taken none of its rows.
LEMMA NewSessionFits ==
  ASSUME StoreInv, file # NoFile, UNCHANGED <<content, file, begun>>,
         NEW b \in DOMAIN Batches, b \in {done'[file], done'[file] + 1},
         NEW tables \in Tables, NEW n, uow' = NewUow(b, tables, n),
         AreLeadsOf(tables.leads, Stored("leads")'),
         FactsFit(tables.facts, Stored("sales")', tables.dims)
  PROVE  SessionFits'
<1>1. /\ uow'.rows = Batches[b] /\ uow'.batch = b /\ uow'.tables = tables
      /\ uow'.pending = << >> /\ uow'.seen_sales = {}
  BY DEF NewUow
<1> DEFINE rows == Batches[b]
<1>2. rows \in Seq(LeadDTO) \cup Seq(SalesDTO)
  BY ContentFacts DEF StoreInv, TypeOK, RowsOK
<1>3. Len(rows) \in Nat /\ Len(rows) - Len(rows) = 0 /\ \A i \in DOMAIN rows : 0 + i = i
  <2> HIDE DEF rows
  <2> QED BY <1>2
<1>4. Taken' = 0
  <2>1. Taken' = Len(rows) - Len(rows)
    BY <1>1 DEF Taken, Batches
  <2> QED BY <1>3, <2>1
<1>5. InOrder'
  BY <1>1, <1>3, <1>4 DEF InOrder, Batches
<1>6. \A type : SessionLog(type)' = Stored(type)'
  <2>1. 1..0 = {}
    OBVIOUS
  <2>2. \A type : TakenRows(type)' = {}
    BY <1>4, <2>1 DEF TakenRows
  <2> QED BY <2>2 DEF SessionLog
<1>7. AllFacts(uow)' = tables.facts
  <2>1. tables.facts \in Seq(Fact)
    BY DEF Tables
  <2> QED BY <1>1, <2>1 DEF AllFacts
<1>8. SeenFits(uow)'
  BY <1>1 DEF SeenFits
<1> QED BY <1>1, <1>5, <1>6, <1>7, <1>8 DEF SessionFits

\* What is committed stays what the log says if neither changes.
LEMMA CommittedStays ==
  ASSUME LogInvariant, UNCHANGED <<content, begun, done, db>>, file' \in {file, NoFile},
         \A f \in Files : status'[f] = "PENDING" => status[f] = "PENDING"
  PROVE  /\ DispatchedOnce'
         /\ AreLeadsOf(db.leads, Stored("leads"))'
         /\ FactsFit(db.facts, Stored("sales"), db.dims)'
<1>1. DispatchedOnce'
  BY DEF LogInvariant, DispatchedOnce
<1>2. AreLeadsOf(db'.leads, Stored("leads")') /\ FactsFit(db'.facts, Stored("sales")', db'.dims)
  BY LogStays DEF LogInvariant
<1> QED BY <1>1, <1>2

\* The steps that leave tables, log and session alone, or end the session.
LEMMA QuietLog ==
  ASSUME LogInvariant, UNCHANGED <<content, begun, done, db>>, file' \in {file, NoFile},
         \A f \in Files : status'[f] = "PENDING" => status[f] = "PENDING",
         uow' = NoUow \/ UNCHANGED <<uow, file>>
  PROVE  LogInvariant'
<1>1. ASSUME uow' # NoUow PROVE SessionFits'
  <2>1. UNCHANGED <<uow, file>> /\ SessionFits
    BY <1>1 DEF LogInvariant
  <2>2. \A type : SessionLog(type)' = SessionLog(type)
    <3>1. \A type : TakenRows(type)' = TakenRows(type)
      BY <2>1 DEF TakenRows, Taken, Batches, Entry
    <3> QED BY <3>1, LogStays DEF SessionLog
  <2>3. InOrder'
    BY <2>1 DEF SessionFits, InOrder, Taken, Batches
  <2>4. SeenFits(uow)'
    BY <2>1 DEF SessionFits, SeenFits, AllFacts
  <2>5. AreLeadsOf(uow'.tables.leads, SessionLog("leads")')
    BY <2>1, <2>2 DEF SessionFits
  <2>6. FactsFit(AllFacts(uow)', SessionLog("sales")', uow'.tables.dims)
    BY <2>1, <2>2 DEF SessionFits, AllFacts
  <2> QED BY <2>3, <2>4, <2>5, <2>6 DEF SessionFits
<1> QED BY <1>1, CommittedStays DEF LogInvariant

\* A row of leads: its lead becomes what the history with the row makes, which is the
\* same history when the row is in the log already.
LEMMA LeadTaken ==
  ASSUME StoreInv, LogInvariant, UNCHANGED content, persist_lead
  PROVE  LogInvariant'
<1>1. uow # NoUow /\ uow.rows # << >> /\ content[file].type = "leads"
  BY OpenOrNot DEF persist_lead, NextRow, StoreInv
<1>2. UNCHANGED <<content, status, file, begun, done, db>>
  BY DEF persist_lead, progress
<1>3. SessionFits /\ Session(uow) /\ uow \in Uow /\ file \in Files /\ uow.next_id \in Nat \ {0}
  BY <1>1, OpenSession DEF Uow
<1> DEFINE log == SessionLog("leads")
           new == Entry(Len(begun), uow.batch, Taken + 1)
<1>4. /\ new.at \in Place /\ new.file = file /\ new.row = dto
      /\ new.key = KeyOf("leads", file, dto)
      /\ dto \in LeadDTO /\ dto.email \in Emails /\ dto.data \in LeadData
      /\ new \in log \/ ComesLast(new, log)
  BY <1>1, NextEntry DEF LeadDTO
<1>5. IsLeadLog(log)
  BY <1>1, SessionLogTypes
<1> DEFINE found == uow.tables.leads[dto.email]
           entity == IF Exists(found) THEN found ELSE NewLead(uow.next_id, file, dto.data)
           after == apply_update(entity, file, dto.data)
           leads == [uow.tables.leads EXCEPT ![dto.email] = after]
           next == IF Exists(found) THEN uow.next_id ELSE uow.next_id + 1
<1>6. /\ uow'.rows = Tail(uow.rows) /\ uow'.batch = uow.batch
      /\ uow'.tables.leads = leads /\ uow'.tables.facts = uow.tables.facts
      /\ uow'.tables.dims = uow.tables.dims
      /\ uow'.pending = uow.pending /\ uow'.seen_sales = uow.seen_sales
  <2> DEFINE t == [uow.tables EXCEPT !.leads[dto.email] = after]
  <2>1. uow' = [uow EXCEPT !.rows = Tail(@), !.tables = t, !.next_id = next]
    BY Zenon DEF persist_lead
  <2> HIDE DEF after, next
  <2>2. t = [uow.tables EXCEPT !.leads = leads]
    BY Zenon
  <2> HIDE DEF leads
  <2>3. t.leads = leads /\ t.facts = uow.tables.facts /\ t.dims = uow.tables.dims
    BY <1>3, <2>2 DEF Uow, Tables
  <2> HIDE DEF t
  <2>4. /\ uow'.rows = Tail(uow.rows) /\ uow'.batch = uow.batch /\ uow'.tables = t
        /\ uow'.pending = uow.pending /\ uow'.seen_sales = uow.seen_sales
    BY <1>3, <2>1 DEF Uow
  <2> QED BY <2>3, <2>4
<1>7. /\ InOrder'
      /\ SessionLog("leads")' = log \cup {new}
      /\ SessionLog("sales")' = SessionLog("sales")
  BY <1>1, <1>2, <1>6, RowTaken
<1> HIDE DEF log, new
<1>8. \A e \in Emails :
        History(e, log \cup {new}) =
          IF dto.email = e
          THEN AddSnapshot(History(e, log), Snapshot(file, dto.data))
          ELSE History(e, log)
  <2>1. CASE new \in log
    <3>1. log \cup {new} = log
      BY <2>1
    <3>2. AddSnapshot(History(dto.email, log), Snapshot(file, dto.data)) = History(dto.email, log)
      BY <1>4, <1>5, <2>1, HistoryHas
    <3> QED BY <3>1, <3>2
  <2>2. CASE ComesLast(new, log)
    BY <1>3, <1>4, <1>5, <2>2, HistoryGrows
  <2> QED BY <1>4, <2>1, <2>2
<1>9. AreLeadsOf(uow.tables.leads, log) /\ uow.tables.leads \in [Emails -> LeadRow \cup {NoLead}]
  BY <1>3 DEF SessionFits, log, Uow, Tables
<1>10. AreLeadsOf(leads, log \cup {new})
  <2> SUFFICES ASSUME NEW e \in Emails PROVE IsMadeOf(leads[e], History(e, log \cup {new}))
    BY DEF AreLeadsOf
  <2>1. CASE e = dto.email
    <3> DEFINE H == History(e, log)
    <3>1. H \in SUBSET LeadSnapshot
      BY <1>5, HistoryType
    <3>2. IsMadeOf(found, H) /\ found \in LeadRow \cup {NoLead}
      BY <1>4, <1>9, <2>1 DEF AreLeadsOf
    <3> HIDE DEF H, found
    <3>3. IsMadeOf(after, AddSnapshot(H, Snapshot(file, dto.data)))
      BY <1>3, <1>4, <3>1, <3>2, UpdateOfLead
    <3>4. leads[e] = after
      BY <1>9, <2>1
    <3> QED BY <1>8, <2>1, <3>3, <3>4 DEF H
  <2>2. CASE e # dto.email
    <3>1. leads[e] = uow.tables.leads[e]
      BY <1>9, <2>2
    <3> QED BY <1>8, <1>9, <2>2, <3>1 DEF AreLeadsOf
  <2> QED BY <2>1, <2>2
<1> HIDE DEF leads
<1>11. SeenFits(uow)' /\ AllFacts(uow)' = AllFacts(uow)
  <2>1. AllFacts(uow)' = AllFacts(uow)
    BY <1>6 DEF AllFacts
  <2>2. SeenFits(uow')
    <3>1. AllFacts(uow') = AllFacts(uow) /\ SeenFits(uow)
      BY <1>3, <1>6 DEF AllFacts, SessionFits
    <3> QED BY <1>3, <1>6, <3>1, SeenStays
  <2> QED BY <2>1, <2>2
<1>12. FactsFit(AllFacts(uow)', SessionLog("sales")', uow'.tables.dims)
  BY <1>3, <1>6, <1>7, <1>11 DEF SessionFits
<1>13. SessionFits'
  BY <1>6, <1>7, <1>10, <1>11, <1>12 DEF SessionFits
<1> QED BY <1>2, <1>13, CommittedStays DEF LogInvariant

\* A row of sales: it adds its fact unless the log has one of its transaction and SKU.
LEMMA SaleTaken ==
  ASSUME StoreInv, LogInvariant, UNCHANGED content, persist_sale
  PROVE  LogInvariant'
<1>1. uow # NoUow /\ uow.rows # << >> /\ content[file].type = "sales"
  BY OpenOrNot DEF persist_sale, NextRow, StoreInv
<1>2. UNCHANGED <<content, status, file, begun, done, db>>
  BY DEF persist_sale, progress
<1>3. SessionFits /\ Session(uow) /\ uow \in Uow /\ file \in Files
  BY <1>1, OpenSession
<1> DEFINE log == SessionLog("sales")
           new == Entry(Len(begun), uow.batch, Taken + 1)
<1>4. /\ new.at \in Place /\ new.file = file /\ new.row = dto
      /\ new.key = <<dto.transaction_id, dto.sku>>
      /\ dto \in SalesDTO /\ dto.transaction_id \in Transactions /\ dto.sku \in Skus
      /\ new \in log \/ ComesLast(new, log)
  BY <1>1, NextEntry DEF SalesDTO, KeyOf
<1>5. IsSaleLog(log) /\ IsLog(log) /\ \A x \in log : x.row \in SalesDTO
  BY <1>1, SessionLogTypes DEF IsSaleLog
<1>6. FactsFit(AllFacts(uow), log, uow.tables.dims) /\ SeenFits(uow)
      /\ AreLeadsOf(uow.tables.leads, SessionLog("leads")) /\ AllFacts(uow) \in Seq(Fact)
  BY <1>3, FactsOfSession DEF SessionFits
<1> DEFINE known == check_exists(uow, dto.transaction_id, dto.sku)
           v == IF known THEN uow ELSE add(uow, dto)
<1>7. known <=> Known(new.key, log)
  <2> HIDE DEF log, new
  <2> QED BY <1>3, <1>4, <1>5, <1>6, KnownSale
<1>8. /\ Session(v) /\ v.rows = uow.rows /\ v.batch = uow.batch
      /\ v.tables.leads = uow.tables.leads
  BY <1>3, <1>4, AddSession
<1>9. uow' = [v EXCEPT !.rows = Tail(@)]
  BY Zenon DEF persist_sale
<1>10. SeenFits(v) /\ FactsFit(AllFacts(v), log \cup {new}, v.tables.dims)
  <2> HIDE DEF log, new
  <2>1. CASE known
    <3>1. Known(new.key, log) /\ v = uow
      BY <1>7, <2>1
    <3>2. CASE new \in log
      <4>1. log \cup {new} = log
        BY <3>2
      <4> QED BY <1>6, <3>1, <4>1
    <3>3. CASE ComesLast(new, log)
      <4>1. FactsFit(AllFacts(uow), log \cup {new}, uow.tables.dims)
        BY <1>5, <1>6, <3>1, <3>3, FactsOfKnownSale
      <4> QED BY <1>6, <3>1, <4>1
    <3> QED BY <1>4, <3>2, <3>3
  <2>2. CASE ~known
    <3>1. ~Known(new.key, log) /\ v = add(uow, dto)
      BY <1>7, <2>2
    <3>2. ComesLast(new, log)
      BY <1>4, <3>1 DEF Known
    <3> HIDE DEF v, known
    <3>3. /\ SeenFits(v)
          /\ \A k \in DimKeys : uow.tables.dims[k] # 0 => v.tables.dims[k] = uow.tables.dims[k]
          /\ \E fact \in Fact :
               /\ AllFacts(v) = Append(AllFacts(uow), fact)
               /\ fact.source_file_id = file
               /\ fact.transaction_id = dto.transaction_id
               /\ fact.quantity_sold = dto.quantity_sold
               /\ fact.product_id = v.tables.dims[dto.sku]
               /\ fact.customer_id = v.tables.dims[dto.customer]
               /\ fact.date_id = v.tables.dims[dto.date]
      BY <1>3, <1>4, <1>6, <3>1, AddFact
    <3>4. PICK fact \in Fact :
            AllFacts(v) = Append(AllFacts(uow), fact) /\ IsFactOf(fact, new, v.tables.dims)
      BY <1>4, <3>3 DEF IsFactOf
    <3> DEFINE dims == v.tables.dims
    <3>5. FactsFit(AllFacts(uow), log, dims)
      BY <1>5, <1>6, <3>3, FactsOfOtherDims
    <3> HIDE DEF dims
    <3>6. FactsFit(Append(AllFacts(uow), fact), log \cup {new}, dims)
      BY <1>5, <1>6, <3>1, <3>2, <3>4, <3>5, FactsOfNewSale DEF dims
    <3> QED BY <3>3, <3>4, <3>6 DEF dims
  <2> QED BY <2>1, <2>2
<1> HIDE DEF v, known
<1>11. v \in Uow
  BY <1>8 DEF Session, SessionType
<1>12. /\ uow'.rows = Tail(uow.rows) /\ uow'.batch = uow.batch /\ uow'.tables = v.tables
       /\ uow'.pending = v.pending /\ uow'.seen_sales = v.seen_sales
  BY <1>8, <1>9, <1>11 DEF Uow
<1>13. /\ InOrder'
       /\ SessionLog("sales")' = log \cup {new}
       /\ SessionLog("leads")' = SessionLog("leads")
  BY <1>1, <1>2, <1>12, RowTaken
<1> HIDE DEF log, new
<1>14. AllFacts(uow') = AllFacts(v) /\ SeenFits(uow')
  <2>1. AllFacts(uow') = AllFacts(v)
    BY <1>12 DEF AllFacts
  <2> QED BY <1>10, <1>11, <1>12, <2>1, SeenStays
<1>15. SessionFits'
  BY <1>6, <1>8, <1>10, <1>12, <1>13, <1>14 DEF SessionFits
<1> QED BY <1>2, <1>15, CommittedStays DEF LogInvariant

\* A file that is dispatched has no batch in the log yet.
LEMMA DispatchLog ==
  ASSUME StoreInv, LogInvariant, UNCHANGED content, NEW f \in Files, dispatch_pending_files(f)
  PROVE  LogInvariant'
<1>1. /\ \A g \in Files : status[g] # "BUSY"
      /\ status[f] = "PENDING" /\ status' = [status EXCEPT ![f] = "BUSY"]
      /\ file' = f /\ begun' = Append(begun, f) /\ UNCHANGED <<done, db, uow>>
  BY DEF dispatch_pending_files, session
<1>2. uow = NoUow
  BY <1>1, NoFileAssumption DEF StoreInv, TypeOK, ProgressOK, StoreOK, UowOK
<1>3. /\ status \in [Files -> {"PENDING", "BUSY", "PROCESSED", "FAILED"}] /\ begun \in Seq(Files)
      /\ DispatchedOnce
  BY DEF StoreInv, TypeOK, ProgressOK, LogInvariant
<1>4. done[f] = 0 /\ \A k \in DOMAIN begun : begun[k] # f
  BY <1>1, <1>3 DEF DispatchedOnce
<1>5. /\ DOMAIN begun' = DOMAIN begun \cup {Len(begun) + 1} /\ Len(begun) + 1 \notin DOMAIN begun
      /\ Len(begun') = Len(begun) + 1 /\ begun'[Len(begun) + 1] = f
      /\ \A k \in DOMAIN begun : begun'[k] = begun[k]
      /\ begun' # << >>
  BY <1>1, <1>3
<1>6. DispatchedOnce'
  <2>1. \A j, k \in DOMAIN begun' : begun'[j] = begun'[k] => j = k
    BY <1>3, <1>4, <1>5 DEF DispatchedOnce
  <2>2. \A g \in Files : status'[g] = "PENDING" =>
          done'[g] = 0 /\ \A k \in DOMAIN begun' : begun'[k] # g
    BY <1>1, <1>3, <1>5 DEF DispatchedOnce
  <2> QED BY <1>1, <1>5, <2>1, <2>2 DEF DispatchedOnce
<1>7. \A type : Stored(type)' = Stored(type)
  <2> SUFFICES ASSUME NEW type, NEW x PROVE x \in Stored(type)' <=> x \in Stored(type)
    <3>1. \A type : (\A x : x \in Stored(type)' <=> x \in Stored(type))
                     => Stored(type)' = Stored(type)
      OBVIOUS
    <3> QED BY <3>1
  <2>1. \A k \in DOMAIN begun : \A b : EntriesOf(k, b)' = EntriesOf(k, b)
    BY <1>5 DEF EntriesOf, Entry
  <2>2. 1..done[f] = {}
    BY <1>4
  <2>3. x \in Stored(type)' <=>
          \E k \in DOMAIN begun' : /\ content[begun'[k]].type = type
                                   /\ \E b \in 1..done[begun'[k]] : x \in EntriesOf(k, b)'
    BY <1>1 DEF Stored
  <2>4. x \in Stored(type)' <=>
          \E k \in DOMAIN begun : /\ content[begun[k]].type = type
                                  /\ \E b \in 1..done[begun[k]] : x \in EntriesOf(k, b)'
    BY <1>5, <2>2, <2>3
  <2> QED BY <2>1, <2>4, StoredMembers
<1>8. AreLeadsOf(db'.leads, Stored("leads")') /\ FactsFit(db'.facts, Stored("sales")', db'.dims)
  BY <1>1, <1>7 DEF LogInvariant
<1> QED BY <1>1, <1>2, <1>6, <1>8 DEF LogInvariant

\* A session begins for the next batch.
LEMMA BeginLog ==
  ASSUME StoreInv, LogInvariant, UNCHANGED content, persist_to_database
  PROVE  LogInvariant'
<1>1. /\ file # NoFile /\ done[file] < Len(Batches)
      /\ uow' = NewUow(done[file] + 1, db, serial)
      /\ UNCHANGED <<content, status, file, begun, done, db>>
  BY DEF persist_to_database, progress
<1>2. done[file] + 1 \in DOMAIN Batches
  BY <1>1, ContentFacts DEF StoreInv, TypeOK, ProgressOK
<1>3. db \in Tables
  BY DEF StoreInv, TypeOK, StoreOK
<1>4. AreLeadsOf(db.leads, Stored("leads")') /\ FactsFit(db.facts, Stored("sales")', db.dims)
  BY <1>1, LogStays DEF LogInvariant
<1>5. SessionFits'
  BY <1>1, <1>2, <1>3, <1>4, NewSessionFits
<1> QED BY <1>1, <1>5, CommittedStays DEF LogInvariant

\* A batch that was refused is taken again from the tables as they are.
LEMMA RefusedLog ==
  ASSUME StoreInv, LogInvariant, UNCHANGED content, operational_error
  PROVE  LogInvariant'
<1>1. uow # NoUow /\ UNCHANGED <<content, status, begun, done, db>>
  BY OpenOrNot DEF operational_error, StoreInv
<1>2. /\ file # NoFile /\ uow.batch \in DOMAIN Batches /\ uow.batch \in {done[file], done[file] + 1}
  BY <1>1, OpenSession DEF SessionFits, InOrder
<1>3. CASE uow' = NewUow(uow.batch, db, uow.next_id) /\ UNCHANGED file
  <2>1. db \in Tables
    BY DEF StoreInv, TypeOK, StoreOK
  <2>2. AreLeadsOf(db.leads, Stored("leads")') /\ FactsFit(db.facts, Stored("sales")', db.dims)
    BY <1>1, LogStays DEF LogInvariant
  <2>3. SessionFits'
    BY <1>1, <1>2, <1>3, <2>1, <2>2, NewSessionFits
  <2> QED BY <1>1, <1>3, <2>3, CommittedStays DEF LogInvariant
<1>4. CASE uow' = NoUow /\ file' = NoFile
  BY <1>1, <1>4, QuietLog
<1> QED BY <1>3, <1>4 DEF operational_error, Again, Retried, CloseUow

\* A commit makes the log of the session the log, and its tables the tables.  When the
\* answer is lost the batch is taken again, all of its rows in the log already.
LEMMA CommitLog ==
  ASSUME StoreInv, LogInvariant, UNCHANGED content, commit \/ commit_unanswered
  PROVE  LogInvariant'
<1>1. /\ uow # NoUow /\ uow.rows = << >> /\ db' = Flushed(uow).tables
      /\ done' = [done EXCEPT ![file] = uow.batch] /\ UNCHANGED <<content, status, begun>>
  BY OpenOrNot DEF commit, commit_unanswered, SessionIsCommitted, StoreInv
<1>2. /\ SessionFits /\ uow \in Uow /\ file # NoFile /\ file \in Files
      /\ uow.batch \in DOMAIN Batches
  BY <1>1, OpenSession
<1>3. /\ db' \in Tables /\ db'.leads = uow.tables.leads /\ db'.facts = AllFacts(uow)
      /\ db'.dims = uow.tables.dims
  BY <1>1, <1>2, FlushedFields DEF AllFacts, Uow
<1>4. \A type : Stored(type)' = SessionLog(type)
  BY <1>1, AllTaken
<1>5. AreLeadsOf(db'.leads, Stored("leads")') /\ FactsFit(db'.facts, Stored("sales")', db'.dims)
  BY <1>2, <1>3, <1>4 DEF SessionFits
<1>6. /\ done'[file] = uow.batch
      /\ \A f \in Files : f # file => done'[f] = done[f]
      /\ status[file] = "BUSY"
  BY <1>1, <1>2 DEF StoreInv, TypeOK, ProgressOK
<1>7. ASSUME file' \in {file, NoFile} PROVE DispatchedOnce'
  BY <1>1, <1>6, <1>7 DEF LogInvariant, DispatchedOnce
<1>8. CASE uow' = NewUow(uow.batch, db', uow.next_id) /\ UNCHANGED file
  <2>1. SessionFits'
    BY <1>1, <1>2, <1>3, <1>5, <1>6, <1>8, NewSessionFits
  <2> QED BY <1>5, <1>7, <1>8, <2>1 DEF LogInvariant
<1>9. CASE uow' = NoUow /\ file' \in {file, NoFile}
  BY <1>5, <1>7, <1>9 DEF LogInvariant
<1> QED BY <1>8, <1>9 DEF commit, commit_unanswered, Again, Retried, CloseUow

-------------------------------------------------------------------------------
(***************************************************************************)
(* Rollbacks.                                                              *)
(***************************************************************************)
\* The history without a file, of which no snapshot's key is that of another file's.
LEMMA HistoryWithout ==
  ASSUME NEW log, IsLeadLog(log), NEW f, NEW e
  PROVE  History(e, {x \in log : x.file # f}) = {u \in History(e, log) : u.source_file_id # f}
<1> DEFINE rest == {x \in log : x.file # f}
<1>1. \A x \in log : x.key = <<x.row.email, x.file, x.row.data.incoming_timestamp>>
  BY DEF IsLeadLog, KeyOf
<1>2. \A x, y \in log : x.key = y.key => x.file = y.file
  BY <1>1
<1>3. Firsts(rest) = {x \in Firsts(log) : x.file # f}
  BY <1>2 DEF Firsts
<1> HIDE DEF rest
<1>4. \A x : Snapshot(x.file, x.row.data).source_file_id = x.file
  BY DEF Snapshot
<1>5. History(e, rest) = {u \in History(e, log) : u.source_file_id # f}
  BY <1>3, <1>4 DEF History
<1> QED BY <1>5 DEF rest

\* The log without the rows of a file: the leads are rolled back to it, and the facts
\* need no change, as a file that has a fact is not rolled back.
LEMMA CleanUpLog ==
  ASSUME StoreInv, LogInvariant, UNCHANGED content, clean_up
  PROVE  LogInvariant'
<1>1. /\ uow = NoUow /\ file # NoFile /\ file \in Files /\ db \in Tables
      /\ status' = [status EXCEPT ![file] = "FAILED"] /\ file' = NoFile
      /\ done' = [done EXCEPT ![file] = 0] /\ UNCHANGED <<content, begun, uow>> /\ ~CannotDelete
      /\ status \in [Files -> {"PENDING", "BUSY", "PROCESSED", "FAILED"}] /\ done \in [Files -> Nat]
  BY OpenOrNot DEF clean_up, Settle, session, StoreInv, TypeOK, StoreOK, ProgressOK
<1>2. PICK leads \in [Emails -> UNION {LeadsAfter(e, file) : e \in Emails}] :
        /\ \A e \in Emails : leads[e] \in LeadsAfter(e, file)
        /\ db' = [db EXCEPT !.leads = leads]
  BY DEF clean_up
<1>3. db'.leads = leads /\ db'.facts = db.facts /\ db'.dims = db.dims
  BY <1>1, <1>2 DEF Tables
<1>4. \A type : Stored(type)' = {x \in Stored(type) : x.file # file}
  BY <1>1, FileTakenOut
<1>5. DispatchedOnce'
  BY <1>1 DEF LogInvariant, DispatchedOnce
<1>6. AreLeadsOf(leads, Stored("leads")')
  <2> SUFFICES ASSUME NEW e \in Emails PROVE IsMadeOf(leads[e], History(e, Stored("leads")'))
    BY DEF AreLeadsOf
  <2> DEFINE H == History(e, Stored("leads"))
             rest == {u \in H : u.source_file_id # file}
             lead == db.leads[e]
  <2>1. /\ History(e, Stored("leads")') = rest
        /\ H \in SUBSET LeadSnapshot
    <3>1. IsLeadLog(Stored("leads")) /\ Stored("leads")' = {x \in Stored("leads") : x.file # file}
      BY <1>4, StoredTypes
    <3> DEFINE log == Stored("leads")
    <3>2. IsLeadLog(log) /\ Stored("leads")' = {x \in log : x.file # file}
      BY <3>1
    <3> HIDE DEF log
    <3>3. History(e, {x \in log : x.file # file}) =
            {u \in History(e, log) : u.source_file_id # file}
      BY <3>2, HistoryWithout
    <3>4. History(e, log) \subseteq LeadSnapshot
      BY <3>2, HistoryType
    <3> QED BY <3>2, <3>3, <3>4 DEF log
  <2>2. IsMadeOf(lead, H) /\ lead \in LeadRow \cup {NoLead} /\ leads[e] \in LeadsAfter(e, file)
    BY <1>1, <1>2 DEF LogInvariant, AreLeadsOf, Tables
  <2> HIDE DEF H
  <2>3. CASE e \in get_by_source_file(file)
    <3>1. Exists(lead) /\ leads[e] \in rollback(lead, file)
      BY <2>2, <2>3 DEF get_by_source_file, LeadsAfter
    <3>2. lead \in LeadRow
      BY <2>2, <3>1 DEF Exists
    <3> HIDE DEF lead
    <3> QED BY <1>1, <2>1, <2>2, <3>1, <3>2, RollbackIsMadeOf
  <2>4. CASE e \notin get_by_source_file(file)
    <3>1. leads[e] = lead
      BY <2>2, <2>4 DEF LeadsAfter
    <3>2. rest = H
      <4>1. CASE H = {}
        BY <4>1
      <4>2. CASE H # {}
        <5>1. Exists(lead) /\ lead.updates = H
          BY <2>2, <4>2 DEF IsMadeOf
        <5>2. \A u \in H : u.source_file_id # file
          BY <2>4, <5>1 DEF get_by_source_file
        <5> QED BY <5>2
      <4> QED BY <4>1, <4>2
    <3> QED BY <2>1, <2>2, <3>1, <3>2
  <2> QED BY <2>3, <2>4
<1>7. FactsFit(db.facts, Stored("sales")', db.dims)
  <2> DEFINE log == Stored("sales")
  <2>1. IsLog(log) /\ FactsFit(db.facts, log, db.dims) /\ db.facts \in Seq(Fact)
    BY <1>1, StoredTypes DEF IsSaleLog, LogInvariant, Tables
  <2>2. \A k \in DOMAIN db.facts : db.facts[k].source_file_id # file
    BY <1>1 DEF CannotDelete
  <2> HIDE DEF log
  <2>3. \A x \in Firsts(log) : x.file # file
    BY <2>1, <2>2, FactOfEntry DEF IsFactOf
  <2> DEFINE rest == {x \in log : x.file # file}
  <2>4. rest \in SUBSET log /\ Firsts(log) \subseteq rest
    BY <2>3 DEF Firsts
  <2> HIDE DEF rest
  <2>5. FactsFit(db.facts, rest, db.dims)
    BY <2>1, <2>4, FactsOfShorterLog
  <2> QED BY <1>4, <2>5 DEF rest, log
<1> QED BY <1>1, <1>3, <1>5, <1>6, <1>7 DEF LogInvariant

-------------------------------------------------------------------------------
(***************************************************************************)
(* The invariant, and what follows from it.                                *)
(***************************************************************************)
LEMMA InitLog == Init => LogInvariant
<1> SUFFICES ASSUME Init PROVE LogInvariant
  OBVIOUS
<1>1. begun = << >> /\ file = NoFile /\ uow = NoUow /\ done = [f \in Files |-> 0]
      /\ db.leads = [e \in Emails |-> NoLead] /\ db.facts = << >>
  BY DEF Init
<1>2. \A type : Stored(type) = {}
  BY <1>1 DEF Stored
<1>3. DispatchedOnce
  BY <1>1 DEF DispatchedOnce
<1>4. Firsts({}) = {} /\ \A e : History(e, {}) = {}
  BY DEF Firsts, History
<1>5. AreLeadsOf(db.leads, {})
  BY <1>1, <1>4 DEF AreLeadsOf, IsMadeOf
<1>6. FactsFit(db.facts, {}, db.dims)
  <2>1. IsFiniteSet({}) /\ Cardinality({}) = 0
    BY FS_EmptySet
  <2>2. Len(db.facts) = 0 /\ DOMAIN db.facts = {}
    BY <1>1
  <2> QED BY <1>4, <2>1, <2>2 DEF FactsFit, AreFactsOf
<1> QED BY <1>1, <1>2, <1>3, <1>5, <1>6 DEF LogInvariant

LEMMA NextLog ==
  ASSUME StoreInv, LogInvariant, [Next]_vars
  PROVE  LogInvariant'
<1>1. /\ (uow.open <=> uow # NoUow)
      /\ file # NoFile => file \in Files
      /\ status \in [Files -> {"PENDING", "BUSY", "PROCESSED", "FAILED"}]
  BY OpenOrNot DEF StoreInv, TypeOK, ProgressOK
<1>2. CASE UNCHANGED vars
  <2>1. UNCHANGED <<content, begun, done, db, uow, file, status>>
    BY <1>2 DEF vars, progress, session
  <2> QED BY <2>1, QuietLog
<1>3. ASSUME UNCHANGED content, Scheduler
      PROVE  LogInvariant'
  <2>1. CASE file_completed_handler
    <3>1. /\ uow' = NoUow /\ file' = NoFile /\ UNCHANGED <<begun, done, db>>
          /\ status' = [status EXCEPT ![file] = "PROCESSED"] /\ file \in Files
      BY <1>1, <2>1 DEF file_completed_handler, Settle, session
    <3> QED BY <1>1, <1>3, <3>1, QuietLog
  <2>2. CASE clean_up_raises
    BY <1>1, <1>3, <2>2, QuietLog DEF clean_up_raises, session
  <2> QED BY <1>3, <2>1, <2>2, DispatchLog, BeginLog, LeadTaken, SaleTaken, CommitLog, CleanUpLog
          DEF Scheduler
<1>4. ASSUME UNCHANGED content, Alerter
      PROVE  LogInvariant'
  <2>1. UNCHANGED <<progress, db, session>>
    BY <1>4 DEF Alerter, handle_mql_alerts, commit_mql_alerts, send_email, alert_email_failed
  <2> QED BY <1>4, <2>1, QuietLog DEF progress, session
<1>5. ASSUME UNCHANGED content, Faults
      PROVE  LogInvariant'
  <2>1. CASE mql_alerts_outage
    BY <1>5, <2>1, QuietLog DEF mql_alerts_outage, progress, session
  <2>2. CASE crash
    BY <1>5, <2>2, QuietLog DEF crash, CloseUow
  <2> QED BY <1>5, <2>1, <2>2, RefusedLog, CommitLog DEF Faults
<1> QED BY <1>2, <1>3, <1>4, <1>5 DEF Next

\* The tables of leads and of facts, those of the session of a batch included, are what
\* the log makes of them in every behaviour, however often its batches are tried.
THEOREM TablesFollowTheLog == Spec => []LogInvariant
<1>1. Init => StoreInv /\ LogInvariant
  BY InitStore, InitLog
<1>2. StoreInv /\ LogInvariant /\ [Next]_vars => (StoreInv /\ LogInvariant)'
  BY NextStore, NextLog
<1> QED BY <1>1, <1>2, PTL DEF Spec

\* A lead is what its history makes of it, whatever the order of files and rows, the
\* retries and the rollbacks it came about by.
THEOREM LeadsFollowTheirHistory == Spec => []LeadsAreTheirHistory
<1>1. LogInvariant => LeadsAreTheirHistory
  BY DEF LogInvariant, LeadsAreTheirHistory
<1> QED BY <1>1, TablesFollowTheLog, PTL

\* The facts are the first row of every transaction and SKU, each once and in order.
THEOREM FactsFollowTheLog == Spec => []FactsAreFirstSales
<1>1. LogInvariant => FactsAreFirstSales
  BY DEF LogInvariant, FactsFit, FactsAreFirstSales
<1> QED BY <1>1, TablesFollowTheLog, PTL

===============================================================================

--------------------------- MODULE RecordsInvariant ---------------------------
(***************************************************************************)
(* Why the tables are a function of the log: an inductive invariant that   *)
(* says the same of the session of the batch in hand, whose log has also   *)
(* the rows that the session has taken.  A batch whose commit was not      *)
(* answered is taken again, when its rows are in the log already.          *)
(***************************************************************************)
EXTENDS RecordsProperties

\* Files are dispatched once, and the file in hand is the one dispatched last.
DispatchedOnce ==
  /\ \A j, k \in DOMAIN begun : begun[j] = begun[k] => j = k
  /\ \A f \in Files : status[f] = "PENDING" =>
       done[f] = 0 /\ \A k \in DOMAIN begun : begun[k] # f
  /\ file # NoFile => begun # << >> /\ begun[Len(begun)] = file

\* How many rows of its batch the session has taken.
Taken == Len(Batches[uow.batch]) - Len(uow.rows)

\* The session goes through the next batch, or again through the last, row by row.
InOrder ==
  /\ uow.batch \in {done[file], done[file] + 1}
  /\ Taken \in Nat
  /\ \A i \in DOMAIN uow.rows : uow.rows[i] = Batches[uow.batch][Taken + i]

TakenRows(type) ==
  IF content[file].type = type
  THEN {Entry(Len(begun), uow.batch, r) : r \in 1..Taken}
  ELSE {}

SessionLog(type) == Stored(type) \cup TakenRows(type)

\* The facts are those of the log, and no others.
FactsFit(facts, log, dims) ==
  LET firsts == Firsts(log)
  IN  /\ IsFiniteSet(firsts)
      /\ AreFactsOf(facts, log, dims)
      /\ \A k \in DOMAIN facts : \E x \in firsts : Rank(x, firsts) = k

\* The facts of a session: the ones its queries see, and the pending ones.
AllFacts(u) == u.tables.facts \o u.pending

\* seen_sales knows the facts that no query sees, and nothing that is not there.
SeenFits(u) ==
  /\ \A sale \in u.seen_sales : \E k \in DOMAIN AllFacts(u) :
       LET fact == AllFacts(u)[k]
       IN  fact.transaction_id = sale[1] /\ fact.product_id = u.tables.dims[sale[2]]
  /\ \A k \in DOMAIN u.pending : \E sku \in Skus :
       /\ <<u.pending[k].transaction_id, sku>> \in u.seen_sales
       /\ u.pending[k].product_id = u.tables.dims[sku]

SessionFits ==
  /\ InOrder
  /\ AreLeadsOf(uow.tables.leads, SessionLog("leads"))
  /\ FactsFit(AllFacts(uow), SessionLog("sales"), uow.tables.dims)
  /\ SeenFits(uow)

LogInvariant ==
  /\ DispatchedOnce
  /\ AreLeadsOf(db.leads, Stored("leads"))
  /\ FactsFit(db.facts, Stored("sales"), db.dims)
  /\ uow # NoUow => SessionFits
===============================================================================

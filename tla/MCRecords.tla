------------------------------ MODULE MCRecords -------------------------------
(***************************************************************************)
(* File contents for TLC.                                                  *)
(***************************************************************************)
EXTENDS RecordsProperties, TLC

CONSTANTS f1, f2, f3, e1, e2, s1, s2, c1, c2, t1, t2, d1, d2

L(email, time, lead_status, score, sector) ==
  [email |-> email,
   data |-> [incoming_timestamp |-> time, status |-> lead_status, score |-> score, sector |-> sector]]

S(transaction, sku, customer, date, quantity) ==
  [transaction_id |-> transaction, sku |-> sku, customer |-> customer, date |-> date,
   quantity_sold |-> quantity]

Leads(batches) == [type |-> "leads", batches |-> batches]
Sales(batches) == [type |-> "sales", batches |-> batches]

World(a, b, c) == (f1 :> a) @@ (f2 :> b) @@ (f3 :> c)

\* One address in three files, out of order, with equal times in two of them.
OutOfOrder ==
  World(Leads(<< <<L(e1, 2, "NEW", 50, "Retail"), L(e1, 1, "CONTACTED", 10, "Retail")>> >>),
        Leads(<< <<L(e1, 3, "NEW", 49, "Decor")>>, <<L(e1, 1, "QUALIFIED", 60, "Decor")>> >>),
        Leads(<< <<L(e1, 3, "REJECTED", 50, "Retail"), L(e1, 3, "NEW", 50, "Other")>> >>))

\* Two addresses that qualify, for different members of the team.
Qualified ==
  World(Leads(<< <<L(e1, 1, "NEW", 50, "Retail"), L(e2, 1, "NEW", 70, "Farming")>> >>),
        Leads(<< <<L(e2, 2, "MQL", 10, "Decor")>> >>),
        Leads(<< <<L(e1, 2, "CONTACTED", 80, "Decor")>> >>))

\* Transactions, products, customers and dates that come again, in one batch, in a
\* later one and in another file, with other quantities.
Overlapping ==
  World(Sales(<< <<S(t1, s1, c1, d1, 1), S(t1, s2, c1, d1, 2), S(t1, s1, c2, d2, 3)>>,
                 <<S(t2, s2, c2, d1, 4), S(t1, s2, c1, d2, 5)>> >>),
        Sales(<< <<S(t2, s2, c1, d2, 6), S(t2, s1, c1, d2, 7)>> >>),
        Leads(<< <<L(e1, 1, "NEW", 50, "Decor")>> >>))

AllContents == {OutOfOrder, Qualified, Overlapping}

\* The sectors of three members; nobody is in charge of "Farming".
TheTeam == << {"Retail"}, {"Retail", "Other"}, {"Decor"} >>
===============================================================================

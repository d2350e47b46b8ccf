------------------------------ MODULE MCPipeline ------------------------------
(***************************************************************************)
(* Instances of the pipeline for TLC: file contents small enough to        *)
(* enumerate, each on one side of a boundary the handlers test.            *)
(***************************************************************************)
EXTENDS PipelineProperties, TLC

CONSTANTS h1, h2, h3  \* row payload hashes

MCTypes == {"leads", "sales", "orders"}
MCRows  == {h1, h2, h3}

B(valid, invalid, hashes) == [valid |-> valid, invalid |-> invalid, hashes |-> hashes]

Read(rows, incomplete, hashes, batches) ==
  [header |-> "readable", rows |-> rows, incomplete |-> incomplete,
   hashes |-> hashes, batches |-> batches]

Unread(header) ==
  [header |-> header, rows |-> 0, incomplete |-> 0, hashes |-> {}, batches |-> << >>]

\* A file whose header matches one type, and one whose header matches both.
Single(type, reading) ==
  [types |-> {type}, assumed_type |-> type,
   readings |-> [t \in MCTypes |-> IF t = type THEN reading ELSE Unread("columns_missing")]]

Ambiguous(as_leads, as_sales) ==
  [types |-> {"leads", "sales"}, assumed_type |-> "leads",
   readings |-> [t \in MCTypes |-> CASE t = "leads" -> as_leads
                                     [] t = "sales" -> as_sales
                                     [] OTHER       -> Unread("columns_missing")]]

\* Two full batches, nothing turned away.
Clean == Single("sales", Read(3, 0, {}, << B(2, 0, {}), B(1, 0, {}) >>))

\* One row turned away by the audit and one by pydantic: exactly a fifth.
AtThreshold == Single("leads", Read(10, 1, {h1}, << B(5, 0, {}), B(3, 1, {h2}) >>))

\* Two equal rows turned away by the audit.
EqualRows == Single("sales", Read(10, 2, {h1}, << B(8, 0, {}) >>))

\* The second batch takes the file over the threshold.
DriftInBatch == Single("leads", Read(9, 1, {h1}, << B(5, 0, {}), B(2, 1, {h3}) >>))

\* A fifth of the rows turned away by the audit, and no more.
AuditAtThreshold == Single("sales", Read(5, 1, {h1}, << B(3, 0, {}), B(1, 0, {}) >>))

\* More than a fifth.
AuditOver == Single("leads", Read(9, 2, {h1, h2}, << B(7, 0, {}) >>))

\* No usable timestamp columns.
NoTimestamps == Single("leads", Unread("timestamps_wrong"))

\* Incomplete as a lead, good as a sale; and good as neither.
SecondTypeFits == Ambiguous(Unread("columns_missing"), Read(6, 1, {h2}, << B(5, 0, {}) >>))
NoTypeFits     == Ambiguous(Unread("columns_missing"), Read(4, 1, {h2}, << B(3, 0, {}) >>))

\* A header and nothing else.
HeaderOnly == Single("sales", Read(0, 0, {}, << >>))

\* A last batch in which pydantic accepts no row.
LastBatchInvalid == Single("leads", Read(6, 0, {}, << B(5, 0, {}), B(0, 1, {h1}) >>))

\* A type whose registry entry names no repository, or the wrong identifiers.
WrongEntry == Single("orders", Read(4, 0, {}, << B(2, 0, {}), B(2, 0, {}) >>))

CompletableShapes ==
  {Clean, AtThreshold, EqualRows, DriftInBatch, AuditAtThreshold, AuditOver, NoTimestamps,
   SecondTypeFits, NoTypeFits, WrongEntry}
MishapShapes ==
  {AtThreshold, DriftInBatch, SecondTypeFits, WrongEntry, HeaderOnly, LastBatchInvalid}
StallingShapes  == {Clean, HeaderOnly, LastBatchInvalid}
ThresholdShapes == {AtThreshold, AuditAtThreshold}
CleanShapes     == {Clean}
DriftShapes     == {DriftInBatch, AuditOver}
===============================================================================

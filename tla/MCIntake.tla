------------------------------- MODULE MCIntake -------------------------------
(***************************************************************************)
(* Instances of the intake for TLC.                                        *)
(***************************************************************************)
EXTENDS IntakeProperties, TLC

CONSTANTS d1, d2, d3, n1, n2, n3, h1, h2  \* deliveries, names, hashes

P(directory, name, kind, matches, hash) ==
  [directory |-> directory, name |-> name, kind |-> kind, matches |-> matches, hash |-> hash]

Leads(name, hash) == P("leads", name, "text", {"leads"}, hash)
Sales(name, hash) == P("sales", name, "text", {"sales"}, hash)

\* The same content three times, in both directories.
Equals == d1 :> Leads(n1, h1) @@ d2 :> Sales(n2, h1) @@ d3 :> Sales(n3, h1)

\* Two contents, one of them ambiguous, and a file that is no CSV file whatever its
\* name says.
Mixed == d1 :> Leads(n1, h1) @@ d2 :> P("sales", n2, "text", {"leads", "sales"}, h2)
         @@ d3 :> P("sales", n3, "bad_mime", {}, h2)

\* What is refused, ignored or left lying.
Refused == d1 :> P("leads", n1, "not_csv", {}, h1) @@ d2 :> P("sales", n2, "not_csv", {}, h1)
           @@ d3 :> P("leads", n3, "text", {}, h2)

\* One name and one content in both directories, and a file nobody takes up.
Collision == d1 :> Leads(n1, h1) @@ d2 :> Sales(n1, h1) @@ d3 :> P("sales", n3, "not_csv", {}, h2)

\* One name in both directories, and in one of them twice.
SameName == d1 :> Leads(n1, h1) @@ d2 :> Sales(n1, h2) @@ d3 :> Leads(n1, h2)

AllManifests   == {Equals, Mixed, Refused, Collision}
PlainManifests == {Mixed}
SameManifests  == {SameName}
===============================================================================

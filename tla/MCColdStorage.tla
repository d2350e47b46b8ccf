---------------------------- MODULE MCColdStorage -----------------------------
(***************************************************************************)
(* Where files end, for TLC.                                               *)
(***************************************************************************)
EXTENDS ColdStorageProperties, TLC

CONSTANTS f1, f2, f3, n1, n2

\* One name in two directories, and another one.
Apart ==
  f1 :> <<"archive", n1>> @@ f2 :> <<"rejected", n1>> @@ f3 :> <<"rejected", n2>>

Spread ==
  f1 :> <<"quarantine", n1>> @@ f2 :> <<"bad_files", n2>> @@ f3 :> <<"duplicate_files", n1>>

\* The file of a later day has the name of an earlier one.
SameName ==
  f1 :> <<"archive", n1>> @@ f2 :> <<"archive", n1>> @@ f3 :> <<"bad_files", n1>>

AllManifests  == {Apart, Spread, SameName}
SameManifests == {SameName}
===============================================================================

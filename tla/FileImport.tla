------------------------------ MODULE FileImport ------------------------------
(***************************************************************************)
(* What Custos promises of a file, whatever handlers, queues and retries   *)
(* it takes: files are imported one at a time, a file that is done was     *)
(* stored whole, a file that failed left nothing behind, and neither is    *)
(* ever taken up again.                                                    *)
(***************************************************************************)
CONSTANTS
  Files,  \* the files
  Parts   \* the parts files are stored in

VARIABLES
  whole,    \* the sets of parts that make each file whole, one per way to read it
  phase,    \* how far each file is
  imported  \* the parts of each file that are stored

vars == <<whole, phase, imported>>

Phase == {"unknown", "pending", "busy", "done", "failed"}

TypeOK ==
  /\ whole \in [Files -> SUBSET (SUBSET Parts)]
  /\ phase \in [Files -> Phase]
  /\ imported \in [Files -> SUBSET Parts]

Init ==
  /\ whole \in [Files -> SUBSET (SUBSET Parts)]
  /\ phase = [f \in Files |-> "unknown"]
  /\ imported = [f \in Files |-> {}]

Advance(f, from, to) ==
  /\ phase[f] = from
  /\ phase' = [phase EXCEPT ![f] = to]
  /\ UNCHANGED imported

Register(f) == Advance(f, "unknown", "pending")

Begin(f) ==
  /\ \A g \in Files : phase[g] # "busy"
  /\ Advance(f, "pending", "busy")

Import(f) ==
  /\ phase[f] = "busy"
  /\ \E part \in Parts : imported' = [imported EXCEPT ![f] = @ \cup {part}]
  /\ UNCHANGED phase

Withdraw(f) ==
  /\ phase[f] = "busy"
  /\ imported' = [imported EXCEPT ![f] = {}]
  /\ UNCHANGED phase

Complete(f) ==
  /\ imported[f] \in whole[f]
  /\ Advance(f, "busy", "done")

Fail(f) ==
  /\ imported[f] = {}
  /\ Advance(f, "busy", "failed")

Next ==
  /\ \E f \in Files :
       Register(f) \/ Begin(f) \/ Import(f) \/ Withdraw(f) \/ Complete(f) \/ Fail(f)
  /\ UNCHANGED whole

Spec == Init /\ [][Next]_vars
===============================================================================

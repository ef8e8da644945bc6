----------------------------- MODULE MCRewritten -----------------------------
(* The command lines of MCValetTool, and every run of what they put out. *)
EXTENDS MCValetTool, Rewritten

ASSUME inputsAssumption == \A l \in Inputs : Manageable(l)
=============================================================================

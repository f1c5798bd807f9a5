--------------------------- MODULE MCDecisionLedger ---------------------------
(***************************************************************************)
(* DecisionLedger for TLC.  The processes are interchangeable: commands    *)
(* name them only as the ids of the rows they add.                         *)
(***************************************************************************)
EXTENDS DecisionLedger, TLC

ProcessSymmetry == Permutations(Processes)
==============================================================================

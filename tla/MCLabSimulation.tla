---------------------------- MODULE MCLabSimulation ----------------------------
(***************************************************************************)
(* Instances of LabSimulation for TLC.                                     *)
(***************************************************************************)
EXTENDS LabSimulation, TLC

TwoEvents == <<"siem", "edr">>
LabSymmetry == Permutations(Ticks) \union Permutations(Sims)
=============================================================================

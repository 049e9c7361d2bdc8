------------------------------ MODULE MCTaxiiSync ------------------------------
(***************************************************************************)
(* Instances of TaxiiSync for TLC.                                         *)
(***************************************************************************)
EXTENDS TaxiiSync, TLC

CallerSymmetry == Permutations(Callers)
=============================================================================

--------------------------- MODULE MCAuditAnchoring ---------------------------
(* TLC instances of AuditAnchoring.  Runs of runAnchorBatch are               *)
(* interchangeable: no action or invariant names one.                         *)
EXTENDS AuditAnchoring, TLC

RunnerSymmetry == Permutations(Runners)
=============================================================================

-------------------------- MODULE MCIncidentWorkflow --------------------------
(***************************************************************************)
(* Instances of IncidentWorkflow for TLC: a resource of the organization   *)
(* that creates incidents, and one of another.                             *)
(***************************************************************************)
EXTENDS IncidentWorkflow, TLC

CONSTANTS o1, o2, finding, analysis

MCOrgOf == [r \in Resources |-> IF r = finding THEN o1 ELSE o2]

RequestSymmetry == Permutations(Requests)
=============================================================================

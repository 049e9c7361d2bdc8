---------------------------- MODULE MCDecisionProof ----------------------------
(***************************************************************************)
(* Instances of DecisionProof, and with it of ResponseDecision, for TLC:   *)
(* two options of two action types, under policies that ask for two        *)
(* approvals, for one and a rollback plan, or allow none.                  *)
(***************************************************************************)
EXTENDS DecisionProof, TLC

Policy(mode, approvals, rollback) ==
  [mode |-> mode, maxImpact |-> 1, minApprovals |-> approvals,
   roles |-> {"incident_commander", "viewer"}, rollback |-> rollback]

MCPolicies ==
  {Policy("operator_approved", 2, FALSE), Policy("recommend_only", 1, FALSE),
   Policy("prohibited", 1, FALSE), Policy("operator_approved", 1, TRUE)}

Candidate(action, impact, rollback) == [action |-> action, impact |-> impact, rollback |-> rollback]

MCCandidates ==
  {<<Candidate("isolate_asset", 1, FALSE), Candidate("shutdown_service", 0, TRUE)>>}

ProofSymmetry == Permutations(Wallets) \union Permutations(Submitters) \union Permutations(Users)
=============================================================================

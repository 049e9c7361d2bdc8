SPECIFICATION ProofSpec
CONSTANTS
  Users = {u1, u2, u3}
  Roles = {"incident_commander", "ot_engineer", "viewer"}
  ActionTypes = {"isolate_asset", "shutdown_service"}
  Policies <- MCPolicies
  Candidates <- MCCandidates
  Simulators = {s1, s2}
  MaxScenarios = 1
  MaxUpserts = 2
  Wallets = {w1, w2}
  NoWallet = NoWallet
  Submitters = {c1, c2}
  MaxChallenges = 2
  MaxSubmissions = 3
  MaxFaults = 1
SYMMETRY ProofSymmetry
CHECK_DEADLOCK FALSE
INVARIANTS
  ApprovalHasQuorum
  OneVoteOneOption
  ApprovalMeetsOnlyPolicy
  WalletsAreProved
  ProofsVerify
PROPERTIES
  DecisionsAreEvidence

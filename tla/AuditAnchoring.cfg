SPECIFICATION FairSpec
CONSTANTS
  Orgs = {o1}
  NoOrg = NoOrg
  Runners = {r1, r2}
  DataStores = {"memory", "postgres"}
  MaxTime = 1
  MaxEvents = 2
  MaxTxs = 4
  MaxFailures = 1
CHECK_DEADLOCK FALSE
INVARIANTS
  AnchorsAreTruthful
  ProofAnchorIncludesEvent
PROPERTIES
  IncludedStaysIncluded
  ImplementsLedger
  EveryEventReachesChain

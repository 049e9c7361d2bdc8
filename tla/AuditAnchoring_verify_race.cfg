SPECIFICATION Spec
CONSTANTS
  Orgs = {o1, o2}
  NoOrg = NoOrg
  Runners = {r1, r2}
  DataStores = {"memory"}
  MaxTime = 1
  MaxEvents = 2
  MaxTxs = 2
  MaxFailures = 0
CHECK_DEADLOCK FALSE
INVARIANT
  EveryConfirmedAnchorVerifies

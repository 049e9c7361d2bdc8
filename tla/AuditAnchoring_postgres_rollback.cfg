SPECIFICATION Spec
CONSTANTS
  Orgs = {o1}
  NoOrg = NoOrg
  Runners = {r1}
  DataStores = {"postgres"}
  MaxTime = 1
  MaxEvents = 2
  MaxTxs = 2
  MaxFailures = 0
CHECK_DEADLOCK FALSE
INVARIANT
  SuccessfulRunsAreRecorded

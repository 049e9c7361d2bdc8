SPECIFICATION Spec
CONSTANTS
  Sources = {s1}
  NoSource = NoSource
  Indicators = {i1}
  Versions = {1}
  Callers = {c1}
  DataStores = {"postgres"}
  MaxAttempts = 1
  MaxPages = 1
  MaxTime = 1
  MaxJobs = 1
  MaxToggles = 0
  MaxCrashes = 1
CHECK_DEADLOCK FALSE
INVARIANTS
  RunningJobIsWorkedOn

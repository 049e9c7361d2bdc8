SPECIFICATION Spec
CONSTANTS
  Sources = {s1}
  NoSource = NoSource
  Indicators = {i1}
  Versions = {1, 2}
  Callers = {c1, c2}
  DataStores = {"memory", "postgres"}
  MaxAttempts = 2
  MaxPages = 2
  MaxTime = 1
  MaxJobs = 2
  MaxToggles = 1
  MaxCrashes = 1
CHECK_DEADLOCK FALSE
SYMMETRY CallerSymmetry
INVARIANTS
  NothingMissed
  JobsTellTheSync
PROPERTIES
  ImplementsMirror
  EveryStepIsProgress

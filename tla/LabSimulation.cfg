SPECIFICATION Spec
CONSTANTS
  Sims = {s1, s2}
  NoSim = NoSim
  Ticks = {t1, t2}
  EventSources <- TwoEvents
  DataStores = {"memory", "postgres"}
  MaxFaults = 1
  MaxEvents = 3
CHECK_DEADLOCK FALSE
SYMMETRY LabSymmetry
INVARIANTS
  TimersFollowStatus
  OneIncident
  ReportsOwnEvidence
PROPERTIES
  InMemoryRunsAreWhole

SPECIFICATION Spec
CONSTANTS
  o1 = o1
  o2 = o2
  finding = finding
  analysis = analysis
  Orgs = {o1}
  Resources = {finding, analysis}
  OrgOf <- MCOrgOf
  Keys = {k1}
  Users = {u1}
  Nobody = Nobody
  TaskStatuses = {"todo", "done"}
  Requests = {c1, c2}
  DataStores = {"memory", "postgres"}
  MaxIncidents = 2
  MaxEntries = 6
  MaxRollbacks = 1
CHECK_DEADLOCK FALSE
SYMMETRY RequestSymmetry
INVARIANTS
  TimelineTellsStatus
  TimesBelongToStatus
  EvidenceIsAccountedFor
  TablesMatchRecords
  CreationIsIdempotent
PROPERTIES
  HistoryIsKept

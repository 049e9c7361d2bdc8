SPECIFICATION RiskSpec
CONSTANTS
  Assets = {"gateway", "hmi", "plc", "historian"}
  DataStores = {"memory", "postgres"}
  Requests = {r1, r2}
  Inventories <- MCInventories
  Rows <- MCRows
  Enrichments <- MCEnrichments
  Dependencies <- MCDependencies
  Vulnerabilities <- MCVulnerabilities
  Services <- MCServices
  Events <- MCEvents
  Files <- MCFiles
  Analyses <- MCAnalyses
  PathLimit = 4
  ExamineLimit = 7
  MaxChanges = 3
  MaxAnalyses = 1
CHECK_DEADLOCK FALSE
SYMMETRY RiskSymmetry
INVARIANTS
  BlastRadiusIsReal
  AnalysesAreExact
  EnrichmentKeepsInventory
PROPERTIES
  ThreatsRaiseRisk

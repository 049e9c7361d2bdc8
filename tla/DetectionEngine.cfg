SPECIFICATION Spec
CONSTANTS
  siem = siem
  stix = stix
  login = login
  dumping = dumping
  both = both
  old = old
  new = new
  x1 = x1
  Integrations = {siem, stix}
  Payloads = {both, old, new}
  PayloadsOf <- MCPayloadsOf
  EventsIn <- MCEventsIn
  IndicatorsIn <- MCIndicatorsIn
  Events = {login, dumping}
  EventOf <- MCEventOf
  Indicators = {x1}
  DeliveryIds = {d1}
  Requests = {r1, r2}
  DataStores = {"memory", "postgres"}
  MaxTime = 1
  MaxDeliveries = 2
  MaxAdministration = 1
  MinimumEvents = 1
  Thresholds = {65}
  Dispositions = {"escalated"}
  MaxModels = 2
  MaxReviews = 1
CHECK_DEADLOCK FALSE
SYMMETRY RequestSymmetry
INVARIANTS
  DeliveriesAreHeld
  LastModelIsActive
  OneFinding
  EvaluatedMeansFlagged
PROPERTIES
  ReviewsSurvive

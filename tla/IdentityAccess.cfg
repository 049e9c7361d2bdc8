SPECIFICATION Spec
CONSTANTS
  Orgs = {o1, o2}
  People = {p1, p2}
  Subjects = {s1, s2}
  EnrolledRoles = {"viewer"}
  Requests = {c1, c2}
  DataStores = {"memory", "postgres"}
  SessionLimit = 2
  MaxAttempts = 3
  MaxOpen = 1
CHECK_DEADLOCK FALSE
SYMMETRY IdentitySymmetry
INVARIANTS
  OneOrganization
  OneSubjectPerUser
  UsedOnce
  SessionLimitUpToOverlaps
  RolesComeFromEnrolment
  RolesFitPages

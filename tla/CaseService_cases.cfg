SPECIFICATION Spec
CONSTANTS
  Analysts = {alice, bob}
  CaseIds = {k1, k2}
  Threads = {t1, t2}
  CliRuns = {r1}
  Endings = {"completed", "cancelled", "failed_safely"}
  Faults = {"crash", "storage", "report"}
  MaxLinks = 1
SYMMETRY MCSymmetry
INVARIANTS
  TypeOK
  Opaque
  RoutesAgree
  CancelInTime
  
PROPERTIES
  NonInterference
  EachCaseLifecycle

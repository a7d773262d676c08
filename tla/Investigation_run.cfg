SPECIFICATION FairSpec
CONSTANTS
  Cancellers = {c1}
  MaxToolOps = 2
  MaxItems = 3
  MaxBytes = 4
  MaxModelCalls = 1
  MaxElapsed = 1
  ClockBound = 2
  MaxEvents = 2
  MaxEntities = 1
  ItemSizes = {1, 2}
  Grants <- MCGrants
  Faults = {"exception", "data", "report", "storage", "crash"}
INVARIANTS
  TypeOK
  CommittedConsistent
  TrailReplays
  OpsAccounted
  EvidenceTraceable
  LedgerMatchesRows
  ReasonIsTrue
  GapsNamed
  CancelAtNextCheckpoint
PROPERTIES
  LifecycleSpec
  LifecycleFairSpec
  EarlyCancelEndsRun

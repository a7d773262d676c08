SPECIFICATION FairSpec
CONSTANTS
  Cancellers = {c1}
  MaxToolOps = 3
  MaxItems = 3
  MaxBytes = 4
  MaxModelCalls = 1
  MaxElapsed = 1
  ClockBound = 2
  MaxEvents = 1
  MaxEntities = 0
  ItemSizes = {1}
  Grants <- MCFullGrant
  Faults = {"data"}
PROPERTY
  NeverLeftInFlight

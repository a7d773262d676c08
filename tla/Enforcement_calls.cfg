SPECIFICATION Spec
CONSTANTS
  Overrides <- MCOverrides
  Names <- MCNames
  Grants <- MCGrants
  Permissions <- MCPermissions
  Sizes = {512, 1024}
  Clock = {0, 10, 11}
  MaxSteps = 3
INVARIANTS
  TypeOK
  LimitsInForce
  AllowIsEarned
  DenialStands
  TrailAccounts
  LedgerWithinLimits

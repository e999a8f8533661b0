SPECIFICATION Spec
CONSTANTS
  Tenants = {t1}
  Requests = {r1, r2}
  Jobs = {j1}
  Deletable = {t1}
  Stoppable = {}
  NoRow = NoRow
  LockTTL = 2
  DbLatency = 0
  HoldLimit = 1
  MaxActive = 1
  MaxCrashes = 0
INVARIANT DeletedIsNeverActive

SPECIFICATION Spec
CONSTANTS
  Tenants = {t1, t2}
  Requests = {r1, r2}
  Jobs = {j1}
  Deletable = {}
  Stoppable = {t1}
  NoRow = NoRow
  LockTTL = 0
  DbLatency = 0
  HoldLimit = 0
  MaxActive = 1
  MaxCrashes = 0
SYMMETRY Symmetry
INVARIANT OvershootBounded

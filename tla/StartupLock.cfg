SPECIFICATION FairLockSpec
CONSTANTS
  Tenants = {t1}
  Requests = {r1, r2, r3}
  Deletable = {t1}
  NoRow = NoRow
  LockTTL = 3
  DbLatency = 1
  HoldLimit = 2
INVARIANTS
  TypeOK
  HolderOwnsRow
  OverlapOnlyByDisplacement
PROPERTIES
  RowTakenOnlyByOwnerOrDisplacer
  OrphanRowsGo

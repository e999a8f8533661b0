SPECIFICATION FairSpec
CONSTANTS
  Monitors = {w1, w2}
  Threshold = 3
  MaxOps = 2
  MaxFaults = 1
INVARIANTS
  TypeOK
  RecoversOnce
  UnhealthyWasTried
PROPERTIES
  MonitorsEnd
CHECK_DEADLOCK FALSE

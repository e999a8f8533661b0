SPECIFICATION Spec
CONSTANTS
  Tenants = {t1, t2}
  Runs = {k1, k2}
  MaxActive = 1
  Ghosts = 0
  IdleStop = 3
  MaxQueued = 0
  MaxRequests = 2
  MaxFaults = 1
SYMMETRY RunSymmetry
PROPERTY StoppedWasIdle

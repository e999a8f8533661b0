SPECIFICATION FairSpec
CONSTANTS
  Tenants = {t1, t2}
  Runs = {k1, k2}
  MaxActive = 2
  Ghosts = 1
  IdleStop = 0
  MaxQueued = 1
  MaxRequests = 1
  MaxFaults = 1
INVARIANTS
  TypeOK
  QueuedWasAsked
PROPERTIES
  IdleTenantsLeaveActive
  

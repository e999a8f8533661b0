SPECIFICATION Spec
CONSTANTS
  Messages = {1, 2}
  Calls = {c1, c2}
  MAX_RETRIES = 2
  MAX_ATTEMPTS = 2
  MaxFaults = 1
INVARIANTS
  TypeOK
  FailedWasTried
  DeliveredWasAnswered
  TriedInOrder
  RunsAreProcessing
PROPERTIES
  QueueSpec
  CallsAdvance
SYMMETRY CallSymmetry
CHECK_DEADLOCK FALSE

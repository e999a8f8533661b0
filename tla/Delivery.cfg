SPECIFICATION FairSpec
CONSTANTS
  Events = {e1}
  Slots = {h1, h2}
  MaxSends = 2
  DedupTTL = 1
  HandlerLimit = 1
  MaxCrashes = 1
INVARIANTS
  OneHandlerPerEvent
  AttemptsAreFailures
  DeliveredWasAnswered
  RunsAreQueued
PROPERTIES
  PathSpec
  HandlersEnd

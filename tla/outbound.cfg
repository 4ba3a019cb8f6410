SPECIFICATION FairSpec
CONSTANTS
  Requests = {"m1"}
  Kindings <- AnyKind
  Workers = {"w1", "w2"}
  MaxAttempts = 2
  Budget <- ThreeFailures
CHECK_DEADLOCK FALSE
INVARIANTS RepeatsAccounted FailedWasNotSent
PROPERTIES BlockStopsQueued QueuedIsDecided

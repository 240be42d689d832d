CONSTANT MaxTimers = 5
SPECIFICATION Spec
INVARIANTS
  WgCounts
  QuietAfterShutdown
PROPERTIES
  WaitReturns

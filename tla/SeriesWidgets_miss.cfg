SPECIFICATION Spec
CONSTANTS
  Series = {"a"}
  Values = {0, 2}
  MissGrace = 2
  MaxSeries = 1
  Heartbeat = 2
  MaxFaults = 1
INVARIANT OnlyTheAbsentPruned
CHECK_DEADLOCK FALSE

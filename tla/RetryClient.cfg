CONSTANTS
  Calls = {c1, c2}
  Hints = {0, 3, 12}
  RequestTimes = {0, 1}
  Threshold = 2
  MaxAttempts = 3
  RetryBudget = 5
  MaxRetryAfter = 8
  SecondTicks = 2
  MaxInt = 15
SPECIFICATION Spec
INVARIANTS
  TypeOK
  HalfOpenHasProbe
PROPERTIES
  BreakerMoves
  CallsReturn

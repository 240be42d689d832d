SPECIFICATION Spec
CONSTANTS
  MaxRepos = 2
  IdleInterval = 2
  RefreshGap = 6
  Window = 8
  Allowance = 12
  LastTime = 16
INVARIANT WindowWaitedOut
CHECK_DEADLOCK FALSE

SPECIFICATION Spec
CONSTANTS
  Handlers <- MCHandlers
  UrlSets <- MCUrlSets
  MaxWebhooks = 3
  MaxKinds = 1
INVARIANTS CardKept AlarmStops
PROPERTY EndComes
CHECK_DEADLOCK FALSE

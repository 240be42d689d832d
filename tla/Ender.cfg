CONSTANTS
  k1 = k1
  Keys = {k1}
  MaxGens = 3
SPECIFICATION Spec
INVARIANTS
  ArmedIsCurrent
  QuietAfterExit
PROPERTIES
  FlushedStaysEnded
  ShutdownEnds
  TwoPhase

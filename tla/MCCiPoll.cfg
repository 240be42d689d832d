SPECIFICATION Spec
CONSTANTS
  Runs = {1, 2}
  Groups <- MCGroups
  Lag = 2
  Sessions <- MCSessions
  Seeds <- MCSeeds
  Limit <- MCLimit
INVARIANTS NoSecondCard CardNotEndedEarly CardFits
PROPERTIES SupersededQuiet TotalClimbs EndComes

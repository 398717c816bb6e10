\* A run ends.
CHECK_DEADLOCK FALSE
SPECIFICATION Spec
CONSTANTS
  BatchSize = 2
  MaxSteps = 2
  NumReplicas = 2
  MaxInFlight = 1
  Samples <- MCSamples
  IdSchemes <- MCIdSchemes
  NumTokens <- MCNumTokens
  MaxPolicyLag = 1
  SampleTtl = 2
  HighWatermark = 3
  NoBudget = NoBudget
  MaxTime = 4
INVARIANTS
  ShortForAReason
  OnPolicy
  TrainedOnce
PROPERTIES
  RunEnds

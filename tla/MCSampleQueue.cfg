SPECIFICATION Spec
CONSTANTS
  s1 = s1
  s2 = s2
  s3 = s3
  s4 = s4
  Samples <- MCSamples
  NumTokens <- MCNumTokens
  TokenBudgets <- MCBudgets
  NoBudget = NoBudget
  MaxPolicyLag = 1
  SampleTtl = 1
  HighWatermark = 2
  MaxSequences = 2
  MaxTime = 1
  MaxPolicy = 2
  MaxBatches = 2
INVARIANTS
  TypeOK
  OnePlace
  UnsettledBounded
PROPERTIES
  FreshBatches
  ImplementsLedger

\* The last iteration ends.
CHECK_DEADLOCK FALSE
SPECIFICATION Spec
CONSTANTS
  g1 = g1
  g2 = g2
  p1 = p1
  p2 = p2
  worker = worker
  rank = rank
  c0 = c0
  c1 = c1
  c2 = c2
  c3 = c3
  ChecksumOf <- MCChecksumOf
  Gpus <- MCGpus
  Holders <- MCHolders
  Supported <- MCSupported
  FirstHolder <- MCFirstHolder
  RankHolder <- MCRankHolder
  RankGpus <- MCRankGpus
  ReplicaOrder <- MCReplicaOrder
  GpusOf <- MCGpusOf
  NumTokens <- MCNumTokens
  MaxInFlight = 1
  MaxPrompts = 2
  MaxIterations = 3
  MaxPolicyLag = 0
  SampleTtl = 1
  HighWatermark = 2
  MaxTime = 1
  NoRole = NoRole
  NoHolder = NoHolder
  NoCall = NoCall
  NoBudget = NoBudget
  NoVersion = NoVersion
  NoActivation = NoActivation
INVARIANTS
  FailurePathsCleanUp
  Backpressure
  ServesActive
PROPERTIES
  NoGapInHistory
  IterationEnds

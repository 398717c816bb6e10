\* A run ends, done or failed.
CHECK_DEADLOCK FALSE
SPECIFICATION Spec
CONSTANTS
  g1 = g1
  g2 = g2
  rolloutOnly = rolloutOnly
  p1 = p1
  p2 = p2
  p3 = p3
  worker = worker
  rank = rank
  Gpus <- MCGpus
  Holders <- MCHolders
  Supported <- MCSupported
  FirstHolder <- MCFirstHolder
  RankHolder <- MCRankHolder
  Replicas <- MCReplicas
  GpusOf <- MCGpusOf
  SyncRanks <- MCSyncRanks
  NoRole = NoRole
  NoHolder = NoHolder
  NoState = NoState
  MaxSteps = 1
INVARIANTS
  OneRolePerGpu

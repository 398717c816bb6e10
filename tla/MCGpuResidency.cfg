\* Every GPU may be degraded or failed: nothing is left to move.
CHECK_DEADLOCK FALSE
SPECIFICATION Spec
CONSTANTS
  g1 = g1
  g2 = g2
  rolloutOnly = rolloutOnly
  worker = worker
  rank = rank
  Gpus <- MCGpus
  Holders <- MCHolders
  Supported <- MCSupported
  FirstHolder <- MCFirstHolder
  NoRole = NoRole
  NoHolder = NoHolder
  NoCall = NoCall
  MaxEpoch = 2
INVARIANTS
  TypeOK
  Exclusive
  Settled
PROPERTIES
  TakesTurns

\* Every GPU may have failed: nothing is left to grant.
CHECK_DEADLOCK FALSE
SPECIFICATION LeaseSpec
CONSTANTS
  shared = shared
  rolloutOnly = rolloutOnly
  idle = idle
  w1 = w1
  w2 = w2
  Gpus <- MCGpus
  Holders <- MCHolders
  Supported <- MCSupported
  FirstHolder <- MCFirstHolder
  NoRole = NoRole
  NoHolder = NoHolder
  MaxEpoch = 3
INVARIANTS
  LeaseTypeOK
  EpochNamesHolder
PROPERTIES
  StaleForever

\* The process may be refused by its own manifests, and all batches be trained.
CHECK_DEADLOCK FALSE
SPECIFICATION Spec
CONSTANTS
  Ranks <- MCRanks
  Batches = {b1, b2}
  MaxVersion = 2
  MaxWindows = 3
  MaxFaults = 2
  MaxCrashes = 1
  Base = Base
  NoFile = NoFile
  Torn = Torn
  Unknown = Unknown
INVARIANTS
  CounterFollowsUpdates
  AckedIsTrained
  ActiveArtifactIntact
  StoreServesWholeWrites

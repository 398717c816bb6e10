\* The run ends after the last version, or raises before one was active.
CHECK_DEADLOCK FALSE
SPECIFICATION Spec
CONSTANTS
  g1 = g1
  g2 = g2
  w1 = w1
  w2 = w2
  GpuIds <- MCGpuIds
  HolderIds <- MCHolderIds
  PromptSizes <- MCPromptSizes
  SamplingCaps <- MCSamplingCaps
  MaxVersion = 2
  MinResponse = 3
  MeanResponse = 3
  MaxResponse = 6
  MaxSequence = 12
  NoVersion = NoVersion
  Torn = Torn
INVARIANTS
  OffGpuForTrainer
  FlagTellsTheTruth
  ResponseFits
PROPERTIES
  ServesItsVersion

SPECIFICATION Spec
CONSTANTS
  Sizes <- MCSizes
  NumGpus = 4
  LocalCpus <- MCLocalCpus
  ActorMemory <- MCActorMemory
  NodeMemory = 16
  CpusPerRank = 1
  RewardActors = 1
INVARIANTS
  ReplicasFitTheGpus
  TransportsAgree
PROPERTIES
  EndsWithoutRay

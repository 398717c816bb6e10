SPECIFICATION RegistrySpec
SYMMETRY Symmetry
CONSTANTS
  Versions = {0, 1, 2}
  Workers = {r1, r2}
  Checksums = {c1, c2}
  NoVersion = NoVersion
  NoActivation = NoActivation
INVARIANTS
  RegistryTypeOK
  CommittedByAll
PROPERTIES
  FailedForGood

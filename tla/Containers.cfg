SPECIFICATION FairSpec
CONSTANTS
  c1 = c1
  c2 = c2
  GPU = {nvidia0, nvidia1}
  Nodes = {{nvidia0}, {nvidia0, nvidia1}}
  Container = {c1, c2}
  RawConfigs <- MCRawConfigs
  TotalMem = 10
  Unit = 2
  Annotation <- MCAnnotation
  ResetInterval = 2
  MaxRequest = 3
  MaxCreations = 2
  MaxFailures = 1
INVARIANTS
  IInv
  MPSFitsTheGPU
  FirstOfEachPathIsInjected
  StaleGaugesAreFew
PROPERTIES
  GoneContainersVanish
  ContainersAreExported
CHECK_DEADLOCK FALSE

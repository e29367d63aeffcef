SPECIFICATION Spec
CONSTANTS
  g1 = g1
  g2 = g2
  p1 = p1
  p2 = p2
  GPU = {g1, g2}
  Partition = {}
  Parent <- NoParent
  Partitioned = FALSE
  GPUSharingStrategy = "mps"
  MaxSharedClientsPerGPU = 2
  MaxStreams = 2
  NoDevice = NoDevice
  InitialGPUs = {g1}
  MayStop = FALSE
  FileMayComeFirst = TRUE
  PromptHandlers = FALSE
  MaxXids = 1
  MaxKubeletRestarts = 1
  MaxCrashes = 0
  MaxRequest = 2
INVARIANTS
  IInv
  StaleViewIsCorrected
  RestartsFromNothing
  BadDevicesAreRefused

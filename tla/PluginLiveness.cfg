SPECIFICATION FairSpec
CONSTANTS
  g1 = g1
  g2 = g2
  p1 = p1
  p2 = p2
  GPU = {g1, g2}
  Partition = {}
  Parent <- NoParent
  Partitioned = FALSE
  GPUSharingStrategy = ""
  MaxSharedClientsPerGPU = 0
  MaxStreams = 4
  NoDevice = NoDevice
  InitialGPUs = {g1}
  MayStop = FALSE
  FileMayComeFirst = FALSE
  PromptHandlers = TRUE
  MaxXids = 1
  MaxKubeletRestarts = 1
  MaxCrashes = 0
  MaxRequest = 0
PROPERTIES
  ImplementsHealthRegister
  ViewConverges
  XidIsRecorded
  AddedGPUIsAdvertised

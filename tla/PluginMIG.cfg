SPECIFICATION FairSpec
CONSTANTS
  g1 = g1
  g2 = g2
  p1 = p1
  p2 = p2
  GPU = {g1, g2}
  Partition = {p1, p2}
  Parent <- MCParent
  Partitioned = TRUE
  GPUSharingStrategy = ""
  MaxSharedClientsPerGPU = 0
  MaxStreams = 3
  NoDevice = NoDevice
  InitialGPUs = {g1}
  MayStop = TRUE
  FileMayComeFirst = FALSE
  PromptHandlers = FALSE
  MaxXids = 1
  MaxKubeletRestarts = 0
  MaxCrashes = 1
  MaxRequest = 1
CHECK_DEADLOCK FALSE
PROPERTIES
  HandlersEndAfterStop

SPECIFICATION FairSpec
CONSTANTS
  Platforms = {"ubuntu", "minikube", "confidential"}
  MaxKernel = 3
  Release <- MCRelease
  MaxDriver = 2
  Rollback = FALSE
  Absent = Absent
  Torn = Torn
  MaxFailures = 3
  MaxReboots = 2
  MaxUpdates = 2
INVARIANTS
  IInv
  InstalledAsRequested
  AnnotationIsTheDriver
PROPERTIES
  PluginKeepsItsDriver
  InstallerFinishes
  PluginServes
  ConfidentialNodesSettle
CHECK_DEADLOCK FALSE

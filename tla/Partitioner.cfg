SPECIFICATION FairSpec
CONSTANTS
  NumGPUs = 2
  Size = {"3g", "2g+gfx", "4g", "7g"}
  MaxCount <- MCMaxCount
  ManagerMaxCount <- MCManagerMaxCount
  Parsable = {"3g", "4g", "7g"}
  Ampere = TRUE
  MaxConfigs = 1
  MaxFailures = 1
  MaxListFailures = 1
  MaxRuns = 2
  MaxReboots = 1
CHECK_DEADLOCK FALSE
INVARIANTS
  IInv
  AllocatablePartitionsExist
  InstancesAreUniform
PROPERTIES
  PartitionerFinishes
  PluginGetsItsPartitions

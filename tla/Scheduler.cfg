SPECIFICATION FairSpec
CONSTANTS
  n1 = n1
  n2 = n2
  a = a
  b = b
  none = none
  gate1 = gate1
  gate2 = gate2
  NumPods = 4
  Node = {n1, n2}
  NoNode = NoNode
  Gate = {gate1, gate2}
  GateOf <- MCGateOf
  NumExtractors = 2
  Name <- MCName
  Unknown = none
  Created <- MCCreated
  Need <- MCNeed
  Capacity <- MCCapacity
  taint = taint
  Taint = {taint}
  Taints <- MCTaints
  Specs <- MCSpecs
  StartsInTime = TRUE
  MaxFailures = 1
  MaxUnseen = 1
CHECK_DEADLOCK FALSE
INVARIANTS
  IInv
  NodesAreNotOverbooked
  JobsAreAllOrNothing
PROPERTIES
  PodsAreReleased

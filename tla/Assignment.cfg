SPECIFICATION FairSpec
CONSTANTS
  NumPods = 3
  NumNodes = 5
  Key <- MCKey
CHECK_DEADLOCK FALSE
INVARIANTS
  IInv
  BestIsUsable
  IdenticalPodsArePlaced
  ThreeIdenticalPodsAreClosest
PROPERTIES
  SearchEnds

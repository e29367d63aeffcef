SPECIFICATION Spec
CONSTANTS
  NumPods = 3
  NumNodes = 4
  Key <- Labelled
CHECK_DEADLOCK FALSE
INVARIANTS
  ReturnsTheBest

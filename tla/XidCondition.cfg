SPECIFICATION FairSpec
CONSTANTS
  x1 = x1
  x2 = x2
  Xid = {x1, x2}
  NoCondition = NoCondition
  NoNode = NoNode
  NoXid = NoXid
  KubeletReportsFirst = TRUE
  MaxBoots = 3
  MaxRestarts = 1
INVARIANTS
  IInv
  NoXidSurvivesReboot
PROPERTIES
  ImplementsNodeCondition
  OutdatedConditionIsRemoved

CONSTANTS
  Fds = {f1}
  MaxNodes = 3
  MaxTime = 3
  MaxSets = 1
  None = None
SPECIFICATION FairSpec
CHECK_DEADLOCK FALSE
INVARIANTS NodeInv
PROPERTY EveryNodeEnds

CONSTANTS
  t1 = t1  t2 = t2  t3 = t3
  Threads = {h1, h2, h3}
  Targets = {t1, t2, t3}
  MaxLoad <- ThreeTargets
  Group = Group
  Timeouts = {"now", "wait"}
  MaxCalls = 1
  MaxChanges = 4
  None = None
SPECIFICATION FairSpec
CHECK_DEADLOCK FALSE
INVARIANT LoadInv
PROPERTY NoSlotForgotten

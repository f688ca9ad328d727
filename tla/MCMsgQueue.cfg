SPECIFICATION FairSpec
CONSTANTS
  Threads = {t1, t2, t3}
  Msgs = {m1, m2, m3}
  MsgMax = 1
  MaxCalls = 3
  NoThread = NoThread
  NoMsg = NoMsg
INVARIANT Inv
PROPERTIES Implements CallsReturn
CHECK_DEADLOCK FALSE

SPECIFICATION PartsSpec
CONSTANTS
  Workers = {w1, w2, w3}
  Tasks = {x1, x2}
  Main = Main
  None = None
  Exit = Exit
  InitThreads = 2
  MaxOps = 3
  IncreaseFromZero = FALSE
  Threads = {t1, t2}
  Queues = {q1, q2}
  Sessions = {s1, s2, s3, s4}
  NoSession = NoSession
  NoQueue = NoQueue
  HandlerThreads = 1
  MaxSyncs = 5
  MaxFails = 1
  IoThreads = {t1, t2}
  IoApp = app
  IoSessions = {s1, s2}
  IoNone = None
INVARIANTS PoolInv QueueInv SyncInv IoInv
PROPERTIES DestroyTerminates EverySessionHandled SyncEnds IoEnds
CHECK_DEADLOCK FALSE

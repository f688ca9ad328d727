CONSTANTS
  r = r  s1 = s1  s2 = s2  s3 = s3  s4 = s4
  p1 = p1  p2 = p2  p3 = p3  p0 = p0
  a = a  b = b  c = c  x = x
  c1 = c1  c2 = c2  c3 = c3
  Conns = {c1, c2, c3}
  Sess = {1, 2}
  max_connections = 1
  Clients <- MCClients
  MaxStarts = 2
  MaxCalls = 2
  NoTask = NoTask
  MaxCancels = 2
  Series <- MCSeries
  Tasks <- MCTasks
  Parallels <- MCParallels
  Root = r
  First <- MCFirst
  Final <- MCFinal
  Parts <- MCParts
  Spare <- MCSpare
SPECIFICATION PartsSpec
CHECK_DEADLOCK FALSE
INVARIANTS GraphInv ServerInv
PROPERTIES RootEnds ServerStops

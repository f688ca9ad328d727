SPECIFICATION Spec
CONSTANTS
  None = None
  Datagrams = {d1, d2}
  Threads = {h1}
INVARIANT DatagramReplied
CHECK_DEADLOCK FALSE

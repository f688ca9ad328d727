SPECIFICATION Spec
CONSTANTS
  None = None
  c2 = c2
  s3 = s3
  Conns = {c1}
  Threads = {h1, h2}
  Sessions = {s1, s2, s3}
INVARIANT UnlocksLiveMutex

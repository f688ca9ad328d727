SPECIFICATION Spec
CONSTANTS
  Workers = {w1, w2, w3}
  Tasks = {x1, x2}
  Main = Main
  None = None
  Exit = Exit
  InitThreads = 2
  MaxOps = 2
  IncreaseFromZero = TRUE
INVARIANT FreedOnlyByDestroy
SYMMETRY Symmetry
CHECK_DEADLOCK FALSE

SPECIFICATION LiveSpec
CONSTANTS
  c1 = c1
  c2 = c2
  None = None
  Conns = {c1, c2}
  Threads = {h1, h2}
  Apps = {a1}
  MaxSess <- TwoRequests
INVARIANTS EntryInv NoUseAfterRelease NextRequestAccepted
PROPERTIES ImplementsService UnbindFinishes

SPECIFICATION Spec
CONSTANTS
  w1 = w1
  w2 = w2
  p1 = p1
  p2 = p2
  NoFile = NoFile
  Procs = {p1, p2}
  Ids = {1, 2, 3}
  Workspaces = {w1}
  Words <- MCWords
  Notes <- OneNote
  Policies <- OnlyDefault
  Stops = FALSE
  MaxClock = 1
SYMMETRY Symmetry
INVARIANTS
  NoDuplicates
CHECK_DEADLOCK FALSE

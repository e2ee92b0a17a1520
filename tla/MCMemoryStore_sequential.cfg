SPECIFICATION Spec
CONSTANTS
  w1 = w1
  w2 = w2
  p1 = p1
  p2 = p2
  NoFile = NoFile
  Procs = {p1}
  Ids = {1, 2, 3}
  Workspaces = {w1, w2}
  Words <- MCWords
  Notes <- AllNotes
  Policies <- TwoPolicies
  Stops = TRUE
  MaxClock = 1
CONSTRAINT Sparing
SYMMETRY Symmetry
INVARIANTS
  NoDuplicates
  CanonEarned
PROPERTIES
  LivesStrictly
CHECK_DEADLOCK FALSE

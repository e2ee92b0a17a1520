SPECIFICATION Spec
CONSTANTS
  w1 = w1
  w2 = w2
  p1 = p1
  p2 = p2
  NoFile = NoFile
  Procs = {p1, p2}
  Ids = {1, 2, 3}
  Workspaces = {w1}
  Words <- MCWords
  Notes <- OneNote
  Policies <- OnlyDefault
  Stops = TRUE
  MaxClock = 2
CONSTRAINT Brief
SYMMETRY Symmetry
INVARIANTS
  CopyBeforeUnlink
  CopiesAgree
  ProvenanceResolves
  AuditTruthful
  AuditComplete
PROPERTIES
  NeverLost
  Lives
CHECK_DEADLOCK FALSE

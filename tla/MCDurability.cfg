SPECIFICATION Spec
CONSTANTS
  Procs = {p1, p2}
  Ids = {m1, m2}
  NoFile = NoFile
  MaxCommands = 3
  MaxLosses = 1
SYMMETRY Symmetry
INVARIANTS
  Durable
  AuditedIsStored
  Reported
PROPERTIES
  FilesAtomic
CHECK_DEADLOCK FALSE

SPECIFICATION LockFairSpec
CONSTANTS
  NoLock = NoLock
  p1 = p1
  p2 = p2
  p3 = p3
  Pids = {p1, p2, p3}
  Faults = {"fail", "crash", "reuse"}
INVARIANT
  NoOrphan
PROPERTIES
  ImplementsMutex
  Recovers

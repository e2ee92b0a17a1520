SPECIFICATION Spec
CONSTANTS
  Digests <- MCDigests
  Plans <- MCPlans
  Faults = {"fail", "crash"}
  MaxRuns = 3
INVARIANTS
  OldOrNew
  RolledBack
  Published
  NoStray
CHECK_DEADLOCK FALSE

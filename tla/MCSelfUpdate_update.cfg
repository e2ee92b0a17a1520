SPECIFICATION Spec
CONSTANTS
  p1 = p1
  p2 = p2
  NoBundle = NoBundle
  Updaters = {p1, p2}
  MaxVersion = 3
  Broken = {2}
  Faults = {"fail", "crash"}
SYMMETRY Symmetry
INVARIANTS
  OneSwap
  WholeInstalled
  Survives
  Standing
  Tidy
  Upgrades

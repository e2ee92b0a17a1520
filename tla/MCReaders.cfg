SPECIFICATION Spec
CONSTANTS
  Procs = {p1, p2}
  Home = "home"
  Names <- MCNames
  Scopes <- MCScopes
  Notes <- MCNotes
  Scores <- MCScores
  Commands <- MCCommands
  Starts <- MCStarts
  MaxBullets <- MCMaxBullets
  MaxBytes <- MCMaxBytes
  HeaderSize = 2
  HeadingSize = 1
SYMMETRY Symmetry
INVARIANTS
  LintSuffices
  NothingMissed
  BestFit
  ContextAgrees
  CompileUndisturbed
CHECK_DEADLOCK FALSE

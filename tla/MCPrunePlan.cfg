SPECIFICATION FairSpec
CONSTANTS
  Ids <- MCIds
  Scopes <- MCScopes
  Notes <- MCNotes
  Scores <- MCScores
  Stamps <- MCStamps
  Sources <- MCSources
INVARIANTS
  KeptDistinct
  LosersJustified
  Grounded
  KeepsSurvivors
PROPERTIES
  Terminates

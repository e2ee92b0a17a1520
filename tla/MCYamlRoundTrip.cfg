SPECIFICATION Spec
CONSTANTS
  BestWidth = 6
  KeyLength = 9
  KeyReach = 12
  Docs <- MCDocs
  Texts <- MCTexts
INVARIANTS
  RoundTrip
  KeysWait
  IndentsMatch

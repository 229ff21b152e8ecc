\* Two moves forth and back from every position of MCGame.
SPECIFICATION Spec
CONSTANTS
  Starts <- MCStarts
  MaxPly = 2
INVARIANTS
  TypeOK
  MovesLegal
  FenRoundTrips
  Deduced
  ColoursAlike
PROPERTIES
  UndoRestores

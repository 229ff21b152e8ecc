\* Does a FEN survive being read and printed again?
SPECIFICATION Spec
CONSTANTS
  Starts <- FenStarts
  MaxPly = 2
INVARIANT FenExact

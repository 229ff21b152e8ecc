\* Four levels of nodes, of which five are opened, on three threads: two of them may
\* help at once, and one that helps may be kept waiting for the mutex of another's node.
CONSTANTS
  mast = mast
  w1 = w1
  w2 = w2
  Main = mast
  Workers <- TwoWorkers
  Depth = 4
  MoveCount = 3
  SplitMinDepth = 1
  SplitMaxSlaves = 3
  CutDepths = {3}
  MaxNodes = 5
SPECIFICATION Spec
SYMMETRY WorkersAlike
INVARIANTS
  TypeOK
  Untangled

\* Binary evaluations of a tree of ten positions, searched to depth 3.
CONSTANTS
  Positions <- TreePositions
  Root = 1
  Replies <- Tree
  Evals <- Binary
  MaxScore = 2
  MaxDepth = 3
  Remembered <- JustRoot
SPECIFICATION Spec
INVARIANTS
  TypeOK
  RootExact
  FailSoft

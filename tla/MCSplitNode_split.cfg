\* A null-window node (CUT or ALL) with four moves, split to two pool workers;
\* an enclosing node may stop the search at any time.
CONSTANTS
  mast = mast
  w1 = w1
  w2 = w2
  h = h
  none = none
  Master = mast
  NoOne = none
  Workers <- TwoWorkers
  Helpers <- Nobody
  MoveCount = 4
  MoveValues = {0, 1}
  Scores <- NullWindowScoresSet
  MinScore <- MinusOne
  Alpha = 0
  Beta = 1
  IsPV = FALSE
  Splittable = TRUE
  SplitMaxSlaves = 2
  InnerCutters <- SlavesOnly
  MaxInnerCuts = 0
  MaxParentStops = 1
  MaxHelps = 0
SPECIFICATION Spec
SYMMETRY WorkersAlike
INVARIANTS
  TypeOK
  ResultSound
  MoveExclusive
  RegistrySound
  StopPointEnds
  BestConsistent

\* A PV node with a pool worker and a helper, of which SPLIT_MAX_SLAVES admits one
\* at a time: every thread is scheduled, the slaves' inner nodes cut off and ask the
\* waiting master for help, an enclosing node may stop the search.
CONSTANTS
  mast = mast
  w1 = w1
  w2 = w2
  h = h
  none = none
  Master = mast
  NoOne = none
  Workers <- OneWorker
  Helpers <- OneHelper
  MoveCount = 4
  MoveValues = {0, 2}
  Scores <- FewScoresSet
  MinScore <- MinusTwo
  Alpha = 0
  Beta = 2
  IsPV = TRUE
  Splittable = TRUE
  SplitMaxSlaves = 1
  InnerCutters <- SlavesOnly
  MaxInnerCuts = 1
  MaxParentStops = 1
  MaxHelps = 1
SPECIFICATION FairSpec
INVARIANTS
  NodeOutlivesSlaves
  AssertionsHold
  HelpConsistent
PROPERTIES
  NodeEnds

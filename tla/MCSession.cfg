\* Three keys, two positions, two lines against a UCI engine.
SPECIFICATION FairSpec
CONSTANTS
  p1 = p1
  p2 = p2
  Positions <- MCPositions
  StartPos = p1
  Replies <- MCReplies
  Lines = 2
  MaxKeys = 3
  MaxUnread = 1
INVARIANTS
  TypeOK
  EngineFollows
  ToldWhenIdle
  OptionsKnown
PROPERTIES
  FreshLines
  SessionEnds

\* The keys of the analysis screen, and every list of up to three calls that bind keys.
CONSTANTS
  leave = leave
  settings = settings
  start = start
  none = none
  nop = nop
  Sides <- FourSides
  Callbacks <- Functions3
  NOP = nop
  Unbound = none
  Letters <- ThreeLetters
  Quit = leave
  Show = settings
  Scripts <- ScriptsSet
SPECIFICATION FairSpec
CHECK_DEADLOCK FALSE
INVARIANTS
  TypeOK
  LastCallWins
  ActsOnce
PROPERTY QuitEnds

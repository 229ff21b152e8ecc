\* Two threads add and probe three positions in two slots; one position has a deeper
\* and a later entry.
CONSTANTS
  t1 = t1
  t2 = t2
  h1 = h1
  h2 = h2
  h3 = h3
  x = x
  y = y
  z = z
  none = none
  NoHash = none
  Threads <- TwoThreads
  Slots = {1, 2}
  Hashes <- ThreeHashes
  SlotOf <- SlotsOfThree
  Entries <- FourEntries
SPECIFICATION Spec
INVARIANTS
  TypeOK
PROPERTIES
  Linearizable
  Deepens

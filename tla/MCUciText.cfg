\* Every command over small values, and every line of a few words of the protocol.
CONSTANTS
  MaxInt = 5
  Commands <- CommandSet
  Lines <- LineSet
SPECIFICATION Spec
CHECK_DEADLOCK FALSE
INVARIANT ReadsBack

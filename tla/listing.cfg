\* Readings of five rows, two with the same stamp, that come and leave meanwhile.
SPECIFICATION Spec
CONSTANTS
  Rows <- MCRows
  Stamp <- MCStamp
  Requested = {0, 1, 2, 3, 4}
  MaxLimit = 3
  Default = 2
INVARIANTS InductiveInv NoneMissed NoneTwice
CHECK_DEADLOCK FALSE

\* Three requests of up to two sections on a pool of two connections.
SPECIFICATION FairSpec
CONSTANTS
  Calls = {c1, c2, c3}
  MaxConns = 2
  Sections = 2
INVARIANTS ServerInv GracefulExit
PROPERTIES EveryCallEnds ShutdownEnds
CHECK_DEADLOCK FALSE

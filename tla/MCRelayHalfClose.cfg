SPECIFICATION RelaySpec
CONSTANTS
  Idle = 3
  Grace = 1
  MaxTime = 4
INVARIANT HalfCloseKeepsOther
CHECK_DEADLOCK FALSE

SPECIFICATION RelayFairSpec
CONSTANTS
  Idle = 3
  Grace = 1
  MaxTime = 14
INVARIANTS
  IdleBounded
  ClientHalfClose
PROPERTIES
  FailureEndsRelay
CHECK_DEADLOCK FALSE

SPECIFICATION Spec
CONSTANTS
  HangWindow = 2
  StableRunReset = 3
  Schedule <- MCSchedule
  FreshEvery = 2
  MaxQueue = 2
  MaxStrays = 1
  MaxPauses = 1
CHECK_DEADLOCK FALSE
INVARIANT CleanStopIsReaped

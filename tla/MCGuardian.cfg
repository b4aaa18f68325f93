SPECIFICATION FairSpec
CONSTANTS
  HangWindow = 2
  StableRunReset = 3
  Schedule <- MCSchedule
  FreshEvery = 2
  MaxQueue = 2
  MaxStrays = 1
  MaxPauses = 1
INVARIANTS ProtocolRespected NoFalseHang DispositionSound
PROPERTIES NoLiveHandover HungIsReplaced StopTerminates OrphansExit
CHECK_DEADLOCK FALSE

SPECIFICATION FairSpec
CONSTANTS
  Requests = {q1, q2}
  Maintenance = m
  Proxies = {p1, p2}
  Direct = Direct
  LocalThreshold = 2
  MaxHealth = 1
  MaxBackoff = 2
  BaseCooldown = 1
  MaxCooldown = 1
  GapThreshold = 1
  CorrelatedWindow = 1
  CorrelatedThreshold = 3
  EpochCooldown = 2
  InternalWindow = 0
  FatalThreshold = 2
  MaxDelay = 1
  MaxTime = 3
  MaxReports = 3
INVARIANTS
  SingleFlight
  QuietAfterClose
  FatalNeedsBurst
  OrderSound
PROPERTIES
  
  CloseTerminates
CHECK_DEADLOCK FALSE

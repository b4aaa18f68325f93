SPECIFICATION Spec
CONSTANTS
  P = P
  S = S
  Direct = Direct
  None = None
  Socks = {S}
  Requests = {r1, r2}
  Entries = {1, 2, 3, 4}
  Confs <- MCConfs
  MaxCached = 2
  MemoryBytes = 1
  MaxBodyBytes = 2
  MaxSpoolBytes = 3
INVARIANTS ResourcesAccounted 
PROPERTY RequestsComplete
CHECK_DEADLOCK FALSE

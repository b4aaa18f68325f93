SPECIFICATION FairSpec
CONSTANTS
  Lookups = {l1}
  Reloaders = {loop, refresh}
  Forced = {refresh}
  HasDoH = TRUE
  Slots = {1, 2, 3}
  Pinned = {}
  MaxChanges = 1
  MaxFailures = 1
  None = None
  Pending = Pending
INVARIANTS
  BootstrapLease
  NothingLeaks
CHECK_DEADLOCK FALSE
PROPERTIES
  ImplementsRouting
  
  ShutdownCompletes

SPECIFICATION FairSpec
CONSTANTS
  Conns = {c1, c2, u}
  Upgrades = {u}
  MaxSlots = 2
INVARIANTS
  DrainIsComplete
  NoSocketLeaks
  SlotsAccounted
PROPERTIES
  ShutdownDrains
CHECK_DEADLOCK FALSE

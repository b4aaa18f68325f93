SPECIFICATION FairLookupSpec
CONSTANTS
  Callers = {a, b, c}
  Hosts = {1, 2}
  MaxEntries = 1
  WithTTL = TRUE
  ResolverTTLs = {0, 9}
  MinTTL = 1
  MaxTTL = 1
  PositiveTTL = 2
  NegativeTTL = 1
  MaxTime = 1
  MaxGeneration = 1
INVARIANTS
  FreshAnswer
  CancellationNotCached
  Coalesced
PROPERTY
  EveryCallerReturns
CHECK_DEADLOCK FALSE

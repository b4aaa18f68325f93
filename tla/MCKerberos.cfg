SPECIFICATION TicketFairSpec
CONSTANTS
  CheckInterval = 2
  RetryInterval = 1
  RenewalMargin = 3
  Lifetime = 8
  MaxRefresh = 2
INVARIANT NoCacheLeft
PROPERTY TicketReturns

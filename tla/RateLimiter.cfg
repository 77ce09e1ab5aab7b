SPECIFICATION LimiterSpec
CONSTANTS
  Ips = {a, b}
  Capacity = 2
  Window = 3
  CleanupEvery = 2
  StaleAfter = 3
  NoBucket = NoBucket
  MaxTime = 7
  MaxRefused = 1
INVARIANT BurstBound
PROPERTY ImplementsIdeal
CHECK_DEADLOCK FALSE

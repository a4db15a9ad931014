SPECIFICATION FairSpec
CONSTANTS
  Clients = {k1, k2}
  Providers <- TwoProviders
  Default = 2
  Requests <- MixedRequests
  NoHint = NoHint
  None = None
  a = a
  b = b
  x = x
  y = y
  MaxAttempts = 2
  FallbackToDefault = TRUE
  BudgetCap = 1
  MaxCost = 1
  CacheCap = 1
  MetricWindow = 2
  MaxDispatches = 7
CHECK_DEADLOCK FALSE
INVARIANTS
  TypeOK
  CacheConsistent
  ExplicitRouteHonoured
  BudgetOvershootBounded
  EveryDispatchLedgered
PROPERTIES
  EveryCallReturns

SPECIFICATION Spec
CONSTANTS
  nws = nws
  faa = faa
  weather = weather
  t1 = t1
  t2 = t2
  k1 = k1
  c1 = c1
  c2 = c2
  Tenants = {t1, t2}
  Platform = platform
  Controls <- MCAdapters
  Readers <- MCReaders
  Default <- MCDefault
  Lifetimes = {1, forever}
  Forever = forever
  None = None
  MaxChanges = 2
  Collectors = {c1, c2}
  Adapters <- MCAdapters
  Types = {weather}
  TypeOf <- MCTypeOf
  TripKeys = {k1}
  Plans <- MCPlans
  Freshness <- MCFreshness
  Configured <- MCAdapters
  Retries = 1
  Threshold = 2
INVARIANTS ServedIsCurrent BreakerHolds KillSwitchHolds
PROPERTIES CollectEnds

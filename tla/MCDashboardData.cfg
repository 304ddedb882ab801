SPECIFICATION FairSpec
CONSTANTS
  Hooks = {h1}
  Keys = {k1, k2, k3}
  Oversized = {k3}
  Nothing = Nothing
  Ttl = 1
  Stale = 2
  EvictCount = 1
  MaxCalls = 1
  MaxRequest = 1
  MaxTime = 4
  MaxMoves = 3
  MaxFaults = 2
INVARIANTS TypeOK LatestLoadWins MeterNeverOvercounts
PROPERTIES KeepsHookPromise ServedAgeBound LoadsEnd
CHECK_DEADLOCK FALSE

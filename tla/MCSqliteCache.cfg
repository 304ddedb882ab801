SPECIFICATION FairSpec
CONSTANTS
  k1 = k1
  k2 = k2
  Threads = {t1, t2}
  Keys = {k1, k2}
  Values = {v1}
  NoRow = NoRow
  NoValue = NoValue
  Ttl <- MCTtl
  Swr <- MCSwr
  SweepEvery = 2
  MaxTime = 2
  MaxFailures = 1
INVARIANT TypeOK
PROPERTIES LiveRowNeverLost KeepsPromise DeadRowsReclaimed

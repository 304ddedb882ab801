SPECIFICATION PoolFairSpec
CONSTANTS
  Jobs = {j1, j2, j3, j4}
  Keys = {k1, k2, k3, k4}
  MaxInflight = 3
  Workers = 2
INVARIANTS PoolTypeOK OneRefreshPerKey BooksBalance CapRespected
PROPERTY KeysReleased

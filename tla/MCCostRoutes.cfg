SPECIFICATION Spec
CONSTANTS
  Threads = {t1, t2}
  Accounts = {a1, a2}
  Unknown = Unknown
  NoEntry = NoEntry
  RouteTtl = 2
  MatrixTtl = 1
  MaxBuild = 1
  LongAgo = 4
  MaxRepoints = 2
SYMMETRY MCSymmetry
INVARIANTS NumbersAgeBound LeftAccountFadesOut

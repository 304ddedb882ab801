SPECIFICATION Spec
CONSTANTS
  t1 = t1
  t2 = t2
  t3 = t3
  t4 = t4
  shared = shared
  own = own
  Threads = {t1, t2, t3, t4}
  Stores = {shared, own}
  StoreOf <- MCStoreOf
  Locks = {l1, l2, l3, l4, l5, l6}
  NoLock = NoLock
  Nobody = Nobody
  MaxFailures = 2
  MaxForgotten = 2
SYMMETRY MCSymmetry
INVARIANT FetchesBounded

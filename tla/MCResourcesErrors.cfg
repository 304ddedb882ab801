SPECIFICATION Spec
CONSTANTS
  Jobs = {j1, j2}
  Keys = {k1}
  MaxInflight = 1
  Workers = 1
  Requests = {r1, r2}
  Absent = Absent
  Nobody = Nobody
  MaxAgings = 2
INVARIANT ErrorsNeverCached

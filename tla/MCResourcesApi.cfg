SPECIFICATION FairSpec
CONSTANTS
  Jobs = {j1}
  Keys = {k1, k2}
  MaxInflight = 1
  Workers = 1
  Requests = {r1}
  Absent = Absent
  Nobody = Nobody
  MaxAgings = 2
INVARIANTS OneFlightPays
PROPERTIES WarmingEnds RequestsAnswered

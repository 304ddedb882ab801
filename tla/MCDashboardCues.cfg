SPECIFICATION FairSpec
CONSTANTS
  Pages <- MCPages
  Profiles = {"default", "gone"}
  Offered = {"default"}
  FirstProfile = "default"
  Periods = {"mtd", "30d"}
  OfferedPeriods = {"mtd", "30d"}
  FirstPeriod = "mtd"
  NoValue = "none"
  Bogus = "bogus"
  FirstOpens <- MCOpens
  Followed = {"context", "summary", "trend", "top", "list", "composition", "resources", "audit"}
  Nothing = Nothing
  MaxMoves = 1
  MaxFaults = 0
  MaxWarmings = 0
CHECK_DEADLOCK FALSE
PROPERTY WorkingCueEnds

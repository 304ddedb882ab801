SPECIFICATION FairSpec
CONSTANTS
  Pages <- MCPages
  Profiles = {"default", "gone"}
  Offered = {"default"}
  FirstProfile = "default"
  Periods = {"mtd", "30d"}
  OfferedPeriods = {"mtd", "30d"}
  FirstPeriod = "mtd"
  NoValue = "none"
  Bogus = "bogus"
  FirstOpens <- MCOpens
  Followed = {"context", "summary", "trend", "top", "list", "composition", "resources", "audit"}
  Nothing = Nothing
  MaxMoves = 2
  MaxFaults = 1
  MaxWarmings = 1
CHECK_DEADLOCK FALSE
INVARIANTS TypeOK UrlTellsState BackNavigatesPages FiguresUnderOwnName
PROPERTIES HooksAreAsync StateSnaps PageSettles WarmingEnds

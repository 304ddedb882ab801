SPECIFICATION FairSpec
CONSTANTS
  Accounts = {"a1", "a2"}
  Filters = {"all", "ec2", "s3"}
  All = "all"
  Total <- MCTotal
  FetchLimit = 2
  PageSize = 1
  ServerCap = 3
  Nothing = Nothing
  MaxMoves = 8
  MaxFaults = 2
CHECK_DEADLOCK FALSE
INVARIANT ListIsOfItsFilter
PROPERTIES LoadMoreBringsRows NewFilterStartsSmall FilterArrives

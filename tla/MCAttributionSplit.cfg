SPECIFICATION Spec
CONSTANTS
  Want = {"Lambda", "ECR"}
  Regions <- MCRegions
  Bills <- MCSplitBills
  Prices <- MCPrices
  Addresses = {5}
  MaxWorkers = 2
  Nobody = Nobody
INVARIANT SplitsWithinBill
CHECK_DEADLOCK FALSE

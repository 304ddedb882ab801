SPECIFICATION FairSpec
CONSTANTS
  Want = {"EC2", "EBS", "NATGateway", "EIP", "VPC", "Unlisted"}
  Regions <- MCRegions
  Bills <- MCBills
  Prices <- MCPrices
  Addresses = {5, 15}
  MaxWorkers = 2
  Nobody = Nobody
INVARIANTS TypeOK NothingVanishes NothingCountedTwice PartialKeepsPrices
PROPERTIES OneScanPerRegion EnumerationEnds
CHECK_DEADLOCK FALSE

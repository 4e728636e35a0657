SPECIFICATION Spec
CONSTANTS
  v1 = v1
  v2 = v2
  o1 = o1
  o2 = o2
  Vaults = {v1, v2}
  Owners = {o1, o2}
  Address <- MCAddress
  CallEvery = 2
  Wad = 10
  Logs <- MCLogs
  Figures <- MCFigures
  MaxLogs = 2
  MaxChain = 4
  MaxBlock = 4
INVARIANTS
  CountsDistinctDepositors
  TablesSumToTheChain
  TotalsAreTheNewestReading
CHECK_DEADLOCK FALSE

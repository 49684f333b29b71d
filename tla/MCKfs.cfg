SPECIFICATION Spec
CONSTANTS
  x = x
  y = y
  Clusters = 6
  NFats = 2
  WholeEntries = TRUE
  Radix = 4
  Per = 3
  Blocks <- MCBlocks
  Top = 2
  Paths <- MCPaths
  Requests <- MCRequests
  TempName <- MCTempName
  Handles = {0, 1}
  DataMax = 2
  MaxNames = 2
  Disk0 <- MCDisk0
  MaxGen = 2
  MaxCuts = 1
INVARIANTS TypeOK FsinfoHonest ChainsSound CleanWhenIdle RepairSuffices
PROPERTY Implements
CHECK_DEADLOCK FALSE

SPECIFICATION Spec
CONSTANTS
  x = x
  y = y
  Clusters = 6
  NFats = 2
  WholeEntries = TRUE
  Radix = 4
  Per = 3
  Blocks <- MCBlocks
  Top = 2
  Paths <- MCPaths
  Requests <- MoveRequests
  TempName <- MCTempName
  Handles = {0, 1}
  DataMax = 2
  MaxNames = 2
  Disk0 <- MCDisk0
  MaxGen = 3
  MaxCuts = 1
INVARIANT RepairAlwaysSuffices
CHECK_DEADLOCK FALSE

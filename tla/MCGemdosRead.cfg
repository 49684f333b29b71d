SPECIFICATION Spec
CONSTANTS
  d1 = d1
  d2 = d2
  d3 = d3
  d4 = d4
  Clusters = 7
  NFats = 1
  WholeEntries = TRUE
  Radix = 4
  Per = 3
  Blocks <- MCBlocks
  Top = 3
  Paths = {}
  TempName <- MCTempName
  Handles <- MCHandles
  DataMax = 2
  MaxNames = 2
  Root = 2
  Run = 2
  RunSlots = 2
  MaxRun = 4
  Files = {1}
  Opens <- MCOpens
  Seeks = {0}
  Folders <- MCFolders
  Lists <- MCLists
  Writes <- MCWrites
  Disk0 <- MCDisk0
  MaxChanges = 2
INVARIANTS LooksAfresh HandleReads SearchFinds

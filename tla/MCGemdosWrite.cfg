SPECIFICATION Spec
CONSTANTS
  Handles = {0, 1}
  Paths = {"P"}
  Byte = {0, 1}
  Blank = 0
  DataMax = 2
  MaxSize = 3
  MaxCount = 3
  MaxCalls = 6
  Store0 <- MCStore0
  Buffer0 <- MCBuffer0
INVARIANTS TypeOK BufferSound FailsForTheHost
PROPERTIES Implements FwriteReturns
CHECK_DEADLOCK FALSE

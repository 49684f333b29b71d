CONSTANTS
  Words <- MCWords
  Values <- MCValues
  Boot <- MCBoot
  Half = 6
  Narrow = {"base"}
  Ops <- MCOps
  Stores <- MCStores
SPECIFICATION FairSpec
INVARIANTS TypeOK HalvesApart NothingStale PendingKnown GoWhenIdle
PROPERTIES Implements HwBlitReturns

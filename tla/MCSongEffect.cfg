SPECIFICATION Spec
CONSTANTS
  Mods <- MCMods
  Sndhs <- MCSndhs
  Others <- MCOthers
  Batches <- MCBatches
  MaxRequests = 3
  MaxCommands = 2
  MaxBreaks = 0
INVARIANT EachWaits
CHECK_DEADLOCK FALSE

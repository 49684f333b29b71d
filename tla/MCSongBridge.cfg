SPECIFICATION Spec
CONSTANTS
  Mods <- MCMods
  Sndhs <- MCSndhs
  Others = {}
  Batches <- MCBatches
  MaxRequests = 3
  MaxCommands = 2
  MaxBreaks = 1
INVARIANTS TypeOK SlowSongNeverLast EffectsInOrder EffectAfterLoad CallAfterLoad
PROPERTY EffectsSent
CHECK_DEADLOCK FALSE

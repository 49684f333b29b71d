CONSTANTS
  Words <- MCWords
  Values <- MCValues
  Boot <- MCBoot
  Half = 6
  Narrow = {"base"}
  Ops <- MCOps
  Stores <- MCStores
SPECIFICATION Spec
PROPERTY WordsKept

SPECIFICATION Spec
CONSTANTS
  Tasks = {1, 2}
  Channels <- MCChannels
  Kind <- MCKind
  Menu = "menu"
  Visitor = {"d"}
  PowerOn = {"s", "v"}
  Keys = {"k"}
  None = None
INVARIANTS TypeOK OneSwap WindowOwned KeysKnown TagFits
PROPERTY SwapEnds

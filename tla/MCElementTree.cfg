CONSTANTS
  Widget <- MCWidget
  Shapes <- MCShapes
  Starts <- MCStarts
  Root = "app"
  GlobalKeys <- MCGlobalKeys
  NoKey = "none"
  Handlers <- MCHandlers
  MaxChanges = 2
  MaxState = 1
  MaxThemes = 1
SPECIFICATION Spec
INVARIANTS TreeInv ChangesReachTheTree HandleIsNotAStranger
PROPERTIES MovedKeepState
CHECK_DEADLOCK FALSE

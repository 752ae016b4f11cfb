SPECIFICATION GestureFairSpec
CONSTANTS
  Pointers = {p1, p2}
  Regions <- ScreenRegions
  Wants <- ScreenWants
  Paths <- Screen
  LongPress = 3
  DoubleTap = 2
  MinGap = 1
INVARIANTS GestureInv PressesAreTold
PROPERTY DeadlinesAreKept

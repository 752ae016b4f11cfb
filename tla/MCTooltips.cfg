CONSTANTS
  a = a
  b = b
  Elsewhere = Elsewhere
  Away = Away
  None = None
  Tips = {a, b}
  Mode <- MCMode
  Wait <- MCWait
  Stay <- MCStay
  Linger <- MCLinger
  MaxIdle = 3
  MaxInputs = 5
SPECIFICATION FairSpec
CHECK_DEADLOCK FALSE
INVARIANT TooltipsInv
PROPERTIES DelaysAreKept BubblesGo

\* Two views, two settings, and lists of locales of which one is unusable.
CONSTANTS
  ViewIds = {v1, v2}
  Metrics = {small, large}
  Members = {scale, brightness}
  Values = {"neutral", "chosen"}
  Default <- MCDefault
  Lists = {empty, swiss, blank}
  Nameless = {blank}
  NoLocales = empty
  Lifecycles = {"resumed", "paused"}
  Drawing = {"resumed"}
  Others = {display}
  None = None
  MaxCalls = 6
SPECIFICATION LaunchSpec
INVARIANT LaunchInv
CHECK_DEADLOCK FALSE

CONSTANTS
  a = a
  b = b
  x = x
  y = y
  ka = ka
  Enter = Enter
  paste = paste
  None = None
  Fields = {a, b}
  Keys = {x, y}
  Strings = {ka}
  Pastes = {paste}
  OnChanged = {"stay", "next"}
  OnSubmitted = {"stay", "next", "clear", "leave"}
  Budgets <- MCBudgets
SPECIFICATION Spec
CHECK_DEADLOCK FALSE
INVARIANTS TextInputInv CopiesAgree
PROPERTIES EnteredStays TypedIsShown

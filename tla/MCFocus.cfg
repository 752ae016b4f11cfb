CONSTANTS
  a = a
  b = b
  c = c
  name = name
  reason = reason
  sure = sure
  None = None
  Fields = {a, b, c}
  Asking = {c, reason}
  Pages <- MCPages
  Dialogs <- MCDialogs
  DialogFields <- MCDialogFields
  MaxMoves = 3
  MaxChanges = 1
SPECIFICATION Spec
CHECK_DEADLOCK FALSE
INVARIANTS FocusInv KeyboardIsWhereTheUserIs HighlightFollowsTheKeyboard
PROPERTIES FramesFocusRightly

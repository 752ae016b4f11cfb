\* Two workers at most, and room for two of the three images.
CONSTANTS
  a = a
  b = b
  bad = bad
  Keys = {a, b, bad}
  Unreadable = {bad}
  Bytes <- MCBytes
  MaxEntries = 2
  MaxBytes = 2
  Workers = {w1, w2}
  MaxChanges = 2
SPECIFICATION FairSpec
INVARIANT ImageInv
PROPERTIES EvictsTheRight ScreenSettles
CHECK_DEADLOCK FALSE

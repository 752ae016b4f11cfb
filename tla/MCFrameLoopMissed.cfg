CONSTANTS
  Elements = {e1}
  v1 = v1
  v2 = v2
  Views <- MCOneView
  Sizes = {small}
  Depth = 2
  MaxVersions = 2
  MaxResizes = 0
  MaxTextures = 0
SPECIFICATION FairSpec
PROPERTY QueuedIsConsumed
CHECK_DEADLOCK FALSE

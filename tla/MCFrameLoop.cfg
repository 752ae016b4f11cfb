CONSTANTS
  Elements = {e1}
  v1 = v1
  v2 = v2
  Views <- MCViews
  Sizes = {small, large}
  Depth = 2
  MaxVersions = 2
  MaxResizes = 2
  MaxTextures = 1
SPECIFICATION FairSpec
INVARIANT FrameInv
PROPERTIES FramesInOrder ScreenSettles
CHECK_DEADLOCK FALSE

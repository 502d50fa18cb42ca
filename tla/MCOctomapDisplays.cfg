SPECIFICATION DisplaysSpec
CONSTANTS
  Depth = 7
  ClampMin <- MCClampMin
  ClampMax = 1
  Messages <- MCMessages
  Settings <- MCSettings
  Updates <- MCUpdates
  MapDepths = {6, 7}
  MaxTexture = 32
  MaxMessages = 2
  MaxCommands = 2
  MaxTaken = 2
CHECK_DEADLOCK FALSE
INVARIANTS
  ShowsOneSurface
  PictureIsCurrent
PROPERTIES
  SettlesOnCurrent
  ObstaclesDrawn

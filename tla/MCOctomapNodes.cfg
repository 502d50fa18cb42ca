SPECIFICATION NodesSpec
CONSTANTS
  Depth = 2
  Hit = 1
  Miss = 1
  ClampMin <- MCClampMin
  ClampMax = 1
  MapZ = {1, 2, 3}
  PointZ = {0, 1, 2, 3}
  MinPlane = 3
  Launches <- MCLaunches
  Boxes <- MCBoxes
  Heights <- MCHeights
  ArmHeights <- MCArmHeights
INVARIANTS
  MapsShowTree
  BinaryMapCurrent
  ListenerFollows
  StaysUp
PROPERTIES
  IncrementalKeepsRest
  SavedMapReturns

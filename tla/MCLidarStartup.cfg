SPECIFICATION Spec
CONSTANTS
  h1 = h1
  h2 = h2
  h3 = h3
  Handles = {h1, h2, h3}
  NoIp = NoIp
  NumSlots = 2
  Settings = {"pcl_data_type", "blind_spot_set"}
  DataType = "pcl_data_type"
  Files <- MCFiles
  Missing = Missing
  NoOffset = NoOffset
  BuiltIn = BuiltIn
INVARIANTS
  ConfiguredWhole
  PointsPlacedAsWritten
  SentAsWritten
CHECK_DEADLOCK FALSE

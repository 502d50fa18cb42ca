SPECIFICATION MCSpec
CONSTANTS
  Channels = {"pcd", "imu"}
  NumLidars = 2
  Capacity = 2
  MaxImu = 1
INVARIANTS
  OneWakeUp
  NoLostWakeup
PROPERTIES
  EveryItemPublished
  ExitEndsOrParks

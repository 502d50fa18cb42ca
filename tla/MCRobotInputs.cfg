SPECIFICATION InputsSpec
CONSTANTS
  LinearSpeed = 1
  AngularSpeed = 1
  MaxClock = 3
  MaxKeys = 2
  Corrections <- MCCorrections
  MaxClouds = 3
  PatternFiles <- MCPatternFiles
  SampleCounts = {2, 3, 6}
  DownSamples = {0, 1, 2}
  MinRange = 1
  MaxRange = 5
  Bodies <- MCBodies
  IntMax = 15
  MaxScans = 9
  imu_que_length_ = 4
  scan_period_ = 3
  Unset <- MCUnset
  Clouds <- MCClouds
  ImuSteps = {1, 2}
  MaxTime = 7
CHECK_DEADLOCK FALSE
INVARIANTS
  HeadingErrorBounded
  GuessFollowsOdom
  PatternCovered
  EchoIsNearest
  PointsBracketed

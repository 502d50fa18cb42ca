SPECIFICATION FairSpec
CONSTANTS
  Positions = {0, 1, 2}
  TransForMapUpdate = 1
  NumTargetedCloud = 2
  InitialPose = 0
  MaxStep = 2
  MaxSubmaps = 3
INVARIANTS
  FrontendInv
  TargetNotRaced
  TargetFollowsMap
PROPERTIES
  ImplementsStream
  MapKeepsUp

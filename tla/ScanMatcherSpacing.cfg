SPECIFICATION Spec
CONSTANTS
  Positions = {0, 1, 2}
  TransForMapUpdate = 2
  NumTargetedCloud = 2
  InitialPose = 0
  MaxStep = 2
  MaxSubmaps = 3
INVARIANTS
  SubmapsSpaced

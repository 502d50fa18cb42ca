SPECIFICATION FairSpec
CONSTANTS
  Positions = {0, 1}
  MaxStep = 2
  MaxSubmaps = 5
  SearchSubmapNum = 2
  NumAdjacentConstraints = 1
  DistanceLoopClosure = 4
  SearchRange = 1
INVARIANTS
  NearSubmapsExist
  LoopsAreNew
  BackendInv
PROPERTIES
  MapIsSearched

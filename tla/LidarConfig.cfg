SPECIFICATION FairSpec
CONSTANTS
  NumHandles = 3
  NumConfigured = 1
  NumSlots = 2
  Params = {"data_type", "scan_pattern"}
  Threads = {t1, t2}
  MaxInfo = 4
INVARIANTS
  ConfigInv
  SlotsApart
PROPERTIES
  ConfiguredSamples
CHECK_DEADLOCK FALSE

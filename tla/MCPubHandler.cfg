SPECIFICATION FairSpec
CONSTANTS
  l1 = l1
  l2 = l2
  Lidars = {l1, l2}
  TicksPerMs = 3
  PacketTicks = 2
  Interval = 6
  HostTicks = 3
  Starts = {5}
  MaxClock1 = 15
  MaxClock2 = 6
  MaxClock <- MCMaxClock
  MaxTime = 6
  MaxFaults = 1
  MaxQueue = 2
INVARIANTS
  RateBounded
  FramesOnTime
PROPERTIES
  ImplementsFrames
  ThreadEnds
CHECK_DEADLOCK FALSE

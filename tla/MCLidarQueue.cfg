SPECIFICATION Spec
CONSTANTS
  f1 = f1
  f2 = f2
  f3 = f3
  Frames = {f1, f2, f3}
  NoFrame = NoFrame
  Bits = 3
  QueriedSize = 3
  Size <- MCSize
  IndexRange <- MCIndexRange
INVARIANTS
  NoTornPacket
PROPERTIES
  ImplementsFifo
CHECK_DEADLOCK TRUE

---------------------------- MODULE MCLidarQueue -----------------------------
(***************************************************************************)
(* LidarQueue with three frames, queues asked to hold three (rounded up to *)
(* four slots), and three-bit indices: they wrap round after eight          *)
(* frames, which TLC reaches with every fill of the buffer.                *)
(***************************************************************************)
EXTENDS LidarQueue, QueueSizing

CONSTANTS Bits, QueriedSize

MCSize == InitQueueSize(QueriedSize, Bits)
MCIndexRange == 2^Bits

(* The largest frequency the node accepts still fits the index range.      *)
ASSUME SizeRoundsUp ==
  \A d \in 5 .. 1000 :
    LET n == InitQueueSize(CalculatePacketQueueSize(d), 8) IN
      n \in {16, 32, 64, 128} /\ n >= CalculatePacketQueueSize(d)
==============================================================================

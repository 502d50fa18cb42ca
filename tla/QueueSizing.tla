----------------------------- MODULE QueueSizing -----------------------------
(***************************************************************************)
(* How the driver sizes a lidar's point-cloud queue (comm/comm.cpp and     *)
(* comm/ldq.h).  Bits is the width of the integer type, 32 in the code.    *)
(***************************************************************************)
EXTENDS Naturals, FiniteSetsExt

(* One frame of room for every frame published in a second, 10 at least.   *)
(* The frequency is given in tenths of a hertz.                            *)
CalculatePacketQueueSize(deci_hertz) ==
  IF deci_hertz > 100 THEN (deci_hertz \div 10) + 1 ELSE 10

PowersOf2(Bits) == {2^i : i \in 0 .. Bits - 1}

IsPowerOf2(size, Bits) == size \in PowersOf2(Bits)

(* The loop stops at the first power that is large enough, or at the last  *)
(* one the type can hold.                                                  *)
RoundupPowerOf2(size, Bits) ==
  LET enough == {p \in PowersOf2(Bits) : size <= p}
  IN  IF enough = {} THEN Max(PowersOf2(Bits)) ELSE Min(enough)

(* The number of slots InitQueue allocates.                                *)
InitQueueSize(queue_size, Bits) ==
  IF IsPowerOf2(queue_size, Bits)
  THEN queue_size ELSE RoundupPowerOf2(queue_size, Bits)
==============================================================================

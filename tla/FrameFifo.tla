------------------------------ MODULE FrameFifo ------------------------------
(***************************************************************************)
(* What one lidar's point-cloud queue promises to the two threads that     *)
(* share it: a bounded first-in first-out channel.  The pushing thread     *)
(* offers one frame at a time; an offered frame is accepted at the back of *)
(* the channel or, when the channel is full, refused.  The polling thread  *)
(* takes frames from the front.  LidarQueue, the ring buffer of            *)
(* livox_ros_driver2, is shown to implement this.                          *)
(***************************************************************************)
EXTENDS Naturals, Sequences

CONSTANTS
  Frames,     \* the point-cloud frames that can be pushed
  NoFrame,    \* no frame at all
  Capacity    \* the most frames the channel holds

VARIABLES
  fifo,       \* the frames accepted and not yet taken, oldest first
  offered,    \* the frame the pushing thread is trying to push, or NoFrame
  taken       \* the frame the polling thread took last, or NoFrame

vars == <<fifo, offered, taken>>

Init ==
  /\ fifo = << >>
  /\ offered = NoFrame
  /\ taken = NoFrame

Offer(f) ==
  /\ offered = NoFrame
  /\ offered' = f
  /\ UNCHANGED <<fifo, taken>>

Accept ==
  /\ offered # NoFrame
  /\ Len(fifo) < Capacity
  /\ fifo' = Append(fifo, offered)
  /\ offered' = NoFrame
  /\ UNCHANGED taken

(* A refused frame is the newest one: nothing already accepted is lost.    *)
Refuse ==
  /\ offered # NoFrame
  /\ Len(fifo) = Capacity
  /\ offered' = NoFrame
  /\ UNCHANGED <<fifo, taken>>

Take ==
  /\ fifo # << >>
  /\ taken' = Head(fifo)
  /\ fifo' = Tail(fifo)
  /\ UNCHANGED offered

Next ==
  \/ \E f \in Frames : Offer(f)
  \/ Accept
  \/ Refuse
  \/ Take

Spec == Init /\ [][Next]_vars
==============================================================================

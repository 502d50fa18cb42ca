----------------------------- MODULE PointFrames -----------------------------
(***************************************************************************)
(* What the driver's packet handler promises to the point-cloud queues     *)
(* behind it: the packets a lidar sent leave in frames, each packet in one *)
(* frame and in the order they were received, however the packets of       *)
(* several lidars mix on the way.  A lidar's packets are numbered from 1.  *)
(***************************************************************************)
EXTENDS Naturals, Sequences

CONSTANT Lidars

VARIABLES
  received,    \* how many packets of points were received from a lidar
  framed,      \* how many of them were put in frames
  frame        \* the frame being handed over: the numbers of its packets,
               \* for each lidar

frames_vars == <<received, framed, frame>>

Nothing == [l \in Lidars |-> << >>]

Init ==
  /\ received = [l \in Lidars |-> 0]
  /\ framed = [l \in Lidars |-> 0]
  /\ frame = Nothing

Accept(l) ==
  /\ received' = [received EXCEPT ![l] = @ + 1]
  /\ UNCHANGED <<framed, frame>>

(* A frame takes the packets of each lidar up to some number.              *)
Cut ==
  /\ frame = Nothing
  /\ framed' \in [Lidars -> Nat]
  /\ \A l \in Lidars : framed'[l] \in framed[l] .. received[l]
  /\ frame' = [l \in Lidars |->
                 [i \in 1 .. framed'[l] - framed[l] |-> framed[l] + i]]
  /\ UNCHANGED received

HandOver ==
  /\ frame' = Nothing
  /\ UNCHANGED <<received, framed>>

Next ==
  \/ \E l \in Lidars : Accept(l)
  \/ Cut
  \/ HandOver

Spec == Init /\ [][Next]_frames_vars
==============================================================================

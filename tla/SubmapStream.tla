----------------------------- MODULE SubmapStream ----------------------------
(***************************************************************************)
(* What the SLAM frontend promises its backend: a map array that only      *)
(* grows, at its end and by one submap at a time, each submap published    *)
(* before the next one is made.  Along the array the travelled distance    *)
(* never decreases, and no two neighbours are further apart than MaxStep.  *)
(***************************************************************************)
EXTENDS Integers, Sequences

CONSTANTS
  Positions,    \* where a submap can be
  MaxStep,      \* the longest way between two map updates
  MaxSubmaps    \* bound: the length the map array grows to

VARIABLES
  submaps,      \* the submaps of map_array_msg_, oldest first
  published     \* how many of them the last published map array holds

stream_vars == <<submaps, published>>

Submap == [position : Positions, distance : Nat]

Init ==
  /\ submaps = << >>
  /\ published = 0

(* The first submap is shown as a map only: no map array is published.     *)
First(p) ==
  /\ submaps = << >>
  /\ submaps' = <<[position |-> p, distance |-> 0]>>
  /\ UNCHANGED published

Grow(p, step) ==
  /\ Len(submaps) \in 1 .. MaxSubmaps - 1
  /\ Len(submaps) > 1 => published = Len(submaps)
  /\ submaps' = Append(submaps,
       [position |-> p, distance |-> submaps[Len(submaps)].distance + step])
  /\ UNCHANGED published

Publish ==
  /\ published < Len(submaps)
  /\ Len(submaps) > 1
  /\ published' = Len(submaps)
  /\ UNCHANGED submaps

Extend ==
  \/ \E p \in Positions : First(p)
  \/ \E p \in Positions, step \in 0 .. MaxStep : Grow(p, step)

Next == Extend \/ Publish

Spec == Init /\ [][Next]_stream_vars
==============================================================================

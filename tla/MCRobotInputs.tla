---------------------------- MODULE MCRobotInputs -----------------------------
(***************************************************************************)
(* A pattern of five directions among bad lines, one without directions    *)
(* and a missing file; three bodies that hide one another; a ring of four  *)
(* IMU slots, unwritten ones holding a late time, and clouds whose points  *)
(* go back in time and overlap; a registration that turns every guess back *)
(* by one.                                                                 *)
(***************************************************************************)
EXTENDS RobotInputs

Good(n) == [i \in 1 .. n |-> "three numbers"]
MCPatternFiles ==
  { NoPattern, <<"empty">>, Good(3) \o <<"no number", "two numbers">> \o Good(2) \o <<"empty">> }
MCBodies ==
  { [retro |-> 1, depth |-> [d \in {0, 1, 2} |-> 4 - d]],
    [retro |-> 2, depth |-> [d \in {1, 2, 3} |-> d]],
    [retro |-> 3, depth |-> [d \in {2, 3, 4} |-> 4]] }
MCClouds == { <<0, 1>>, <<0, 2, 1>>, <<0, -1, 3>> }
MCUnset == {5}
MCCorrections == {-1}
==============================================================================

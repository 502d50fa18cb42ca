---------------------------- MODULE OdomPrediction ----------------------------
(***************************************************************************)
(* The scan matcher's use of the car's odometry (use_odom): the guess the  *)
(* registration of a cloud starts from is the last pose, moved as the      *)
(* odometry moved since the cloud before.  Poses are headings, so that the *)
(* identity is 0.  A transform that is missing counts as the identity, and *)
(* a previous transform that is the identity counts as none.               *)
(***************************************************************************)
EXTENDS SlamCar

CONSTANTS
  Corrections,      \* what the registration changes of its guess
  MaxClouds         \* bound: clouds

ASSUME CorrectionsAssumption == Corrections \subseteq Int

VARIABLES
  corrent_pose,         \* the last pose: the heading the scan matcher found
  previous_odom_mat_,
  sim_trans,            \* the guess for the last cloud
  clouds,               \* how many there were
  expected,             \* history: the last pose, moved by the true odometry
  known                 \* history: for the last two clouds, whether the
                        \*   transform was there, and what it was

prediction_vars == <<corrent_pose, previous_odom_mat_, sim_trans, clouds, expected, known>>

Missing == [there |-> FALSE, odom |-> 0]

PredictionInit ==
  /\ corrent_pose = 0
  /\ previous_odom_mat_ = 0
  /\ sim_trans = 0
  /\ clouds = 0
  /\ expected = 0
  /\ known = <<Missing, Missing>>

(* Mutant: the motion is taken backwards.                                  *)
GuessBackwards(odom_mat) ==
  IF previous_odom_mat_ # 0 THEN corrent_pose + previous_odom_mat_ - odom_mat
                            ELSE corrent_pose

Guess(odom_mat) ==
  IF previous_odom_mat_ # 0 THEN corrent_pose - previous_odom_mat_ + odom_mat
                            ELSE corrent_pose

(* receiveCloud, with use_odom.                                            *)
ReceiveCloud(there) ==
  LET odom_mat == IF there THEN odom.theta ELSE 0 IN
  /\ clouds < MaxClouds
  /\ clouds' = clouds + 1
  /\ sim_trans' = Guess(odom_mat)
  /\ previous_odom_mat_' = odom_mat
  /\ \E c \in Corrections : corrent_pose' = sim_trans' + c
  /\ expected' = corrent_pose + odom.theta - known[2].odom
  /\ known' = <<known[2], [there |-> there, odom |-> odom.theta]>>
  /\ UNCHANGED car_vars

PredictionNext ==
  \/ CarNext /\ UNCHANGED prediction_vars
  \/ \E there \in BOOLEAN : ReceiveCloud(there)
==============================================================================

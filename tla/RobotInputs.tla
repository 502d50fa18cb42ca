----------------------------- MODULE RobotInputs ------------------------------
(***************************************************************************)
(* What the scan matcher is given: the odometry of the car, the scans of   *)
(* the simulated lidar, and the IMU samples its clouds are corrected with. *)
(* The three do not touch each other, and are looked at one at a time.     *)
(***************************************************************************)
EXTENDS OdomPrediction, LivoxPointsPlugin, LidarUndistortion

VARIABLE input      \* "odom", "lidar" or "imu"

rvars == <<car_vars, prediction_vars, lidar_vars, imu_vars, input>>

InputsInit ==
  /\ CarInit /\ PredictionInit /\ LidarInit /\ ImuInit
  /\ input \in {"odom", "lidar", "imu"}

InputsNext ==
  \/ input = "odom" /\ PredictionNext /\ UNCHANGED <<lidar_vars, imu_vars, input>>
  \/ input = "lidar" /\ LidarNext /\ UNCHANGED <<car_vars, prediction_vars, imu_vars, input>>
  \/ input = "imu" /\ ImuNext /\ UNCHANGED <<car_vars, prediction_vars, lidar_vars, input>>

InputsSpec == InputsInit /\ [][InputsNext]_rvars
------------------------------------------------------------------------------
(* The odometry is integrated from the last command at the times the joint *)
(* states arrive: brought up to now, its heading is wrong by no more than  *)
(* what the commands changed between two joint states, times how long      *)
(* before them the joint states were; without such changes it is right.    *)
HeadingErrorBounded ==
  Magnitude(pose.theta + velocity.z * (clock - last_update_time_) - heading) <= slack

(* The guess follows the odometry when its transform was there for this    *)
(* cloud and the one before, and was not the identity then; a transform    *)
(* that was missing earlier is forgotten.                                  *)
GuessFollowsOdom ==
  known[1].there /\ known[1].odom # 0 /\ known[2].there => sim_trans = expected

(* The scans go on in the pattern where the last one ended, and come by    *)
(* every direction of it in as many scans as it takes, until the index no  *)
(* longer fits an int: nothing before that is out of the pattern.          *)
PatternCovered ==
  /\ (plugin = "loaded" /\ downSample = 1 /\ scans * samplesStep >= aviaInfos) =>
       seen = 0 .. aviaInfos - 1
  /\ (plugin = "stray" /\ aviaInfos > 0) =>
       currStartIndex + samplesStep + downSample > IntMax

(* In whatever order the bodies of the world are collided with the rays:   *)
(* the point of a direction is the nearest body there, with what that body *)
(* reflects, and at range 0 exactly if no body is in range.                *)
EchoIsNearest ==
  \A i \in DOMAIN points :
    LET d == points[i].direction
        hit == {b \in Bodies : d \in DOMAIN b.depth /\ b.depth[d] < MaxRange - MinRange}
        echo == {b \in hit : \A c \in hit : b.depth[d] <= c.depth[d]}
    IN IF hit = {} THEN points[i].range = 0
       ELSE \E b \in echo :
              /\ points[i].intensity = b.retro
              /\ points[i].range = IF b.depth[d] = 0 THEN 0 ELSE MinRange + b.depth[d]

(* A point is interpolated between two successive samples, one before and  *)
(* one after it, or takes the newest sample when it is later than all of   *)
(* them.  Only the slot a search starts from may be extrapolated back from *)
(* to a time before the sample in front of it: when the point is earlier   *)
(* than one looked up before it, or when the ring has lapped the search,   *)
(* until the search moves on.  The first sample has none before it.        *)
PointsBracketed ==
  \A i \in DOMAIN lookups :
    LET u == lookups[i] IN
    /\ (u.kind = "interpolated" /\ sample[u.front] # 1) =>
         \/ /\ sample[u.front] = sample[Prev1(u.front)] + 1
            /\ imu_time_[Prev1(u.front)] <= u.time
            /\ u.time <= imu_time_[u.front]
         \/ u.front = u.from /\ (u.late \/ u.lapped)
    /\ (u.kind = "taken") => u.front = imu_ptr_last_
==============================================================================

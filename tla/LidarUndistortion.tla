-------------------------- MODULE LidarUndistortion ---------------------------
(***************************************************************************)
(* How the scan matcher corrects the points of a cloud for the motion of   *)
(* the lidar: a ring keeps the last IMU samples, and for the time of each  *)
(* point the samples around it are looked up.  The corrected coordinates   *)
(* are left out, and a sample is the number it arrived with; the ring      *)
(* keeps the pointers of the code.                                         *)
(***************************************************************************)
EXTENDS Integers, Sequences

CONSTANTS
  imu_que_length_,  \* 200
  scan_period_,
  Unset,            \* what may stand in a slot of imu_time_ nobody has written
  Clouds,           \* the times of a cloud's points, relative to the scan
  ImuSteps,         \* the times from one IMU sample to the next
  MaxTime           \* bound: the time of the last IMU sample

ASSUME RingAssumption ==
  imu_que_length_ \in Nat \ {0, 1} /\ scan_period_ \in Nat

VARIABLES
  imu_ptr_front_, imu_ptr_last_, imu_ptr_last_iter_,
  imu_time_,        \* the times in the ring
  sample,           \* the number of the sample in a slot, 0 when never written
  arrived,          \* how many samples arrived
  lookups,          \* history: the points of the cloud just corrected
  reached,          \* history: the latest time of a point looked up so far
  iter_sample,      \* history: the sample in slot imu_ptr_last_iter_ then
  lapped            \* history: the ring had dropped it before it was searched
                    \*   from, and the search has not moved on since

imu_vars == <<imu_ptr_front_, imu_ptr_last_, imu_ptr_last_iter_, imu_time_,
              sample, arrived, lookups, reached, iter_sample, lapped>>

Ring == 0 .. imu_que_length_ - 1
Next1(i) == (i + 1) % imu_que_length_
Prev1(i) == (i - 1 + imu_que_length_) % imu_que_length_

ImuInit ==
  /\ imu_ptr_front_ = 0 /\ imu_ptr_last_ = -1 /\ imu_ptr_last_iter_ = 0
  /\ imu_time_ \in [Ring -> Unset]
  /\ sample = [i \in Ring |-> 0]
  /\ arrived = 0
  /\ lookups = <<>>
  /\ reached = 0
  /\ iter_sample = 0
  /\ lapped = FALSE

Newest == IF arrived = 0 THEN 0 ELSE imu_time_[imu_ptr_last_]

(* getImu *)
GetImu(dt) ==
  /\ Newest + dt <= MaxTime
  /\ imu_ptr_last_' = Next1(imu_ptr_last_)
  /\ imu_ptr_front_' = IF Next1(imu_ptr_last_') = imu_ptr_front_ THEN Next1(imu_ptr_front_)
                                                                 ELSE imu_ptr_front_
  /\ imu_time_' = [imu_time_ EXCEPT ![imu_ptr_last_'] = Newest + dt]
  /\ sample' = [sample EXCEPT ![imu_ptr_last_'] = arrived + 1]
  /\ arrived' = arrived + 1
  /\ lookups' = <<>>
  /\ UNCHANGED <<imu_ptr_last_iter_, reached, iter_sample, lapped>>

(* The slot from which on, in the order of the ring, the first sample is   *)
(* later than t, or the newest slot.                                       *)
SearchFrom(slot, t) ==
  LET at[n \in 0 .. imu_que_length_] ==
        IF n = 0 THEN slot
        ELSE LET i == at[n - 1] IN
             IF i = imu_ptr_last_ \/ t < imu_time_[i] THEN i ELSE Next1(i)
  IN at[imu_que_length_]

Gap(a, b) == IF a < b THEN b - a ELSE a - b

(* adjustDistortion, for a point at time t when the search starts at slot: *)
(* a point too far from the sample found is left as it is, one later than  *)
(* it takes it, and one before it is interpolated.                         *)
Found(t, slot, front, look) ==
  [time |-> t, from |-> slot, front |-> front,
   kind |-> IF Gap(t, imu_time_[front]) > scan_period_ THEN "left"
            ELSE IF t > imu_time_[front] THEN "taken" ELSE "interpolated",
   late |-> t < look.reached, lapped |-> look.lapped]

(* Mutant: every point is searched from the slot of the newest sample.     *)
LookupFromNewest(t, look) ==
  Found(t, look.slot, SearchFrom(imu_ptr_last_, t), look)

Lookup(t, look) == Found(t, look.slot, SearchFrom(look.slot, t), look)

Lapping == lapped \/ arrived - iter_sample >= imu_que_length_ - 1

(* The points in turn, in whatever order their azimuths put their times: a *)
(* point that is left does not move last_iter, and no search goes back.    *)
Looked(times) ==
  LET look[i \in 0 .. Len(times)] ==
        IF i = 0 THEN [slot |-> imu_ptr_last_iter_, reached |-> reached,
                       lapped |-> Lapping, done |-> <<>>]
        ELSE LET u == Lookup(times[i], look[i - 1]) IN
             [slot |-> IF u.kind = "left" THEN u.from ELSE u.front,
              reached |-> IF u.late THEN look[i - 1].reached ELSE u.time,
              lapped |-> u.lapped /\ (u.kind = "left" \/ u.front = u.from),
              done |-> Append(look[i - 1].done, u)]
  IN look[Len(times)]

(* Without samples, or when the newest one is in slot 0, the points stay   *)
(* as they are.                                                            *)
AdjustDistortion(scan_time, cloud) ==
  LET looked == Looked([i \in 1 .. Len(cloud) |-> scan_time + cloud[i]])
  IN /\ IF imu_ptr_last_ > 0
          THEN /\ imu_ptr_last_iter_' = looked.slot
               /\ imu_ptr_front_' = looked.done[Len(cloud)].front
               /\ lookups' = looked.done
               /\ reached' = looked.reached
               /\ lapped' = looked.lapped
          ELSE /\ imu_ptr_last_iter_' = imu_ptr_front_
               /\ lookups' = <<>>
               /\ lapped' = Lapping
               /\ UNCHANGED <<imu_ptr_front_, reached>>
     /\ iter_sample' = sample[imu_ptr_last_iter_']
     /\ UNCHANGED <<imu_ptr_last_, imu_time_, sample, arrived>>

(* Neither the clouds nor the points of one come in the order of time.     *)
ImuNext ==
  \/ \E dt \in ImuSteps : GetImu(dt)
  \/ \E t \in 0 .. MaxTime, c \in Clouds : AdjustDistortion(t, c)
==============================================================================

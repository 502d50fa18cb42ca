------------------------------ MODULE ScanMatcher ----------------------------
(***************************************************************************)
(* The SLAM frontend (lidarslam_ros2, scanmatcher_component.cpp).  The     *)
(* node's callbacks are mutually exclusive; the map is updated by a thread *)
(* of its own, started by the callback of a cloud and collected by the     *)
(* callback of a later one.  No lock is taken: the callbacks and the       *)
(* mapping thread share trans_, targeted_cloud_ and is_map_updated_, so    *)
(* their accesses are separate steps.                                      *)
(*                                                                         *)
(* The robot moves on a line.  Registration is external: it may find any   *)
(* position.  A cloud is represented by the number of the submap it became.*)
(***************************************************************************)
EXTENDS Integers, Sequences

CONSTANTS
  Positions,
  TransForMapUpdate,   \* trans_for_mapupdate_
  NumTargetedCloud,    \* num_targeted_cloud_
  InitialPose,         \* the initial_pose parameters
  MaxStep,             \* no two positions are further apart
  MaxSubmaps           \* bound: submaps after which no mapping starts

Distance(p, q) == IF p > q THEN p - q ELSE q - p

ASSUME FrontendAssumption ==
  /\ Positions \subseteq Int
  /\ InitialPose \in Positions
  /\ TransForMapUpdate \in Nat \ {0}
  /\ NumTargetedCloud \in Nat \ {0}
  /\ MaxStep \in Nat
  /\ \A p, q \in Positions : Distance(p, q) <= MaxStep
  /\ MaxSubmaps \in Nat

VARIABLES
  initial_pose_received, initial_cloud_received,
  pose,                \* corrent_pose_stamped_
  previous_position, trans, latest_distance,
  submaps, published,  \* map_array_msg_, and how much of it was published
  mapping_flag, is_map_updated,
  targeted_cloud,      \* the submaps in targeted_cloud_
  target,              \* the submaps the registration aligns clouds to
  cloud_pc,            \* where the cloud's callback is
  mapping_pc,          \* where the mapping thread is; "none": not joinable
  mapping_pose         \* the pose updateMap was called with

pose_vars == <<initial_pose_received, pose, previous_position>>
map_vars == <<submaps, published, latest_distance, targeted_cloud>>
mapping_vars == <<mapping_pc, mapping_pose>>
vars == <<pose_vars, initial_cloud_received, trans, map_vars, mapping_flag,
          is_map_updated, target, cloud_pc, mapping_vars>>

(* The constructor leaves previous_position_ uninitialised, also when the  *)
(* parameters give the initial pose and no message will.                   *)
Init ==
  /\ initial_pose_received \in BOOLEAN
  /\ pose = InitialPose
  /\ previous_position \in Positions
  /\ initial_cloud_received = FALSE
  /\ trans = 0
  /\ latest_distance = 0
  /\ submaps = << >>
  /\ published = 0
  /\ mapping_flag = FALSE
  /\ is_map_updated = FALSE
  /\ targeted_cloud = {}
  /\ target = {}
  /\ cloud_pc = "idle"
  /\ mapping_pc = "none"
  /\ mapping_pose = InitialPose

(* The submaps a map of n submaps offers for registration.                 *)
Targeted(n) == {k \in 1 .. n : k > n - NumTargetedCloud}

-----------------------------------------------------------------------------
(* The callbacks.                                                          *)

InitialPoseCallback(p) ==
  /\ cloud_pc = "idle"
  /\ pose' = p
  /\ previous_position' = p
  /\ initial_pose_received' = TRUE
  /\ UNCHANGED <<initial_cloud_received, trans, map_vars, mapping_flag,
                 is_map_updated, target, cloud_pc, mapping_vars>>

(* A cloud whose transform is not known is dropped and changes nothing.    *)
CloudCallback ==
  /\ cloud_pc = "idle"
  /\ initial_pose_received
  /\ cloud_pc' = "check"
  /\ \/ /\ initial_cloud_received
        /\ UNCHANGED <<initial_cloud_received, submaps, target>>
     \/ /\ ~initial_cloud_received
        /\ initial_cloud_received' = TRUE
        /\ submaps' = Append(submaps, [position |-> pose, distance |-> 0])
        /\ target' = {1}
  /\ UNCHANGED <<pose_vars, trans, published, latest_distance, targeted_cloud,
                 mapping_flag, is_map_updated, mapping_vars>>

(* Mutant: the future is not asked whether it is ready.                    *)
CheckFlagOnly ==
  /\ cloud_pc = "check"
  /\ cloud_pc' = IF mapping_flag THEN "load" ELSE "align"
  /\ UNCHANGED <<pose_vars, initial_cloud_received, trans, map_vars, mapping_flag,
                 is_map_updated, target, mapping_vars>>

(* receiveCloud: is there a mapping thread whose future is ready?          *)
CheckFuture ==
  /\ cloud_pc = "check"
  /\ cloud_pc' = IF mapping_flag /\ mapping_pc = "ready" THEN "load" ELSE "align"
  /\ UNCHANGED <<pose_vars, initial_cloud_received, trans, map_vars, mapping_flag,
                 is_map_updated, target, mapping_vars>>

(* Mutant: the flag is not cleared.                                        *)
LoadTargetOnly ==
  /\ cloud_pc = "load"
  /\ target' = IF is_map_updated THEN targeted_cloud ELSE target
  /\ is_map_updated' = FALSE
  /\ mapping_pc' = "none"
  /\ cloud_pc' = "align"
  /\ UNCHANGED <<pose_vars, initial_cloud_received, trans, map_vars, mapping_flag,
                 mapping_pose>>

LoadTarget ==
  /\ cloud_pc = "load"
  /\ target' = IF is_map_updated THEN targeted_cloud ELSE target
  /\ is_map_updated' = FALSE
  /\ mapping_flag' = FALSE
  /\ mapping_pc' = "none"
  /\ cloud_pc' = "align"
  /\ UNCHANGED <<pose_vars, initial_cloud_received, trans, map_vars, mapping_pose>>

(* The alignment, and publishMapAndPose up to its assignment of trans_.    *)
Align(p) ==
  /\ cloud_pc = "align"
  /\ pose' = p
  /\ trans' = Distance(p, previous_position)
  /\ cloud_pc' = "decide"
  /\ UNCHANGED <<initial_pose_received, previous_position, initial_cloud_received,
                 map_vars, mapping_flag, is_map_updated, target, mapping_vars>>

(* Mutant: a mapping is started while another one is under way.            *)
MapIsDueAnyway == trans >= TransForMapUpdate
MapIsDue == trans >= TransForMapUpdate /\ ~mapping_flag

StartMapping ==
  /\ cloud_pc = "decide"
  /\ MapIsDue
  /\ Len(submaps) < MaxSubmaps
  /\ previous_position' = pose
  /\ mapping_pose' = pose
  /\ mapping_pc' = "clear"
  /\ mapping_flag' = TRUE
  /\ cloud_pc' = "idle"
  /\ UNCHANGED <<initial_pose_received, pose, initial_cloud_received, trans,
                 map_vars, is_map_updated, target>>

KeepMap ==
  /\ cloud_pc = "decide"
  /\ MapIsDue => Len(submaps) = MaxSubmaps
  /\ cloud_pc' = "idle"
  /\ UNCHANGED <<pose_vars, initial_cloud_received, trans, map_vars, mapping_flag,
                 is_map_updated, target, mapping_vars>>

-----------------------------------------------------------------------------
(* The mapping thread: updateMap.                                          *)

Mapping(from, to) ==
  /\ mapping_pc = from
  /\ mapping_pc' = to
  /\ UNCHANGED <<pose_vars, initial_cloud_received, trans, mapping_flag, target,
                 cloud_pc, mapping_pose>>

ClearTargetedCloud ==
  /\ Mapping("clear", "gather")
  /\ targeted_cloud' = {}
  /\ UNCHANGED <<submaps, published, latest_distance, is_map_updated>>

(* The new cloud and the last NumTargetedCloud - 1 submaps.                *)
GatherTargetedCloud ==
  /\ Mapping("gather", "measure")
  /\ targeted_cloud' = Targeted(Len(submaps) + 1)
  /\ UNCHANGED <<submaps, published, latest_distance, is_map_updated>>

(* Mutant: the way since the last update instead of the whole way.         *)
SetDistance ==
  /\ Mapping("measure", "store")
  /\ latest_distance' = trans
  /\ UNCHANGED <<submaps, published, targeted_cloud, is_map_updated>>

(* trans_ may be that of a later cloud by now.                             *)
AddDistance ==
  /\ Mapping("measure", "store")
  /\ latest_distance' = latest_distance + trans
  /\ UNCHANGED <<submaps, published, targeted_cloud, is_map_updated>>

StoreSubmap ==
  /\ Mapping("store", "publish")
  /\ submaps' = Append(submaps,
       [position |-> mapping_pose, distance |-> latest_distance])
  /\ UNCHANGED <<published, latest_distance, targeted_cloud, is_map_updated>>

PublishMapArray ==
  /\ Mapping("publish", "finish")
  /\ published' = Len(submaps)
  /\ UNCHANGED <<submaps, latest_distance, targeted_cloud, is_map_updated>>

(* Mutant: is_map_updated_ is not set.                                     *)
FinishQuietly ==
  /\ Mapping("finish", "ready")
  /\ UNCHANGED <<map_vars, is_map_updated>>

(* is_map_updated_ is set, the whole map may be published for display, and *)
(* the packaged task makes its future ready.                               *)
FinishMapping ==
  /\ Mapping("finish", "ready")
  /\ is_map_updated' = TRUE
  /\ UNCHANGED map_vars

-----------------------------------------------------------------------------
Callback ==
  \/ CheckFuture \/ LoadTarget
  \/ \E p \in Positions : Align(p)
  \/ StartMapping \/ KeepMap

UpdateMap ==
  \/ ClearTargetedCloud \/ GatherTargetedCloud \/ AddDistance
  \/ StoreSubmap \/ PublishMapArray \/ FinishMapping

Next ==
  \/ \E p \in Positions : InitialPoseCallback(p)
  \/ CloudCallback
  \/ Callback
  \/ UpdateMap

Spec == Init /\ [][Next]_vars

(* A callback and a thread that were started run on; clouds need not come. *)
FairSpec == Spec /\ WF_vars(Callback) /\ WF_vars(UpdateMap)

-----------------------------------------------------------------------------
(* Correctness.                                                            *)

TypeOK ==
  /\ initial_pose_received \in BOOLEAN
  /\ initial_cloud_received \in BOOLEAN
  /\ pose \in Positions
  /\ previous_position \in Positions
  /\ trans \in 0 .. MaxStep
  /\ latest_distance \in Nat
  /\ submaps \in Seq([position : Positions, distance : Nat])
  /\ published \in Nat
  /\ mapping_flag \in BOOLEAN
  /\ is_map_updated \in BOOLEAN
  /\ targeted_cloud \subseteq 1 .. Len(submaps) + 1
  /\ target \subseteq 1 .. Len(submaps)
  /\ cloud_pc \in {"idle", "check", "load", "align", "decide"}
  /\ mapping_pc \in {"none", "clear", "gather", "measure", "store", "publish",
                     "finish", "ready"}
  /\ mapping_pose \in Positions

(* The registration's target is built from targeted_cloud_ only while the  *)
(* mapping thread has finished with it, although no lock protects it.      *)
TargetNotRaced == cloud_pc = "load" => mapping_pc = "ready"

(* Whenever no mapping is under way, clouds are aligned to the newest      *)
(* submaps: the last one made and those before it, NumTargetedCloud in all.*)
TargetFollowsMap ==
  initial_cloud_received /\ ~mapping_flag => target = Targeted(Len(submaps))

(* The inductive strengthening.                                            *)
FlagMeansThread == mapping_flag <=> mapping_pc # "none"

UpdatedMeansReady == is_map_updated <=> mapping_pc = "ready"

HasFirstSubmap ==
  /\ initial_cloud_received <=> submaps # << >>
  /\ cloud_pc # "idle" \/ mapping_flag => initial_cloud_received

Stored == mapping_pc \in {"publish", "finish", "ready"}

TargetIsOfMap ==
  initial_cloud_received =>
    target = Targeted(IF Stored THEN Len(submaps) - 1 ELSE Len(submaps))

TargetedCloudIsOfMap ==
  /\ mapping_pc \in {"measure", "store"} => targeted_cloud = Targeted(Len(submaps) + 1)
  /\ Stored => targeted_cloud = Targeted(Len(submaps))

RoomForSubmap == mapping_flag /\ ~Stored => Len(submaps) < MaxSubmaps

AllPublished ==
  /\ published <= Len(submaps)
  /\ mapping_pc = "publish" => published < Len(submaps) /\ Len(submaps) > 1
  /\ mapping_pc # "publish" /\ Len(submaps) > 1 => published = Len(submaps)

DistanceOfMap ==
  /\ submaps = << >> => latest_distance = 0
  /\ submaps # << >> =>
       LET last == submaps[Len(submaps)].distance
       IN  IF mapping_pc = "store" THEN latest_distance - last \in 0 .. MaxStep
                                   ELSE latest_distance = last

FrontendInv ==
  /\ TypeOK
  /\ FlagMeansThread
  /\ UpdatedMeansReady
  /\ HasFirstSubmap
  /\ TargetNotRaced
  /\ TargetIsOfMap
  /\ TargetedCloudIsOfMap
  /\ RoomForSubmap
  /\ AllPublished
  /\ DistanceOfMap

(* A mapping thread is started only when the one before was detached:      *)
(* assigning a new one to a joinable std::thread would end the program.    *)
OneMappingThread ==
  [][mapping_pc' = "clear" /\ mapping_pc # "clear" => mapping_pc = "none"]_vars

(* The map array the backend sees only grows, a submap at a time, with     *)
(* distances that never decrease and steps of at most MaxStep.             *)
Stream == INSTANCE SubmapStream

ImplementsStream == Stream!Spec

(* A movement that was seen while the map was being updated is not lost:   *)
(* as long as clouds arrive, a robot that stays away from where the map    *)
(* was last updated gets its map updated.                                  *)
MapKeepsUp ==
  []<><<CloudCallback>>_vars =>
    []<>(\/ Distance(pose, previous_position) < TransForMapUpdate
         \/ Len(submaps) = MaxSubmaps)

(* README: the map is updated each time the robot has moved by             *)
(* trans_for_mapupdate, so neighbours in the map array are at least that   *)
(* far apart.                                                              *)
SubmapsSpaced ==
  \A i \in 1 .. Len(submaps) - 1 :
    submaps[i + 1].distance - submaps[i].distance >= TransForMapUpdate
==============================================================================

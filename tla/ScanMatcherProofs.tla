-------------------------- MODULE ScanMatcherProofs --------------------------
(***************************************************************************)
(* For every set of positions, every threshold and every number of         *)
(* targeted clouds: the frontend's callbacks and its mapping thread never  *)
(* race for the registration target, the target follows the map, no two    *)
(* mapping threads run, and the map array is a SubmapStream.               *)
(***************************************************************************)
EXTENDS ScanMatcher, SequenceTheorems, TLAPS

(* Distances are natural numbers below MaxStep.                            *)
LEMMA DistanceType ==
  ASSUME NEW p \in Positions, NEW q \in Positions
  PROVE  Distance(p, q) \in 0 .. MaxStep
<1>1. p \in Int /\ q \in Int /\ Distance(p, q) <= MaxStep
  BY FrontendAssumption
<1>. QED  BY <1>1, FrontendAssumption DEF Distance

(* Appending a submap.                                                     *)
LEMMA AppendSubmap ==
  ASSUME NEW S, NEW s \in Seq(S), NEW e \in S
  PROVE  /\ Append(s, e) \in Seq(S)
         /\ Len(Append(s, e)) = Len(s) + 1
         /\ Append(s, e)[Len(s) + 1] = e
         /\ Append(s, e) # << >>
         /\ Len(s) \in Nat
         /\ s # << >> <=> Len(s) > 0
         /\ \A i \in 1 .. Len(s) : Append(s, e)[i] = s[i]
  BY EmptySeq, AppendProperties, LenProperties

LEMMA InvInit == Init => FrontendInv
<1>. SUFFICES ASSUME Init PROVE FrontendInv
  OBVIOUS
<1>1. TypeOK
  <2>1. /\ 0 \in 0 .. MaxStep
        /\ << >> \in Seq([position : Positions, distance : Nat])
    BY FrontendAssumption, EmptySeq
  <2>. QED  BY <2>1, FrontendAssumption DEF Init, TypeOK
<1>2. FlagMeansThread /\ UpdatedMeansReady /\ HasFirstSubmap /\ TargetNotRaced
  BY DEF Init, FlagMeansThread, UpdatedMeansReady, HasFirstSubmap, TargetNotRaced
<1>3. TargetIsOfMap /\ TargetedCloudIsOfMap /\ RoomForSubmap
  BY DEF Init, TargetIsOfMap, TargetedCloudIsOfMap, RoomForSubmap, Stored
<1>4. AllPublished /\ DistanceOfMap
  <2>1. Len(submaps) = 0
    BY EmptySeq DEF Init
  <2>. QED  BY <2>1 DEF Init, AllPublished, DistanceOfMap
<1>. QED  BY <1>1, <1>2, <1>3, <1>4 DEF FrontendInv

LEMMA TypeStep ==
  ASSUME FrontendInv, [Next]_vars
  PROVE  TypeOK'
<1>. USE DEF FrontendInv, TypeOK, pose_vars, map_vars, mapping_vars
<1>. DEFINE S == [position : Positions, distance : Nat]
<1>1. ASSUME NEW p \in Positions, InitialPoseCallback(p)
      PROVE  TypeOK'
  BY <1>1 DEF InitialPoseCallback
<1>2. CASE CloudCallback
  <2>1. CASE initial_cloud_received
    BY <1>2, <2>1 DEF CloudCallback
  <2>2. CASE ~initial_cloud_received
    <3>. DEFINE e == [position |-> pose, distance |-> 0]
    <3>1. submaps = << >> /\ e \in S
      BY <2>2 DEF HasFirstSubmap
    <3>2. submaps' = Append(submaps, e) /\ target' = {1} /\ targeted_cloud' = targeted_cloud
      BY <1>2, <2>2 DEF CloudCallback
    <3>3. submaps' \in Seq(S) /\ Len(submaps') = Len(submaps) + 1 /\ Len(submaps) \in Nat
      BY <3>1, <3>2, AppendSubmap
    <3>4. target' \subseteq 1 .. Len(submaps') /\ targeted_cloud' \subseteq 1 .. Len(submaps') + 1
      BY <3>2, <3>3
    <3>. QED  BY <1>2, <2>2, <3>3, <3>4 DEF CloudCallback
  <2>. QED  BY <2>1, <2>2
<1>3. CASE CheckFuture \/ KeepMap
  BY <1>3 DEF CheckFuture, KeepMap
<1>4. CASE LoadTarget
  <2>1. CASE is_map_updated
    <3>1. target' = Targeted(Len(submaps))
      BY <1>4, <2>1 DEF LoadTarget, UpdatedMeansReady, TargetedCloudIsOfMap, Stored
    <3>2. target' \subseteq 1 .. Len(submaps)
      BY <3>1 DEF Targeted
    <3>. QED  BY <1>4, <3>2 DEF LoadTarget
  <2>2. CASE ~is_map_updated
    BY <1>4, <2>2 DEF LoadTarget
  <2>. QED  BY <2>1, <2>2
<1>5. ASSUME NEW p \in Positions, Align(p)
      PROVE  TypeOK'
  <2>1. Distance(p, previous_position) \in 0 .. MaxStep
    BY DistanceType
  <2>. QED  BY <1>5, <2>1 DEF Align
<1>6. CASE StartMapping
  BY <1>6 DEF StartMapping
<1>7. CASE ClearTargetedCloud
  BY <1>7 DEF ClearTargetedCloud, Mapping
<1>8. CASE GatherTargetedCloud
  <2>1. Targeted(Len(submaps) + 1) \subseteq 1 .. Len(submaps) + 1
    BY DEF Targeted
  <2>. QED  BY <1>8, <2>1 DEF GatherTargetedCloud, Mapping
<1>9. CASE AddDistance
  <2>1. latest_distance + trans \in Nat
    BY FrontendAssumption
  <2>. QED  BY <1>9, <2>1 DEF AddDistance, Mapping
<1>10. CASE StoreSubmap
  <2>. DEFINE e == [position |-> mapping_pose, distance |-> latest_distance]
  <2>1. e \in S
    OBVIOUS
  <2>2. submaps' \in Seq(S) /\ Len(submaps') = Len(submaps) + 1 /\ Len(submaps) \in Nat
    BY <1>10, <2>1, AppendSubmap DEF StoreSubmap
  <2>3. target' \subseteq 1 .. Len(submaps') /\ targeted_cloud' \subseteq 1 .. Len(submaps') + 1
    BY <1>10, <2>2 DEF StoreSubmap, Mapping
  <2>. QED  BY <1>10, <2>2, <2>3 DEF StoreSubmap, Mapping
<1>11. CASE PublishMapArray
  <2>1. Len(submaps) \in Nat
    BY LenProperties
  <2>. QED  BY <1>11, <2>1 DEF PublishMapArray, Mapping
<1>12. CASE FinishMapping
  BY <1>12 DEF FinishMapping, Mapping
<1>13. CASE UNCHANGED vars
  BY <1>13 DEF vars
<1>. QED
  BY <1>1, <1>2, <1>3, <1>4, <1>5, <1>6, <1>7, <1>8, <1>9, <1>10, <1>11, <1>12,
     <1>13 DEF Next, Callback, UpdateMap

-----------------------------------------------------------------------------
(* Who may do what: the flags and the two program counters.                *)

Control ==
  /\ FlagMeansThread
  /\ UpdatedMeansReady
  /\ HasFirstSubmap
  /\ TargetNotRaced
  /\ RoomForSubmap

LEMMA ControlStep ==
  ASSUME FrontendInv, [Next]_vars
  PROVE  Control'
<1>. USE DEF FrontendInv, Control, FlagMeansThread, UpdatedMeansReady, HasFirstSubmap,
         TargetNotRaced, RoomForSubmap, Stored, pose_vars, map_vars, mapping_vars
<1>. DEFINE S == [position : Positions, distance : Nat]
<1>1. CASE (\E p \in Positions : InitialPoseCallback(p) \/ Align(p))
           \/ CheckFuture \/ LoadTarget \/ StartMapping \/ KeepMap
  BY <1>1 DEF InitialPoseCallback, Align, CheckFuture, LoadTarget, StartMapping,
              KeepMap, MapIsDue, TypeOK
<1>2. CASE CloudCallback
  <2>. DEFINE e == [position |-> pose, distance |-> 0]
  <2>1. ~initial_cloud_received => submaps' = Append(submaps, e) /\ e \in S
    BY <1>2 DEF CloudCallback, TypeOK
  <2>2. ~initial_cloud_received => submaps' # << >>
    BY <2>1, AppendSubmap DEF TypeOK
  <2>3. initial_cloud_received => submaps' = submaps /\ initial_cloud_received'
    BY <1>2 DEF CloudCallback
  <2>. QED  BY <1>2, <2>2, <2>3 DEF CloudCallback
<1>3. CASE ClearTargetedCloud \/ GatherTargetedCloud \/ AddDistance
           \/ PublishMapArray \/ FinishMapping
  BY <1>3 DEF ClearTargetedCloud, GatherTargetedCloud, AddDistance, PublishMapArray,
              FinishMapping, Mapping
<1>4. CASE StoreSubmap
  <2>. DEFINE e == [position |-> mapping_pose, distance |-> latest_distance]
  <2>1. submaps' = Append(submaps, e) /\ e \in S
    BY <1>4 DEF StoreSubmap, TypeOK
  <2>2. submaps' # << >>
    BY <2>1, AppendSubmap DEF TypeOK
  <2>. QED  BY <1>4, <2>2 DEF StoreSubmap, Mapping
<1>5. CASE UNCHANGED vars
  BY <1>5 DEF vars
<1>. QED
  BY <1>1, <1>2, <1>3, <1>4, <1>5 DEF Next, Callback, UpdateMap

-----------------------------------------------------------------------------
(* The registration target and the cloud it is made of.                    *)

LEMMA TargetStep ==
  ASSUME FrontendInv, [Next]_vars
  PROVE  TargetIsOfMap' /\ TargetedCloudIsOfMap'
<1>. USE DEF FrontendInv, TargetIsOfMap, TargetedCloudIsOfMap, Stored,
         pose_vars, map_vars, mapping_vars
<1>. DEFINE S == [position : Positions, distance : Nat]
<1>0. Len(submaps) \in Nat /\ submaps \in Seq(S)
  BY LenProperties DEF TypeOK
<1>1. CASE (\E p \in Positions : InitialPoseCallback(p) \/ Align(p))
           \/ CheckFuture \/ StartMapping \/ KeepMap
  <2>1. UNCHANGED <<submaps, target, targeted_cloud, initial_cloud_received>>
    BY <1>1 DEF InitialPoseCallback, Align, CheckFuture, StartMapping, KeepMap
  <2>2. UNCHANGED mapping_pc \/ (mapping_pc = "none" /\ mapping_pc' = "clear")
    BY <1>1 DEF InitialPoseCallback, Align, CheckFuture, StartMapping, KeepMap,
                MapIsDue, FlagMeansThread
  <2>. QED  BY <2>1, <2>2 DEF Targeted
<1>2. CASE CloudCallback
  <2>1. CASE initial_cloud_received
    <3>1. UNCHANGED <<submaps, target, targeted_cloud, initial_cloud_received, mapping_pc>>
      BY <1>2, <2>1 DEF CloudCallback
    <3>. QED  BY <3>1 DEF Targeted
  <2>2. CASE ~initial_cloud_received
    <3>. DEFINE e == [position |-> pose, distance |-> 0]
    <3>1. submaps = << >> /\ e \in S /\ mapping_pc = "none"
      BY <2>2 DEF HasFirstSubmap, FlagMeansThread, TypeOK
    <3>2. /\ submaps' = Append(submaps, e)
          /\ target' = {1}
          /\ mapping_pc' = "none"
      BY <1>2, <2>2, <3>1 DEF CloudCallback
    <3>3. Len(submaps') = 1
      BY <1>0, <3>1, <3>2, EmptySeq, AppendSubmap
    <3>4. Targeted(1) = {1}
      BY FrontendAssumption DEF Targeted
    <3>. QED  BY <3>2, <3>3, <3>4
  <2>. QED  BY <2>1, <2>2
<1>3. CASE LoadTarget
  <2>1. mapping_pc = "ready" /\ is_map_updated
    BY <1>3 DEF LoadTarget, TargetNotRaced, UpdatedMeansReady
  <2>2. /\ target' = targeted_cloud
        /\ mapping_pc' = "none"
        /\ UNCHANGED <<submaps, initial_cloud_received>>
    BY <1>3, <2>1 DEF LoadTarget
  <2>. QED  BY <2>1, <2>2 DEF Targeted
<1>4. CASE ClearTargetedCloud \/ AddDistance \/ PublishMapArray \/ FinishMapping
  <2>1. UNCHANGED <<submaps, target, initial_cloud_received>>
    BY <1>4 DEF ClearTargetedCloud, AddDistance, PublishMapArray, FinishMapping, Mapping
  <2>2. \/ mapping_pc = "clear" /\ mapping_pc' = "gather"
        \/ /\ UNCHANGED targeted_cloud
           /\ \/ mapping_pc = "measure" /\ mapping_pc' = "store"
              \/ mapping_pc = "publish" /\ mapping_pc' = "finish"
              \/ mapping_pc = "finish" /\ mapping_pc' = "ready"
    BY <1>4 DEF ClearTargetedCloud, AddDistance, PublishMapArray, FinishMapping, Mapping
  <2>. QED  BY <2>1, <2>2 DEF Targeted
<1>5. CASE GatherTargetedCloud
  <2>1. /\ UNCHANGED <<submaps, target, initial_cloud_received>>
        /\ mapping_pc = "gather" /\ mapping_pc' = "measure"
        /\ targeted_cloud' = Targeted(Len(submaps) + 1)
    BY <1>5 DEF GatherTargetedCloud, Mapping
  <2>. QED  BY <2>1 DEF Targeted
<1>6. CASE StoreSubmap
  <2>. DEFINE e == [position |-> mapping_pose, distance |-> latest_distance]
  <2>1. /\ submaps' = Append(submaps, e) /\ e \in S
        /\ UNCHANGED <<target, targeted_cloud, initial_cloud_received>>
        /\ mapping_pc = "store" /\ mapping_pc' = "publish"
    BY <1>6 DEF StoreSubmap, Mapping, TypeOK
  <2>2. Len(submaps') = Len(submaps) + 1 /\ Len(submaps') - 1 = Len(submaps)
    BY <1>0, <2>1, AppendSubmap
  <2>3. initial_cloud_received => target' = Targeted(Len(submaps') - 1)
    BY <2>1, <2>2
  <2>4. targeted_cloud' = Targeted(Len(submaps'))
    BY <2>1, <2>2
  <2>. QED  BY <2>1, <2>3, <2>4
<1>7. CASE UNCHANGED vars
  BY <1>7 DEF vars, Targeted
<1>. QED
  BY <1>1, <1>2, <1>3, <1>4, <1>5, <1>6, <1>7 DEF Next, Callback, UpdateMap

-----------------------------------------------------------------------------
(* The map array: what of it is published, and its last distance.          *)

LEMMA ArrayStep ==
  ASSUME FrontendInv, [Next]_vars
  PROVE  AllPublished' /\ DistanceOfMap'
<1>. USE DEF FrontendInv, AllPublished, DistanceOfMap, pose_vars, map_vars, mapping_vars
<1>. DEFINE S == [position : Positions, distance : Nat]
<1>0. /\ Len(submaps) \in Nat /\ submaps \in Seq(S)
      /\ submaps # << >> <=> Len(submaps) > 0
  BY EmptySeq, LenProperties DEF TypeOK
<1>1. CASE (\E p \in Positions : InitialPoseCallback(p) \/ Align(p)) \/ CheckFuture
           \/ LoadTarget \/ StartMapping \/ KeepMap
           \/ ClearTargetedCloud \/ GatherTargetedCloud \/ FinishMapping
  <2>1. UNCHANGED <<submaps, published, latest_distance>>
    BY <1>1 DEF InitialPoseCallback, Align, CheckFuture, LoadTarget, StartMapping,
       KeepMap, ClearTargetedCloud, GatherTargetedCloud, FinishMapping
  <2>2. /\ (mapping_pc' = "publish" <=> mapping_pc = "publish")
        /\ (mapping_pc' = "store" <=> mapping_pc = "store")
    BY <1>1 DEF InitialPoseCallback, Align, CheckFuture, LoadTarget, StartMapping,
       KeepMap, MapIsDue, FlagMeansThread, TargetNotRaced, ClearTargetedCloud,
       GatherTargetedCloud, FinishMapping, Mapping
  <2>. QED  BY <2>1, <2>2
<1>2. CASE CloudCallback
  <2>1. CASE initial_cloud_received
    BY <1>2, <2>1 DEF CloudCallback
  <2>2. CASE ~initial_cloud_received
    <3>. DEFINE e == [position |-> pose, distance |-> 0]
    <3>1. submaps = << >> /\ Len(submaps) = 0 /\ e \in S /\ mapping_pc = "none"
      BY <1>0, <2>2, EmptySeq DEF HasFirstSubmap, FlagMeansThread, TypeOK
    <3>2. /\ submaps' = Append(submaps, e) /\ mapping_pc' = "none"
          /\ UNCHANGED <<published, latest_distance>>
      BY <1>2, <2>2, <3>1 DEF CloudCallback
    <3>3. Len(submaps') = 1 /\ submaps'[1] = e /\ submaps' # << >>
      BY <1>0, <3>1, <3>2, AppendSubmap
    <3>4. published = 0 /\ latest_distance = 0 /\ submaps'[Len(submaps')].distance = 0
      BY <3>1, <3>3 DEF TypeOK
    <3>. QED  BY <3>2, <3>3, <3>4
  <2>. QED  BY <2>1, <2>2
<1>3. CASE AddDistance
  <2>1. /\ UNCHANGED <<submaps, published>>
        /\ mapping_pc = "measure" /\ mapping_pc' = "store"
        /\ latest_distance' = latest_distance + trans
    BY <1>3 DEF AddDistance, Mapping
  <2>2. submaps # << >>
    BY <2>1 DEF HasFirstSubmap, FlagMeansThread
  <2>3. /\ submaps[Len(submaps)].distance = latest_distance
        /\ latest_distance \in Nat /\ trans \in 0 .. MaxStep
    BY <2>1, <2>2 DEF TypeOK
  <2>4. latest_distance' - submaps[Len(submaps)].distance \in 0 .. MaxStep
    BY <2>1, <2>3, FrontendAssumption
  <2>. QED  BY <2>1, <2>2, <2>4
<1>4. CASE StoreSubmap
  <2>. DEFINE e == [position |-> mapping_pose, distance |-> latest_distance]
  <2>1. /\ submaps' = Append(submaps, e) /\ e \in S
        /\ UNCHANGED <<published, latest_distance>>
        /\ mapping_pc = "store" /\ mapping_pc' = "publish"
    BY <1>4 DEF StoreSubmap, Mapping, TypeOK
  <2>2. submaps # << >>
    BY <2>1 DEF HasFirstSubmap, FlagMeansThread
  <2>3. /\ Len(submaps') = Len(submaps) + 1
        /\ submaps'[Len(submaps')] = e
        /\ submaps' # << >>
    BY <1>0, <2>1, AppendSubmap
  <2>4. published <= Len(submaps) /\ published \in Nat
    BY DEF TypeOK
  <2>5. AllPublished'
    BY <1>0, <2>1, <2>2, <2>3, <2>4
  <2>6. DistanceOfMap'
    BY <2>1, <2>3
  <2>. QED  BY <2>5, <2>6
<1>5. CASE PublishMapArray
  <2>1. /\ UNCHANGED <<submaps, latest_distance>>
        /\ mapping_pc = "publish" /\ mapping_pc' = "finish"
        /\ published' = Len(submaps)
    BY <1>5 DEF PublishMapArray, Mapping
  <2>. QED  BY <1>0, <2>1
<1>6. CASE UNCHANGED vars
  BY <1>6 DEF vars
<1>. QED
  BY <1>1, <1>2, <1>3, <1>4, <1>5, <1>6 DEF Next, Callback, UpdateMap

-----------------------------------------------------------------------------
(* The inductive invariant of the frontend: what each of the two threads   *)
(* has established at each point of its code.                              *)
THEOREM FrontendInvariant == Spec => []FrontendInv
<1>1. FrontendInv /\ [Next]_vars => FrontendInv'
  BY TypeStep, ControlStep, TargetStep, ArrayStep DEF Control, FrontendInv
<1>. QED  BY InvInit, <1>1, PTL DEF Spec

(* Every variable of the frontend keeps its type; trans_ stays within      *)
(* MaxStep although previous_position_ starts uninitialised.               *)
THEOREM FrontendTypeCorrect == Spec => []TypeOK
<1>1. FrontendInv => TypeOK
  BY DEF FrontendInv
<1>. QED  BY FrontendInvariant, <1>1, PTL

(* No callback reads targeted_cloud_ while the mapping thread writes it.   *)
THEOREM TargetIsNeverRaced == Spec => []TargetNotRaced
<1>1. FrontendInv => TargetNotRaced
  BY DEF FrontendInv
<1>. QED  BY FrontendInvariant, <1>1, PTL

(* Clouds are aligned to the newest submaps whenever no map update is      *)
(* under way.                                                              *)
THEOREM TargetIsUpToDate == Spec => []TargetFollowsMap
<1>1. FrontendInv => TargetFollowsMap
  BY DEF FrontendInv, TargetFollowsMap, TargetIsOfMap, FlagMeansThread, Stored
<1>. QED  BY FrontendInvariant, <1>1, PTL

(* std::thread's assignment never meets a joinable thread.                 *)
THEOREM MappingThreadsAreOne == Spec => OneMappingThread
<1>1. FrontendInv /\ [Next]_vars =>
        [mapping_pc' = "clear" /\ mapping_pc # "clear" => mapping_pc = "none"]_vars
  <2>. SUFFICES ASSUME FrontendInv, Next, mapping_pc' = "clear", mapping_pc # "clear"
                PROVE  mapping_pc = "none"
    OBVIOUS
  <2>1. CASE StartMapping
    BY <2>1 DEF StartMapping, MapIsDue, FrontendInv, FlagMeansThread
  <2>2. CASE (\E p \in Positions : InitialPoseCallback(p) \/ Align(p)) \/ CloudCallback
             \/ CheckFuture \/ LoadTarget \/ KeepMap \/ UpdateMap
    BY <2>2 DEF InitialPoseCallback, Align, CloudCallback, CheckFuture, LoadTarget,
       KeepMap, UpdateMap, ClearTargetedCloud, GatherTargetedCloud, AddDistance,
       StoreSubmap, PublishMapArray, FinishMapping, Mapping, mapping_vars
  <2>. QED  BY <2>1, <2>2 DEF Next, Callback
<1>. QED  BY FrontendInvariant, <1>1, PTL DEF Spec, OneMappingThread

-----------------------------------------------------------------------------
(* Every step of the frontend is a step of SubmapStream or changes nothing *)
(* the backend sees.                                                       *)

LEMMA StreamStep ==
  ASSUME FrontendInv, FrontendInv', [Next]_vars
  PROVE  [Stream!Next]_(Stream!stream_vars)
<1>. USE DEF Stream!stream_vars
<1>. DEFINE S == [position : Positions, distance : Nat]
<1>0. /\ Len(submaps) \in Nat /\ submaps \in Seq(S)
      /\ submaps # << >> <=> Len(submaps) > 0
  BY EmptySeq, LenProperties DEF FrontendInv, TypeOK
<1>1. CASE CloudCallback
  <2>1. CASE initial_cloud_received
    BY <1>1, <2>1 DEF CloudCallback
  <2>2. CASE ~initial_cloud_received
    <3>1. submaps = << >> /\ pose \in Positions
      BY <2>2 DEF FrontendInv, HasFirstSubmap, TypeOK
    <3>2. submaps' = Append(submaps, [position |-> pose, distance |-> 0])
          /\ UNCHANGED published
      BY <1>1, <2>2 DEF CloudCallback
    <3>3. submaps' = <<[position |-> pose, distance |-> 0]>>
      BY <3>1, <3>2
    <3>4. Stream!First(pose)
      BY <3>1, <3>2, <3>3 DEF Stream!First
    <3>. QED  BY <3>1, <3>4 DEF Stream!Next, Stream!Extend
  <2>. QED  BY <2>1, <2>2
<1>2. CASE StoreSubmap
  <2>. DEFINE last == submaps[Len(submaps)].distance
              step == latest_distance - last
  <2>1. /\ mapping_pc = "store"
        /\ submaps' = Append(submaps, [position |-> mapping_pose, distance |-> latest_distance])
        /\ UNCHANGED published
    BY <1>2 DEF StoreSubmap, Mapping
  <2>2. submaps # << >> /\ Len(submaps) < MaxSubmaps
    BY <2>1 DEF FrontendInv, HasFirstSubmap, RoomForSubmap, FlagMeansThread, Stored
  <2>3. step \in 0 .. MaxStep
    BY <2>1, <2>2 DEF FrontendInv, DistanceOfMap
  <2>4. Len(submaps) \in 1 .. Len(submaps)
    BY <1>0, <2>2
  <2>5. submaps[Len(submaps)] \in S /\ latest_distance \in Nat
    BY <1>0, <2>4, ElementOfSeq DEF FrontendInv, TypeOK
  <2>6. last + step = latest_distance
    BY <2>5
  <2>7. Len(submaps) \in 1 .. MaxSubmaps - 1
    BY <1>0, <2>2, FrontendAssumption
  <2>8. Len(submaps) > 1 => published = Len(submaps)
    BY <2>1 DEF FrontendInv, AllPublished
  <2>9. mapping_pose \in Positions
    BY DEF FrontendInv, TypeOK
  <2>10. Stream!Grow(mapping_pose, step)
    <3>. HIDE DEF step
    <3>1. submaps' = Append(submaps, [position |-> mapping_pose, distance |-> last + step])
      BY <2>1, <2>6
    <3>. QED  BY <2>1, <2>7, <2>8, <3>1 DEF Stream!Grow
  <2>. HIDE DEF step
  <2>. QED  BY <2>3, <2>9, <2>10 DEF Stream!Next, Stream!Extend
<1>3. CASE PublishMapArray
  <2>1. /\ mapping_pc = "publish" /\ UNCHANGED submaps /\ published' = Len(submaps)
    BY <1>3 DEF PublishMapArray, Mapping
  <2>2. published < Len(submaps) /\ Len(submaps) > 1
    BY <2>1 DEF FrontendInv, AllPublished
  <2>. QED  BY <2>1, <2>2 DEF Stream!Next, Stream!Publish
<1>4. CASE (\E p \in Positions : InitialPoseCallback(p) \/ Align(p)) \/ CheckFuture
           \/ LoadTarget \/ StartMapping \/ KeepMap \/ ClearTargetedCloud
           \/ GatherTargetedCloud \/ AddDistance \/ FinishMapping \/ UNCHANGED vars
  <2>1. UNCHANGED <<submaps, published>>
    BY <1>4 DEF InitialPoseCallback, Align, CheckFuture, LoadTarget, StartMapping,
       KeepMap, ClearTargetedCloud, GatherTargetedCloud, AddDistance, FinishMapping,
       vars, map_vars
  <2>. QED  BY <2>1
<1>. QED  BY <1>1, <1>2, <1>3, <1>4 DEF Next, Callback, UpdateMap

(* The frontend keeps its promise to the backend: a map array that only    *)
(* grows, with bounded steps, every submap published before the next.      *)
THEOREM FrontendImplementsStream == Spec => ImplementsStream
<1>1. Init => Stream!Init
  BY DEF Init, Stream!Init
<1>2. FrontendInv /\ FrontendInv' /\ [Next]_vars => [Stream!Next]_(Stream!stream_vars)
  BY StreamStep
<1>. QED  BY FrontendInvariant, <1>1, <1>2, PTL DEF Spec, ImplementsStream, Stream!Spec
==============================================================================

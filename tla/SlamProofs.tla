----------------------------- MODULE SlamProofs ------------------------------
(***************************************************************************)
(* The backend, for every frontend that keeps its promise, every parameter *)
(* and every outcome of its registrations: pose graphs are well formed, no *)
(* submap closes two loops, and a loop search reads no submap beyond the   *)
(* map array if search_submap_num map updates never take the robot further *)
(* than distance_loop_closure.  And what the scan matcher is given, for    *)
(* every speed, pattern, world and ring: how wrong the odometry may be,    *)
(* what the scans come by and show, and which IMU samples are around a     *)
(* point.                                                                  *)
(***************************************************************************)
EXTENDS GraphSlam, RobotInputs, SequenceTheorems, FiniteSetTheorems,
        WellFoundedInduction, TLAPS

-----------------------------------------------------------------------------
(* Products and sequences.                                                 *)

LEMMA OneMore ==
  ASSUME NEW a \in Int, NEW m \in Int
  PROVE  (a + 1) * m = a * m + m /\ a * m \in Int
OBVIOUS

LEMMA ProductMonotone ==
  ASSUME NEW a \in Int, NEW b \in Int, NEW m \in Nat, a <= b
  PROVE  a * m <= b * m
<1>1. b - a \in Nat /\ (b - a) * m \in Nat
  OBVIOUS
<1>2. b * m - a * m = (b - a) * m
  OBVIOUS
<1>3. a * m \in Int /\ b * m \in Int
  OBVIOUS
<1>. QED  BY <1>1, <1>2, <1>3

(* Appending an element.                                                   *)
LEMMA AppendOne ==
  ASSUME NEW S, NEW s \in Seq(S), NEW e \in S
  PROVE  /\ Append(s, e) \in Seq(S)
         /\ Len(Append(s, e)) = Len(s) + 1
         /\ Append(s, e)[Len(s) + 1] = e
         /\ Append(s, e) # << >>
         /\ Len(s) \in Nat
         /\ s # << >> <=> Len(s) > 0
         /\ \A i \in 1 .. Len(s) : Append(s, e)[i] = s[i]
  BY EmptySeq, AppendProperties, LenProperties

-----------------------------------------------------------------------------
(* The pose graph of an array joins nodes of the array.                    *)

LEMMA AdjacentEdgesJoin ==
  ASSUME NEW n \in Nat
  PROVE  AdjacentEdges(n) \subseteq (0 .. n - 1) \X (0 .. n - 1)
<1>. SUFFICES ASSUME NEW i \in NumAdjacentConstraints + 1 .. n - 1,
                     NEW j \in 0 .. NumAdjacentConstraints - 1
              PROVE  <<i - NumAdjacentConstraints + j, i>>
                       \in (0 .. n - 1) \X (0 .. n - 1)
  BY DEF AdjacentEdges
<1>1. i - NumAdjacentConstraints + j \in 0 .. n - 1 /\ i \in 0 .. n - 1
  BY BackendAssumption
<1>. QED  BY <1>1

LEMMA PoseGraphJoins ==
  ASSUME NEW array \in Array, NEW loops \in Seq(Nat \X Nat),
         \A k \in 1 .. Len(loops) :
           loops[k][1] \in Ids(array) /\ loops[k][2] \in Ids(array)
  PROVE  LET g == PoseGraph(array, loops)
         IN  /\ g \in [nodes : SUBSET Nat, edges : SUBSET (Nat \X Nat)]
             /\ g.edges \subseteq g.nodes \X g.nodes
<1>. DEFINE g == PoseGraph(array, loops)
<1>1. Len(array) \in Nat
  BY LenProperties DEF Array
<1>2. AdjacentEdges(Len(array)) \subseteq Ids(array) \X Ids(array)
  BY <1>1, AdjacentEdgesJoin DEF Ids
<1>3. ASSUME NEW k \in 1 .. Len(loops)
      PROVE  loops[k] \in Ids(array) \X Ids(array)
  <2>1. loops[k] \in Nat \X Nat
    BY ElementOfSeq
  <2>2. loops[k] = <<loops[k][1], loops[k][2]>>
    BY <2>1
  <2>. QED  BY <2>2
<1>4. g.nodes = Ids(array) /\ g.edges \subseteq Ids(array) \X Ids(array)
  BY <1>2, <1>3 DEF PoseGraph
<1>5. Ids(array) \subseteq Nat
  BY <1>1 DEF Ids
<1>6. g = [nodes |-> g.nodes, edges |-> g.edges]
  BY DEF PoseGraph
<1>. HIDE DEF g
<1>7. g.edges \subseteq Nat \X Nat
  BY <1>4, <1>5
<1>8. g \in [nodes : SUBSET Nat, edges : SUBSET (Nat \X Nat)]
  BY <1>4, <1>5, <1>6, <1>7
<1>. QED  BY <1>4, <1>8 DEF g

(* The edge a loop search adds.                                            *)
LEMMA LoopEdgeType ==
  ASSUME TypeOK, LoopsOfArray, is_map_array_updated, NEW id \in Ids(map_array_msg)
  PROVE  /\ Len(map_array_msg) \in Nat \ {0}
         /\ Len(map_array_msg) - 1 \in Ids(map_array_msg)
         /\ id \in Nat
         /\ <<id, Len(map_array_msg) - 1>> \in Nat \X Nat
<1>1. Len(map_array_msg) \in Nat
  BY LenProperties DEF TypeOK, Array
<1>2. Len(map_array_msg) # 0
  BY <1>1 DEF Ids
<1>. QED  BY <1>1, <1>2 DEF Ids

(* What a loop search does to the loop edges.                              *)
LEMMA LoopSearch ==
  ASSUME TypeOK, LoopsOfArray, SearchLoop
  PROVE  /\ \/ UNCHANGED loop_edges
            \/ \E id \in Ids(map_array_msg) :
                 loop_edges' = Append(loop_edges, <<id, Len(map_array_msg) - 1>>)
         /\ \/ UNCHANGED near
            \/ \E id \in Candidates : near' = NearIds(id)
         /\ \/ UNCHANGED graph
            \/ graph' = PoseGraph(map_array_msg, loop_edges')
  BY DEF SearchLoop, FindLoop, Candidates, loop_vars

(* All loop edges after a search join submaps of the array searched.       *)
LEMMA LoopEdgesAfter ==
  ASSUME TypeOK, LoopsOfArray, SearchLoop
  PROVE  /\ loop_edges' \in Seq(Nat \X Nat)
         /\ \A k \in 1 .. Len(loop_edges') :
              /\ loop_edges'[k][1] \in Ids(map_array_msg)
              /\ loop_edges'[k][2] \in Ids(map_array_msg)
<1>1. CASE UNCHANGED loop_edges
  BY <1>1 DEF TypeOK, LoopsOfArray
<1>2. CASE \E id \in Ids(map_array_msg) :
             loop_edges' = Append(loop_edges, <<id, Len(map_array_msg) - 1>>)
  <2>1. PICK id \in Ids(map_array_msg) :
             loop_edges' = Append(loop_edges, <<id, Len(map_array_msg) - 1>>)
    BY <1>2
  <2>. DEFINE e == <<id, Len(map_array_msg) - 1>>
  <2>2. e \in Nat \X Nat /\ Len(map_array_msg) - 1 \in Ids(map_array_msg)
    BY LoopEdgeType DEF SearchLoop
  <2>3. e[1] \in Ids(map_array_msg) /\ e[2] \in Ids(map_array_msg)
    BY <2>2
  <2>. HIDE DEF e
  <2>4. /\ Append(loop_edges, e) \in Seq(Nat \X Nat)
        /\ Len(Append(loop_edges, e)) = Len(loop_edges) + 1
        /\ Append(loop_edges, e)[Len(loop_edges) + 1] = e
        /\ Len(loop_edges) \in Nat
        /\ \A i \in 1 .. Len(loop_edges) : Append(loop_edges, e)[i] = loop_edges[i]
    BY <2>2, AppendOne DEF TypeOK
  <2>5. loop_edges' = Append(loop_edges, e)
    BY <2>1 DEF e
  <2>. QED  BY <2>3, <2>4, <2>5 DEF LoopsOfArray
<1>. QED  BY <1>1, <1>2, LoopSearch

-----------------------------------------------------------------------------
(* The frontend's steps, as the backend sees them.                         *)
LEMMA FrontendStep ==
  ASSUME TypeOK, Frontend!Extend
  PROVE  \E p \in Positions, d \in Nat :
           /\ submaps' = Append(submaps, [position |-> p, distance |-> d])
           /\ Len(submaps) > 0 =>
                /\ d - submaps[Len(submaps)].distance \in 0 .. MaxStep
                /\ Len(submaps) > 1 => published = Len(submaps)
           /\ UNCHANGED published
<1>0. Len(submaps) \in Nat
  BY LenProperties DEF TypeOK, Array
<1>1. CASE \E p \in Positions : Frontend!First(p)
  <2>1. PICK p \in Positions : Frontend!First(p)
    BY <1>1
  <2>2. /\ submaps' = Append(submaps, [position |-> p, distance |-> 0])
        /\ Len(submaps) = 0
        /\ UNCHANGED published
    BY <2>1, EmptySeq DEF Frontend!First
  <2>. QED  BY <2>2
<1>2. CASE \E p \in Positions, step \in 0 .. MaxStep : Frontend!Grow(p, step)
  <2>1. PICK p \in Positions, step \in 0 .. MaxStep : Frontend!Grow(p, step)
    BY <1>2
  <2>. DEFINE last == submaps[Len(submaps)].distance
  <2>2. Len(submaps) \in 1 .. Len(submaps)
    BY <1>0, <2>1 DEF Frontend!Grow
  <2>3. submaps[Len(submaps)] \in [position : Positions, distance : Nat]
    BY <2>2, ElementOfSeq DEF TypeOK, Array
  <2>4. last + step \in Nat /\ (last + step) - last \in 0 .. MaxStep
    BY <2>3, BackendAssumption
  <2>5. /\ submaps' = Append(submaps, [position |-> p, distance |-> last + step])
        /\ Len(submaps) > 1 => published = Len(submaps)
        /\ UNCHANGED published
    BY <2>1 DEF Frontend!Grow
  <2>. QED  BY <2>4, <2>5
<1>. QED  BY <1>1, <1>2 DEF Frontend!Extend

LEMMA TypeStep ==
  ASSUME TypeOK, LoopsOfArray, [Next]_vars
  PROVE  TypeOK'
<1>. USE DEF TypeOK, frontend_vars, array_vars, loop_vars
<1>. DEFINE S == [position : Positions, distance : Nat]
<1>1. CASE ExtendMap
  <2>1. PICK p \in Positions, d \in Nat :
          submaps' = Append(submaps, [position |-> p, distance |-> d])
          /\ UNCHANGED published
    BY <1>1, FrontendStep DEF ExtendMap
  <2>2. [position |-> p, distance |-> d] \in S
    OBVIOUS
  <2>3. submaps' \in Array
    BY <2>1, <2>2, AppendOne DEF Array
  <2>. QED  BY <1>1, <2>1, <2>3 DEF ExtendMap
<1>2. CASE PublishMapArray
  <2>1. published' \in Nat
    BY <1>2, LenProperties DEF PublishMapArray, Frontend!Publish, Array
  <2>. QED  BY <1>2, <2>1 DEF PublishMapArray, Frontend!Publish
<1>3. CASE MapArrayCallback
  <2>1. << >> \in Array
    BY EmptySeq DEF Array
  <2>. QED  BY <1>3, <2>1 DEF MapArrayCallback
<1>4. CASE SearchLoop
  <2>1. loop_edges' \in Seq(Nat \X Nat)
    BY <1>4, LoopEdgesAfter
  <2>2. near' \subseteq Nat
    <3>1. ASSUME NEW id \in Candidates
          PROVE  NearIds(id) \subseteq Nat
      <4>1. id \in Int
        BY LenProperties DEF Candidates, Ids, Array
      <4>. QED  BY <4>1, BackendAssumption DEF NearIds
    <3>. QED  BY <1>4, <3>1, LoopSearch
  <2>3. graph' \in [nodes : SUBSET Nat, edges : SUBSET (Nat \X Nat)]
    <3>1. CASE UNCHANGED graph
      BY <3>1
    <3>2. CASE graph' = PoseGraph(map_array_msg, loop_edges')
      BY <1>4, <3>2, LoopEdgesAfter, PoseGraphJoins
    <3>. QED  BY <1>4, <3>1, <3>2, LoopSearch
  <2>4. searched' \in Nat
    BY <1>4, LenProperties DEF SearchLoop, Array
  <2>. QED  BY <1>4, <2>1, <2>2, <2>3, <2>4 DEF SearchLoop
<1>5. CASE MapSave
  <2>1. graph' \in [nodes : SUBSET Nat, edges : SUBSET (Nat \X Nat)]
    BY <1>5, PoseGraphJoins DEF MapSave, LoopsOfArray
  <2>. QED  BY <1>5, <2>1 DEF MapSave
<1>6. CASE UNCHANGED vars
  BY <1>6 DEF vars
<1>. QED  BY <1>1, <1>2, <1>3, <1>4, <1>5, <1>6 DEF Next

-----------------------------------------------------------------------------
(* Neighbouring submaps are at most MaxStep apart, hence submaps i and j   *)
(* at most (j - i) * MaxStep.                                              *)

LEMMA StepsStep ==
  ASSUME TypeOK, StepsBounded, [Next]_vars
  PROVE  StepsBounded'
<1>. DEFINE S == [position : Positions, distance : Nat]
<1>1. CASE ExtendMap
  <2>0. PICK p \in Positions, d \in Nat :
          /\ submaps' = Append(submaps, [position |-> p, distance |-> d])
          /\ Len(submaps) > 0 => d - submaps[Len(submaps)].distance \in 0 .. MaxStep
    BY <1>1, FrontendStep DEF ExtendMap
  <2>. DEFINE n == Len(submaps)  e == [position |-> p, distance |-> d]
  <2>1. e \in S /\ e.distance = d
    OBVIOUS
  <2>2. /\ Len(submaps') = n + 1
        /\ submaps'[n + 1] = e
        /\ n \in Nat
        /\ \A i \in 1 .. n : submaps'[i] = submaps[i]
    BY <2>0, <2>1, AppendOne DEF TypeOK, Array
  <2>3. ASSUME NEW i \in 1 .. n PROVE submaps[i].distance \in Nat
    <3>1. submaps[i] \in S
      BY ElementOfSeq DEF TypeOK, Array
    <3>. QED  BY <3>1
  <2>. SUFFICES ASSUME NEW i \in 1 .. n + 1, NEW j \in 1 .. n + 1, i <= j
                PROVE  submaps'[j].distance - submaps'[i].distance <= (j - i) * MaxStep
    BY <2>2 DEF StepsBounded
  <2>. HIDE DEF n, e
  <2>4. CASE j <= n
    <3>1. i \in 1 .. n /\ j \in 1 .. n
      BY <2>2, <2>4
    <3>. QED  BY <2>2, <3>1 DEF StepsBounded, n
  <2>5. CASE j = n + 1 /\ i = n + 1
    <3>1. (j - i) * MaxStep = 0
      BY <2>2, <2>5, BackendAssumption
    <3>. QED  BY <2>1, <2>2, <2>5, <3>1
  <2>6. CASE j = n + 1 /\ i <= n
    <3>1. i \in 1 .. n /\ n \in 1 .. n /\ n > 0
      BY <2>2, <2>6
    <3>2. submaps[n].distance - submaps[i].distance <= (n - i) * MaxStep
      BY <3>1 DEF StepsBounded, n
    <3>3. d - submaps[n].distance <= MaxStep
      BY <2>0, <3>1 DEF n
    <3>4. (n - i + 1) * MaxStep = (n - i) * MaxStep + MaxStep /\ (n - i) * MaxStep \in Int
      BY <2>2, OneMore, BackendAssumption
    <3>5. j - i = n - i + 1
      BY <2>2, <2>6
    <3>6. d - submaps[i].distance <= (n - i) * MaxStep + MaxStep
      BY <2>3, <3>1, <3>2, <3>3, <3>4, BackendAssumption
    <3>. QED  BY <2>1, <2>2, <2>6, <3>1, <3>4, <3>5, <3>6
  <2>. QED  BY <2>2, <2>4, <2>5, <2>6
<1>2. CASE ~ExtendMap
  <2>1. UNCHANGED submaps
    BY <1>2 DEF Next, PublishMapArray, Frontend!Publish, MapArrayCallback, SearchLoop,
       MapSave, vars, frontend_vars
  <2>. QED  BY <2>1 DEF StepsBounded
<1>. QED  BY <1>1, <1>2

-----------------------------------------------------------------------------
(* Every map array on its way or received is a prefix of the frontend's,   *)
(* and a later one is longer.                                              *)

LEMMA ArraysStep ==
  ASSUME TypeOK, ArraysOfFrontend, [Next]_vars
  PROVE  ArraysOfFrontend'
<1>. USE DEF ArraysOfFrontend, IsPrefixOf, frontend_vars, array_vars, loop_vars
<1>. DEFINE S == [position : Positions, distance : Nat]
<1>0. /\ Len(submaps) \in Nat /\ Len(topic) \in Nat /\ Len(map_array_msg) \in Nat
      /\ published \in Nat
  BY LenProperties DEF TypeOK, Array
<1>1. CASE ExtendMap
  <2>1. PICK p \in Positions, d \in Nat :
          submaps' = Append(submaps, [position |-> p, distance |-> d])
          /\ UNCHANGED published
    BY <1>1, FrontendStep DEF ExtendMap
  <2>2. [position |-> p, distance |-> d] \in S
    OBVIOUS
  <2>3. /\ Len(submaps') = Len(submaps) + 1
        /\ \A i \in 1 .. Len(submaps) : submaps'[i] = submaps[i]
    BY <2>1, <2>2, AppendOne DEF TypeOK, Array
  <2>4. UNCHANGED <<topic, map_array_msg, published>>
    BY <1>1, <2>1 DEF ExtendMap
  <2>5. IsPrefixOf(map_array_msg, submaps)' /\ IsPrefixOf(topic, submaps)'
    BY <1>0, <2>3, <2>4
  <2>. QED  BY <1>0, <2>3, <2>4, <2>5
<1>2. CASE PublishMapArray
  BY <1>0, <1>2 DEF PublishMapArray, Frontend!Publish
<1>3. CASE MapArrayCallback
  <2>1. << >> = topic'
    BY <1>3 DEF MapArrayCallback
  <2>. QED  BY <1>0, <1>3, <2>1, EmptySeq DEF MapArrayCallback
<1>4. CASE SearchLoop \/ MapSave \/ UNCHANGED vars
  <2>1. UNCHANGED <<submaps, published, topic, map_array_msg>>
    BY <1>4 DEF SearchLoop, MapSave, vars
  <2>. QED  BY <2>1
<1>. QED  BY <1>1, <1>2, <1>3, <1>4 DEF Next

-----------------------------------------------------------------------------
(* Loop edges, and the pose graphs made with them.                         *)

LEMMA LoopsStep ==
  ASSUME TypeOK, ArraysOfFrontend, LoopsOfArray, LoopsAreNew, EdgesJoinNodes, [Next]_vars
  PROVE  LoopsOfArray' /\ LoopsAreNew' /\ EdgesJoinNodes'
<1>. USE DEF frontend_vars, array_vars, loop_vars
<1>0. Len(map_array_msg) \in Nat /\ Len(loop_edges) \in Nat /\ Len(topic) \in Nat
  BY LenProperties DEF TypeOK, Array
<1>1. CASE ExtendMap \/ PublishMapArray \/ UNCHANGED vars
  <2>1. UNCHANGED <<array_vars, loop_vars>>
    BY <1>1 DEF ExtendMap, PublishMapArray, vars
  <2>. QED  BY <2>1 DEF LoopsOfArray, LoopsAreNew, EdgesJoinNodes, Ids
<1>2. CASE MapArrayCallback
  <2>1. /\ UNCHANGED loop_vars
        /\ map_array_msg' = topic /\ topic # << >>
        /\ initial_map_array_received'
    BY <1>2 DEF MapArrayCallback
  <2>2. Len(map_array_msg) < Len(map_array_msg') /\ map_array_msg' # << >>
        /\ Len(map_array_msg') \in Nat
    BY <1>0, <2>1 DEF ArraysOfFrontend
  <2>3. ASSUME NEW k \in 1 .. Len(loop_edges)
        PROVE  /\ loop_edges[k][1] \in Ids(map_array_msg')
               /\ loop_edges[k][2] \in Ids(map_array_msg')
               /\ loop_edges[k][2] < Len(map_array_msg') - 1
    <3>1. loop_edges[k][1] \in Ids(map_array_msg) /\ loop_edges[k][2] \in Ids(map_array_msg)
      BY DEF LoopsOfArray
    <3>. QED  BY <1>0, <2>2, <3>1 DEF Ids
  <2>4. LoopsOfArray'
    BY <2>1, <2>2, <2>3 DEF LoopsOfArray
  <2>. QED  BY <2>1, <2>4 DEF LoopsAreNew, EdgesJoinNodes
<1>3. CASE SearchLoop
  <2>1. /\ is_map_array_updated /\ ~is_map_array_updated'
        /\ UNCHANGED <<map_array_msg, initial_map_array_received>>
    BY <1>3 DEF SearchLoop
  <2>2. LoopsOfArray'
    <3>1. \A k \in 1 .. Len(loop_edges') :
            /\ loop_edges'[k][1] \in Ids(map_array_msg)
            /\ loop_edges'[k][2] \in Ids(map_array_msg)
      BY <1>3, LoopEdgesAfter
    <3>. QED  BY <2>1, <3>1 DEF LoopsOfArray, Ids
  <2>3. LoopsAreNew'
    <3>1. CASE UNCHANGED loop_edges
      BY <3>1 DEF LoopsAreNew
    <3>2. CASE \E id \in Ids(map_array_msg) :
                 loop_edges' = Append(loop_edges, <<id, Len(map_array_msg) - 1>>)
      <4>1. PICK id \in Ids(map_array_msg) :
                 loop_edges' = Append(loop_edges, <<id, Len(map_array_msg) - 1>>)
        BY <3>2
      <4>. DEFINE e == <<id, Len(map_array_msg) - 1>>
      <4>2. e \in Nat \X Nat /\ e[2] = Len(map_array_msg) - 1
        BY <2>1, LoopEdgeType
      <4>3. loop_edges' = Append(loop_edges, e)
        BY <4>1
      <4>. HIDE DEF e
      <4>4. /\ Len(loop_edges') = Len(loop_edges) + 1
            /\ loop_edges'[Len(loop_edges) + 1] = e
            /\ \A i \in 1 .. Len(loop_edges) : loop_edges'[i] = loop_edges[i]
        BY <4>2, <4>3, AppendOne DEF TypeOK
      <4>5. \A k \in 1 .. Len(loop_edges) : loop_edges[k][2] < Len(map_array_msg) - 1
        BY <2>1 DEF LoopsOfArray
      <4>6. ASSUME NEW k \in 1 .. Len(loop_edges)
            PROVE  loop_edges'[k][2] < loop_edges'[k + 1][2]
        <5>1. CASE k = Len(loop_edges)
          BY <1>0, <4>2, <4>4, <4>5, <5>1
        <5>2. CASE k # Len(loop_edges)
          <6>1. k \in 1 .. Len(loop_edges) - 1 /\ k + 1 \in 1 .. Len(loop_edges)
            BY <1>0, <5>2
          <6>. QED  BY <4>4, <6>1 DEF LoopsAreNew
        <5>. QED  BY <5>1, <5>2
      <4>. QED  BY <1>0, <4>4, <4>6 DEF LoopsAreNew
    <3>. QED  BY <1>3, <3>1, <3>2, LoopSearch
  <2>4. EdgesJoinNodes'
    <3>1. CASE UNCHANGED graph
      BY <3>1 DEF EdgesJoinNodes
    <3>2. CASE graph' = PoseGraph(map_array_msg, loop_edges')
      BY <1>3, <3>2, LoopEdgesAfter, PoseGraphJoins DEF EdgesJoinNodes, TypeOK
    <3>. QED  BY <1>3, <3>1, <3>2, LoopSearch
  <2>. QED  BY <2>2, <2>3, <2>4
<1>4. CASE MapSave
  <2>1. UNCHANGED <<map_array_msg, initial_map_array_received, is_map_array_updated, loop_edges>>
        /\ graph' = PoseGraph(map_array_msg, loop_edges)
    BY <1>4 DEF MapSave
  <2>2. LoopsOfArray' /\ LoopsAreNew'
    BY <2>1 DEF LoopsOfArray, LoopsAreNew, Ids
  <2>3. EdgesJoinNodes'
    BY <2>1, PoseGraphJoins DEF EdgesJoinNodes, LoopsOfArray, TypeOK
  <2>. QED  BY <2>2, <2>3
<1>. QED  BY <1>1, <1>2, <1>3, <1>4 DEF Next

-----------------------------------------------------------------------------
(* A loop search reads submaps of the map array only.                      *)

LEMMA CandidateIsFar ==
  ASSUME TypeOK, StepsBounded, ArraysOfFrontend, StepsShort, NEW id \in Candidates
  PROVE  NearIds(id) \subseteq Ids(map_array_msg)
<1>. DEFINE n == Len(map_array_msg)
            way == map_array_msg[n].distance - map_array_msg[id + 1].distance
<1>0. n \in Nat
  BY LenProperties DEF TypeOK, Array
<1>1. id \in 0 .. n - 1 /\ way > DistanceLoopClosure
  BY DEF Candidates, IsCandidate, Ids, SubmapOf
<1>2. n \in 1 .. n /\ id + 1 \in 1 .. n /\ n <= Len(submaps)
  BY <1>0, <1>1 DEF ArraysOfFrontend, IsPrefixOf
<1>3. /\ map_array_msg[n] = submaps[n] /\ map_array_msg[id + 1] = submaps[id + 1]
      /\ n \in 1 .. Len(submaps) /\ id + 1 \in 1 .. Len(submaps) /\ id + 1 <= n
  <2>1. Len(submaps) \in Nat
    BY LenProperties DEF TypeOK, Array
  <2>. QED  BY <1>0, <1>2, <2>1 DEF ArraysOfFrontend, IsPrefixOf
<1>4. way <= (n - (id + 1)) * MaxStep
  BY <1>3 DEF StepsBounded
<1>5. map_array_msg[n].distance \in Nat /\ map_array_msg[id + 1].distance \in Nat
  <2>1. /\ map_array_msg[n] \in [position : Positions, distance : Nat]
        /\ map_array_msg[id + 1] \in [position : Positions, distance : Nat]
    BY <1>2, ElementOfSeq DEF TypeOK, Array
  <2>. QED  BY <2>1
<1>6. way \in Int
  BY <1>5
<1>. DEFINE steps == n - (id + 1)
<1>7. steps \in Nat
  BY <1>0, <1>1
<1>. HIDE DEF way, n, steps
<1>8. steps > SearchSubmapNum
  <2>. SUFFICES ASSUME steps <= SearchSubmapNum PROVE FALSE
    BY <1>7, BackendAssumption
  <2>1. steps * MaxStep <= SearchSubmapNum * MaxStep
    BY <1>7, ProductMonotone, BackendAssumption
  <2>2. steps * MaxStep \in Int /\ SearchSubmapNum * MaxStep \in Int
    BY <1>7, OneMore, BackendAssumption
  <2>3. way <= steps * MaxStep
    BY <1>4 DEF steps
  <2>. QED  BY <1>1, <1>6, <2>1, <2>2, <2>3, BackendAssumption DEF StepsShort
<1>. QED  BY <1>0, <1>1, <1>7, <1>8, BackendAssumption DEF NearIds, Ids, n, steps

LEMMA NearStep ==
  ASSUME BackendInv, StepsShort, NearSubmapsExist, [Next]_vars
  PROVE  NearSubmapsExist'
<1>0. Len(map_array_msg) \in Nat /\ Len(topic) \in Nat
  BY LenProperties DEF BackendInv, TypeOK, Array
<1>1. CASE SearchLoop
  <2>1. UNCHANGED map_array_msg
    BY <1>1 DEF SearchLoop
  <2>2. near' \subseteq Ids(map_array_msg)
    BY <1>1, LoopSearch, CandidateIsFar DEF BackendInv, NearSubmapsExist
  <2>. QED  BY <2>1, <2>2 DEF NearSubmapsExist, Ids
<1>2. CASE MapArrayCallback
  <2>1. UNCHANGED near /\ map_array_msg' = topic /\ topic # << >>
    BY <1>2 DEF MapArrayCallback, loop_vars
  <2>2. Len(map_array_msg) < Len(map_array_msg') /\ Len(map_array_msg') \in Nat
    BY <1>0, <2>1 DEF BackendInv, ArraysOfFrontend
  <2>. QED  BY <1>0, <2>1, <2>2 DEF NearSubmapsExist, Ids
<1>3. CASE ExtendMap \/ PublishMapArray \/ MapSave \/ UNCHANGED vars
  <2>1. UNCHANGED <<near, map_array_msg>>
    BY <1>3 DEF ExtendMap, PublishMapArray, MapSave, vars, array_vars, loop_vars
  <2>. QED  BY <2>1 DEF NearSubmapsExist, Ids
<1>. QED  BY <1>1, <1>2, <1>3 DEF Next

LEMMA InvInit == Init => BackendInv /\ NearSubmapsExist
<1>. SUFFICES ASSUME Init PROVE BackendInv /\ NearSubmapsExist
  OBVIOUS
<1>. USE DEF Init, Frontend!Init
<1>1. TypeOK
  BY EmptySeq DEF TypeOK, Array
<1>2. Len(submaps) = 0 /\ Len(loop_edges) = 0 /\ Len(map_array_msg) = 0 /\ Len(topic) = 0
  BY EmptySeq
<1>3. StepsBounded /\ ArraysOfFrontend
  BY <1>2 DEF StepsBounded, ArraysOfFrontend, IsPrefixOf
<1>4. LoopsOfArray /\ LoopsAreNew
  BY <1>2 DEF LoopsOfArray, LoopsAreNew
<1>5. EdgesJoinNodes /\ NearSubmapsExist
  BY DEF EdgesJoinNodes, NearSubmapsExist
<1>. QED  BY <1>1, <1>3, <1>4, <1>5 DEF BackendInv

-----------------------------------------------------------------------------
(* The inductive invariant of the backend.                                 *)
THEOREM BackendInvariant == Spec => []BackendInv
<1>1. Init => BackendInv
  BY InvInit
<1>2. BackendInv /\ [Next]_vars => BackendInv'
  BY TypeStep, StepsStep, ArraysStep, LoopsStep DEF BackendInv
<1>. QED  BY <1>1, <1>2, PTL DEF Spec

(* Every variable of the backend keeps its type.                           *)
THEOREM BackendTypeCorrect == Spec => []TypeOK
<1>1. BackendInv => TypeOK
  BY DEF BackendInv
<1>. QED  BY BackendInvariant, <1>1, PTL

(* The pose graph handed to the optimizer has no dangling edge, those of   *)
(* loops closed on earlier map arrays included.                            *)
THEOREM PoseGraphIsWellFormed == Spec => []EdgesJoinNodes
<1>1. BackendInv => EdgesJoinNodes
  BY DEF BackendInv
<1>. QED  BY BackendInvariant, <1>1, PTL

(* No submap is the newer end of two loop edges.                           *)
THEOREM LoopsCloseOnce == Spec => []LoopsAreNew
<1>1. BackendInv => LoopsAreNew
  BY DEF BackendInv
<1>. QED  BY BackendInvariant, <1>1, PTL

(* The unchecked upper end of the search range is inside the map array if  *)
(* SearchSubmapNum map updates never take the robot further than           *)
(* DistanceLoopClosure.                                                    *)
THEOREM SearchStaysInArray ==
  ASSUME StepsShort
  PROVE  Spec => []NearSubmapsExist
<1>1. Init => NearSubmapsExist
  BY InvInit
<1>2. BackendInv /\ NearSubmapsExist /\ [Next]_vars => NearSubmapsExist'
  BY NearStep
<1>. QED  BY BackendInvariant, <1>1, <1>2, PTL DEF Spec

------------------------------------------------------------------------------
(* The car and the guess from its odometry.                                *)

Twists == [x : Int, z : Int]

CarTypeOK ==
  /\ cmd_vel \in {<<>>} \cup {<<t>> : t \in Twists}
  /\ velocity \in Twists
  /\ pose \in [x : Int, y : Int, theta : Int]
  /\ odom \in [x : Int, y : Int, theta : Int]
  /\ clock \in Nat /\ last_update_time_ \in Nat /\ last_update_time_ <= clock
  /\ heading \in Int
  /\ slack \in Nat

HeadingError == pose.theta + velocity.z * (clock - last_update_time_) - heading

CarInv ==
  /\ CarTypeOK
  /\ Magnitude(HeadingError) <= slack

(* What is kept of the odometry is what it was at the last cloud, when its *)
(* transform was there.                                                    *)
GuessInv ==
  /\ corrent_pose \in Int /\ previous_odom_mat_ \in Int
  /\ known \in [1 .. 2 -> [there : BOOLEAN, odom : Int]]
  /\ previous_odom_mat_ = IF known[2].there THEN known[2].odom ELSE 0
  /\ GuessFollowsOdom

LEMMA MagnitudeType ==
  ASSUME NEW i \in Int
  PROVE  Magnitude(i) \in Nat
BY DEF Magnitude

(* An error that grows by d is no larger than before by more than d.       *)
LEMMA MagnitudeOfSum ==
  ASSUME NEW i \in Int, NEW d \in Int, NEW t \in Nat, NEW bound \in Nat,
         Magnitude(i) <= bound
  PROVE  Magnitude(i + d * t) <= bound + Magnitude(d) * t
<1>1. CASE d < 0
  <2>1. Magnitude(d) = -d /\ (-d) * t = -(d * t) /\ d * t \in Int
    BY <1>1 DEF Magnitude
  <2>2. d * t <= 0
    <3>1. -d \in Nat /\ (-d) * t \in Nat
      BY <1>1
    <3>. QED  BY <2>1, <3>1
  <2>. DEFINE p == d * t
  <2>3. p \in Int /\ p <= 0 /\ Magnitude(d) * t = -p
    BY <2>1, <2>2
  <2>. HIDE DEF p
  <2>4. Magnitude(i + p) <= bound + (-p)
    BY <2>3 DEF Magnitude
  <2>. QED  BY <2>3, <2>4 DEF p
<1>2. CASE d >= 0
  <2>. DEFINE p == d * t
  <2>1. Magnitude(d) = d /\ p \in Nat
    BY <1>2 DEF Magnitude
  <2>2. Magnitude(d) * t = p
    BY <2>1
  <2>. HIDE DEF p
  <2>3. Magnitude(i + p) <= bound + p
    BY <2>1 DEF Magnitude
  <2>. QED  BY <2>2, <2>3 DEF p
<1>. QED  BY <1>1, <1>2

LEMMA ProductOfSum ==
  ASSUME NEW a \in Int, NEW b \in Int, NEW t \in Int
  PROVE  a * t \in Int /\ b * t \in Int /\ b * t = a * t + (b - a) * t
OBVIOUS

LEMMA CarInvInit == CarInit => CarInv
<1>. SUFFICES ASSUME CarInit PROVE CarInv
  OBVIOUS
<1>1. CarTypeOK
  BY DEF CarInit, CarTypeOK, Twists, Still, Twist
<1>2. Magnitude(HeadingError) <= slack
  BY DEF CarInit, HeadingError, Magnitude, Still, Twist
<1>. QED  BY <1>1, <1>2 DEF CarInv

LEMMA KeyTwistType ==
  ASSUME NEW k \in DOMAIN KeyTwist
  PROVE  KeyTwist[k] \in Twists
BY SpeedAssumption DEF KeyTwist, Twist, Twists

LEMMA CarStep ==
  ASSUME CarInv, CarNext
  PROVE  CarInv'
<1>. USE DEF CarInv, CarTypeOK
<1>1. ASSUME NEW k \in DOMAIN KeyTwist \cup {"k"}, PressKey(k) PROVE CarInv'
  <2>1. cmd_vel' \in {<<>>} \cup {<<t>> : t \in Twists}
    BY <1>1, KeyTwistType DEF PressKey
  <2>. QED  BY <1>1, <2>1 DEF PressKey, HeadingError
<1>2. CASE EndKeyboard
  BY <1>2 DEF EndKeyboard, HeadingError
<1>3. CASE CmdVelCallback
  <2>. DEFINE dt == clock - last_update_time_
              dz == velocity'.z - velocity.z
  <2>1. PICK t \in Twists : cmd_vel = <<t>>
    BY <1>3 DEF CmdVelCallback
  <2>2. velocity' = t
    BY <1>3, <2>1 DEF CmdVelCallback
  <2>3. /\ velocity' \in Twists
        /\ dz \in Int /\ dt \in Nat
        /\ velocity.z \in Int /\ velocity'.z \in Int
        /\ pose.theta \in Int
    BY <2>2 DEF Twists
  <2>4. slack' = slack + Magnitude(dz) * dt
    BY <1>3 DEF CmdVelCallback
  <2>5. Magnitude(dz) * dt \in Nat
    <3>1. Magnitude(dz) \in Nat
      BY <2>3, MagnitudeType
    <3>. HIDE DEF dt, dz
    <3>. QED  BY <2>3, <3>1
  <2>6. UNCHANGED <<pose, last_update_time_, odom, clock, heading>> /\ cmd_vel' = <<>>
    BY <1>3 DEF CmdVelCallback
  <2>7. HeadingError' = HeadingError + dz * dt /\ HeadingError \in Int
    <3>1. /\ HeadingError = pose.theta + velocity.z * dt - heading
          /\ HeadingError' = pose.theta + velocity'.z * dt - heading
      BY <2>6 DEF HeadingError
    <3>. DEFINE v == velocity.z
                w == velocity'.z
                p == v * dt
                q == w * dt
                r == dz * dt
    <3>2. v \in Int /\ w \in Int /\ dt \in Int /\ dz = w - v
      BY <2>3
    <3>3. p \in Int /\ q \in Int /\ r \in Int /\ q = p + r
      <4>. HIDE DEF v, w, dt, dz
      <4>. QED  BY <3>2
    <3>4. heading \in Int /\ pose.theta \in Int
      BY <2>3
    <3>5. HeadingError = pose.theta + p - heading /\ HeadingError' = pose.theta + q - heading
      BY <3>1
    <3>6. HeadingError' = HeadingError + r /\ HeadingError \in Int
      <4>. HIDE DEF p, q, r
      <4>. QED  BY <3>3, <3>4, <3>5
    <3>. QED  BY <3>6
  <2>8. Magnitude(HeadingError + dz * dt) <= slack + Magnitude(dz) * dt
    <3>. HIDE DEF dt, dz
    <3>. QED  BY <2>3, <2>7, MagnitudeOfSum
  <2>9. slack' \in Nat
    BY <2>4, <2>5
  <2>10. Magnitude(HeadingError)' <= slack'
    <3>1. Magnitude(HeadingError)' = Magnitude(HeadingError + dz * dt)
      BY <2>7 DEF Magnitude
    <3>. QED  BY <2>4, <2>8, <3>1
  <2>. QED  BY <2>3, <2>6, <2>9, <2>10
<1>4. CASE JointStateCallback
  <2>. DEFINE dt == clock - last_update_time_
  <2>1. /\ velocity.z * dt \in Int /\ velocity.x * dt \in Int
        /\ pose.x \in Int /\ pose.y \in Int /\ pose.theta \in Int
        /\ velocity.z \in Int
    BY DEF Twists
  <2>2. /\ Along(pose.theta, velocity.x * dt).x \in Int
        /\ Along(pose.theta, velocity.x * dt).y \in Int
    <3>. HIDE DEF dt
    <3>1. \A q, d \in Int : Along(q, d) \in [x : Int, y : Int]
      BY DEF Along
    <3>. QED  BY <2>1, <3>1
  <2>3. /\ last_update_time_' = clock /\ UNCHANGED <<clock, velocity, heading, slack>>
        /\ pose' = Driven(dt)
    BY <1>4 DEF JointStateCallback
  <2>4. dt \in Nat /\ (~ (dt > 0) => velocity.z * dt = 0)
    <3>1. dt \in Nat
      OBVIOUS
    <3>2. velocity.z * 0 = 0
      BY <2>1
    <3>. HIDE DEF dt
    <3>. QED  BY <3>1, <3>2
  <2>5. /\ pose' \in [x : Int, y : Int, theta : Int]
        /\ pose'.theta = pose.theta + velocity.z * dt
    <3>1. CASE dt > 0
      <4>. DEFINE x == pose.x + Along(pose.theta, velocity.x * dt).x
                  y == pose.y + Along(pose.theta, velocity.x * dt).y
                  theta == pose.theta + velocity.z * dt
      <4>1. x \in Int /\ y \in Int /\ theta \in Int
        <5>. HIDE DEF dt
        <5>. QED  BY <2>1, <2>2
      <4>2. pose' = [x |-> x, y |-> y, theta |-> theta]
        BY <2>3, <3>1 DEF Driven
      <4>. HIDE DEF x, y
      <4>. QED  BY <4>1, <4>2
    <3>2. CASE ~ (dt > 0)
      <4>1. pose' = pose /\ velocity.z * dt = 0
        BY <2>3, <2>4, <3>2 DEF Driven
      <4>. HIDE DEF dt
      <4>. QED  BY <2>1, <4>1
    <3>. QED  BY <3>1, <3>2
  <2>6. HeadingError' = HeadingError
    <3>1. HeadingError' = pose'.theta + velocity.z * (clock - clock) - heading
      BY <2>3 DEF HeadingError
    <3>2. velocity.z * (clock - clock) = 0
      BY <2>1
    <3>. QED  BY <2>1, <2>5, <3>1, <3>2 DEF HeadingError
  <2>. QED  BY <1>4, <2>3, <2>5, <2>6 DEF JointStateCallback, Magnitude
<1>5. CASE PublishOdom
  BY <1>5 DEF PublishOdom, HeadingError
<1>6. CASE Drive
  <2>1. /\ velocity.z \in Int /\ pose.theta \in Int
        /\ velocity.z * (clock - last_update_time_) \in Int
    BY DEF Twists
  <2>2. velocity.z * (clock + 1 - last_update_time_)
          = velocity.z * (clock - last_update_time_) + velocity.z
    BY <2>1
  <2>3. UNCHANGED <<cmd_vel, velocity, pose, last_update_time_, odom, slack>>
        /\ clock' = clock + 1 /\ heading' = heading + velocity.z
    BY <1>6 DEF Drive
  <2>4. HeadingError' = HeadingError
    BY <2>1, <2>2, <2>3 DEF HeadingError
  <2>. QED  BY <2>1, <2>3, <2>4 DEF Magnitude
<1>. QED  BY <1>1, <1>2, <1>3, <1>4, <1>5, <1>6 DEF CarNext

LEMMA GuessStep ==
  ASSUME CarTypeOK, GuessInv, NEW there \in BOOLEAN, ReceiveCloud(there)
  PROVE  GuessInv'
<1>. DEFINE odom_mat == IF there THEN odom.theta ELSE 0
<1>1. odom.theta \in Int /\ odom_mat \in Int
  BY DEF CarTypeOK
<1>2. /\ sim_trans' = Guess(odom_mat) /\ previous_odom_mat_' = odom_mat
      /\ \E c \in Corrections : corrent_pose' = sim_trans' + c
      /\ expected' = corrent_pose + odom.theta - known[2].odom
      /\ known' = <<known[2], [there |-> there, odom |-> odom.theta]>>
  BY DEF ReceiveCloud
<1>3. sim_trans' \in Int /\ corrent_pose' \in Int
  BY <1>1, <1>2, CorrectionsAssumption DEF Guess, GuessInv
<1>4. /\ known[2] \in [there : BOOLEAN, odom : Int]
      /\ known'[1] = known[2] /\ known'[2] = [there |-> there, odom |-> odom.theta]
      /\ known' \in [1 .. 2 -> [there : BOOLEAN, odom : Int]]
  <2>1. known[2] \in [there : BOOLEAN, odom : Int]
    BY DEF GuessInv
  <2>. QED  BY <1>1, <1>2, <2>1
<1>5. previous_odom_mat_' = IF known'[2].there THEN known'[2].odom ELSE 0
  BY <1>2, <1>4
<1>6. GuessFollowsOdom'
  <2>. SUFFICES ASSUME known'[1].there, known'[1].odom # 0, known'[2].there
                PROVE  sim_trans' = expected'
    BY DEF GuessFollowsOdom
  <2>1. previous_odom_mat_ = known[2].odom /\ previous_odom_mat_ # 0 /\ there
    BY <1>4 DEF GuessInv
  <2>2. corrent_pose \in Int /\ previous_odom_mat_ \in Int
    BY DEF GuessInv
  <2>. QED  BY <1>1, <1>2, <2>1, <2>2 DEF Guess
<1>. QED  BY <1>1, <1>2, <1>3, <1>4, <1>5, <1>6 DEF GuessInv

------------------------------------------------------------------------------
(* Induction over the natural numbers, for a set of them.                  *)
LEMMA Least ==
  ASSUME NEW T \in SUBSET Nat, T # {}
  PROVE  \E m \in T : \A n \in T : m <= n
<1>. DEFINE R == OpToRel(<, Nat)
<1>1. PICK m \in T : \A n \in T : ~ (<<n, m>> \in R)
  <2>1. IsWellFoundedOn(R, Nat)
    BY NatLessThanWellFounded
  <2>. HIDE DEF R
  <2>. QED  BY <2>1, WFMin
<1>2. ASSUME NEW n \in T PROVE m <= n
  <2>1. m \in Nat /\ n \in Nat
    OBVIOUS
  <2>2. <<n, m>> \in R <=> n < m
    BY <2>1 DEF OpToRel
  <2>. HIDE DEF R
  <2>3. ~ (n < m)
    BY <1>1, <2>2
  <2>. QED  BY <2>1, <2>3
<1>. QED  BY <1>2

LEMMA Inductive ==
  ASSUME NEW T, 0 \in T, \A n \in Nat : n \in T => n + 1 \in T
  PROVE  \A n \in Nat : n \in T
<1>. DEFINE Out == {n \in Nat : n \notin T}
<1>. SUFFICES ASSUME Out # {} PROVE FALSE
  OBVIOUS
<1>1. PICK m \in Out : \A n \in Out : m <= n
  <2>1. Out \in SUBSET Nat
    OBVIOUS
  <2>. HIDE DEF Out
  <2>. QED  BY <2>1, Least
<1>2. m \in Nat /\ m # 0 /\ m - 1 \in Nat
  OBVIOUS
<1>3. m - 1 \in T
  <2>1. CASE m - 1 \in Out
    <3>1. m <= m - 1
      BY <1>1, <2>1
    <3>. QED  BY <1>2, <3>1
  <2>2. CASE m - 1 \notin Out
    BY <1>2, <2>2
  <2>. QED  BY <2>1, <2>2
<1>4. (m - 1) + 1 \in T
  BY <1>2, <1>3
<1>5. (m - 1) + 1 = m
  BY <1>2
<1>. QED  BY <1>1, <1>4, <1>5

(* A function that is defined along 0 .. N by a step on a set exists.      *)
Follows(f, base, F, N) == f[0] = base /\ \A n \in 1 .. N : f[n] = F[<<f[n - 1], n>>]

LEMMA Recursion ==
  ASSUME NEW N \in Nat, NEW S, NEW base \in S, NEW F \in [S \X (1 .. N) -> S]
  PROVE  \E f \in [0 .. N -> S] : Follows(f, base, F, N)
<1>. DEFINE Defined(m) ==
              \E f \in [0 .. m -> S] :
                /\ f[0] = base
                /\ \A n \in 1 .. m : f[n] = F[<<f[n - 1], n>>]
            T == {m \in Nat : m <= N => Defined(m)}
<1>1. 0 \in T
  <2>. DEFINE f == [n \in 0 .. 0 |-> base]
  <2>1. f \in [0 .. 0 -> S] /\ f[0] = base /\ \A n \in 1 .. 0 : f[n] = F[<<f[n - 1], n>>]
    OBVIOUS
  <2>. QED  BY <2>1
<1>2. ASSUME NEW m \in Nat, m \in T PROVE m + 1 \in T
  <2>. SUFFICES ASSUME m + 1 <= N PROVE Defined(m + 1)
    OBVIOUS
  <2>1. PICK f \in [0 .. m -> S] :
          /\ f[0] = base
          /\ \A n \in 1 .. m : f[n] = F[<<f[n - 1], n>>]
    BY <1>2
  <2>. DEFINE g == [n \in 0 .. m + 1 |-> IF n = m + 1 THEN F[<<f[m], m + 1>>] ELSE f[n]]
  <2>2. F[<<f[m], m + 1>>] \in S
    OBVIOUS
  <2>3. g \in [0 .. m + 1 -> S] /\ g[0] = base
    BY <2>1, <2>2
  <2>4. ASSUME NEW n \in 1 .. m + 1 PROVE g[n] = F[<<g[n - 1], n>>]
    <3>1. CASE n = m + 1
      <4>1. g[n] = F[<<f[m], m + 1>>] /\ g[n - 1] = f[m]
        BY <3>1
      <4>. QED  BY <3>1, <4>1
    <3>2. CASE n \in 1 .. m
      <4>1. g[n] = f[n] /\ g[n - 1] = f[n - 1]
        BY <3>2
      <4>. QED  BY <2>1, <3>2, <4>1
    <3>. QED  BY <3>1, <3>2
  <2>. HIDE DEF g
  <2>. QED  BY <2>3, <2>4
<1>3. \A n \in Nat : n \in T
  <2>. HIDE DEF T
  <2>. QED  BY <1>1, <1>2, Inductive
<1>4. Defined(N)
  BY <1>3
<1>. QED  BY <1>4 DEF Follows

------------------------------------------------------------------------------
(* The scans of the simulated lidar.                                       *)

LidarTypeOK ==
  /\ plugin \in {"new", "idle", "loaded", "stray"}
  /\ aviaInfos \in Nat /\ samplesStep \in Nat /\ downSample \in Nat \ {0}
  /\ currStartIndex \in Nat /\ scans \in Nat

(* The directions that come first in the pattern, as often as it repeats.  *)
FirstDirections(n) == {k % aviaInfos : k \in 0 .. n - 1}

PatternInv ==
  /\ plugin = "new" => currStartIndex = 0 /\ scans = 0 /\ seen = {}
  /\ plugin = "loaded" =>
       /\ rays = RayCount(samplesStep, downSample)
       /\ aviaInfos = 0 => samplesStep = 0
       /\ currStartIndex = scans * samplesStep
       /\ downSample = 1 => seen = FirstDirections(currStartIndex)
  /\ (plugin = "stray" /\ aviaInfos > 0) =>
       currStartIndex + samplesStep + downSample > IntMax

NearestEcho(p) ==
  LET d == p.direction
      hit == {b \in Bodies : d \in DOMAIN b.depth /\ b.depth[d] < MaxRange - MinRange}
      echo == {b \in hit : \A c \in hit : b.depth[d] <= c.depth[d]}
  IN IF hit = {} THEN p.range = 0
     ELSE \E b \in echo :
            /\ p.intensity = b.retro
            /\ p.range = IF b.depth[d] = 0 THEN 0 ELSE MinRange + b.depth[d]

LidarInv ==
  /\ LidarTypeOK
  /\ PatternInv
  /\ EchoIsNearest

(* The rays of a scan: as many as there are samples for.                   *)
LEMMA RayCountIs ==
  ASSUME NEW s \in Nat, NEW d \in Nat \ {0}
  PROVE  /\ RayCount(s, d) \in Nat
         /\ RayCount(s, d) * d <= s + d - 1
         /\ d = 1 => RayCount(s, d) = s
<1>. DEFINE a == s + d - 1
            q == a \div d
<1>1. a \in Nat
  OBVIOUS
<1>2. q \in Int /\ a % d \in 0 .. d - 1 /\ a = q * d + (a % d)
  <2>. HIDE DEF a
  <2>. QED  BY <1>1
<1>3. q >= 0
  <2>. HIDE DEF a
  <2>. QED  BY <1>1
<1>4. q * d <= a
  <2>. HIDE DEF a, q
  <2>. QED  BY <1>1, <1>2
<1>5. d = 1 => q = s
  OBVIOUS
<1>. QED  BY <1>2, <1>3, <1>4, <1>5 DEF RayCount

LEMMA MinOfSame ==
  ASSUME NEW n \in Nat
  PROVE  Min({n, n}) = n
BY DEF Min

LEMMA DownSampleType ==
  ASSUME NEW d \in Int
  PROVE  Max({1, d}) \in Nat \ {0}
<1>. DEFINE S == {1, d}
<1>1. \E x \in S : \A y \in S : x >= y
  <2>1. CASE d <= 1
    BY <2>1
  <2>2. CASE d > 1
    BY <2>2
  <2>. QED  BY <2>1, <2>2
<1>2. Max(S) \in S /\ \A y \in S : Max(S) >= y
  <2>. HIDE DEF S
  <2>. QED  BY <1>1 DEF Max
<1>. QED  BY <1>2

LEMMA RotateInfosType ==
  ASSUME NEW file \in PatternFiles
  PROVE  RotateInfos(file) \in Nat
<1>. DEFINE S == {i \in DOMAIN file : file[i] = "three numbers"}
<1>1. file \in Seq(STRING)
  BY LidarAssumption
<1>2. DOMAIN file = 1 .. Len(file) /\ Len(file) \in Nat
  BY <1>1, LenProperties
<1>3. IsFiniteSet(1 .. Len(file)) /\ S \in SUBSET (1 .. Len(file))
  <2>1. 1 \in Int /\ Len(file) \in Int
    BY <1>2
  <2>2. IsFiniteSet(1 .. Len(file))
    BY <2>1, FS_Interval
  <2>. QED  BY <1>2, <2>2
<1>. HIDE DEF S
<1>4. IsFiniteSet(S)
  BY <1>3, FS_Subset
<1>5. Cardinality(S) \in Nat
  BY <1>4, FS_CardinalityType
<1>. QED  BY <1>5 DEF RotateInfos, S

(* An index that fits an int is not changed.                               *)
LEMMA NarrowedIs ==
  ASSUME NEW k \in Nat, k <= IntMax
  PROVE  Narrowed(k) = k
<1>. DEFINE h == IntMax + 1
<1>1. h \in Nat \ {0} /\ k + h \in 0 .. 2 * h - 1
  BY LidarAssumption
<1>2. (k + h) % (2 * h) = k + h
  <2>. HIDE DEF h
  <2>. QED  BY <1>1
<1>3. k + IntMax + 1 = k + h
  BY LidarAssumption
<1>. QED  BY <1>1, <1>2, <1>3 DEF Narrowed

(* The loop runs over the indices one step of the pattern covers.          *)
LEMMA LoopIndices ==
  ASSUME LidarTypeOK, NEW i \in 1 .. LoopLength + 1
  PROVE  /\ currStartIndex + (i - 1) * downSample \in Nat
         /\ currStartIndex + (i - 1) * downSample
              <= currStartIndex + samplesStep + downSample - 1
<1>1. /\ samplesStep \in Nat /\ downSample \in Nat \ {0} /\ currStartIndex \in Nat
  BY DEF LidarTypeOK
<1>2. /\ LoopLength \in Nat
      /\ LoopLength * downSample <= samplesStep + downSample - 1
  BY <1>1, RayCountIs DEF LoopLength
<1>. DEFINE j == i - 1
            x == j * downSample
            y == LoopLength * downSample
<1>3. j \in Nat /\ LoopLength - j \in Nat
  BY <1>2
<1>4. x \in Nat /\ (LoopLength - j) * downSample \in Nat
      /\ y = x + (LoopLength - j) * downSample
  <2>. HIDE DEF j
  <2>. QED  BY <1>1, <1>2, <1>3
<1>. HIDE DEF x
<1>5. x <= samplesStep + downSample - 1
  <2>. DEFINE z == (LoopLength - j) * downSample
  <2>1. z \in Nat /\ y = x + z /\ y <= samplesStep + downSample - 1
    BY <1>2, <1>4
  <2>. HIDE DEF z, y
  <2>. QED  BY <1>1, <1>4, <2>1
<1>6. currStartIndex + x \in Nat
      /\ currStartIndex + x <= currStartIndex + samplesStep + downSample - 1
  BY <1>1, <1>4, <1>5
<1>. QED  BY <1>6 DEF x

(* Only an index that does not fit an int strays.                          *)
LEMMA StrayIndex ==
  ASSUME LidarTypeOK, LoopStrays
  PROVE  currStartIndex + samplesStep + downSample > IntMax
<1>1. PICK i \in 1 .. LoopLength + 1 : LoopK[i] # currStartIndex + (i - 1) * downSample
  BY DEF LoopStrays
<1>. DEFINE k == currStartIndex + (i - 1) * downSample
<1>2. k \in Nat /\ k <= currStartIndex + samplesStep + downSample - 1
  BY LoopIndices
<1>3. LoopK[i] = Narrowed(k)
  BY DEF LoopK
<1>. HIDE DEF k
<1>4. IntMax \in Nat
  BY LidarAssumption
<1>5. ~ (k <= IntMax)
  BY <1>1, <1>2, <1>3, NarrowedIs DEF k
<1>. QED  BY <1>2, <1>4, <1>5 DEF LidarTypeOK

(* A scan without down-sampling takes the next directions of the pattern.  *)
LEMMA ScanCovers ==
  ASSUME LidarTypeOK, ~LoopStrays, rays = RayCount(samplesStep, downSample),
         downSample = 1
  PROVE  FirstDirections(currStartIndex) \cup Range(Directions)
           = FirstDirections(currStartIndex + samplesStep)
<1>1. /\ samplesStep \in Nat /\ currStartIndex \in Nat
      /\ LoopLength = samplesStep /\ rays = samplesStep
  BY RayCountIs DEF LidarTypeOK, LoopLength
<1>2. Min({LoopLength, rays}) = samplesStep
  BY <1>1, MinOfSame
<1>3. Directions = [i \in 1 .. samplesStep |-> LoopK[i] % aviaInfos]
  BY <1>2 DEF Directions
<1>4. ASSUME NEW i \in 1 .. samplesStep
      PROVE  LoopK[i] = currStartIndex + i - 1
  <2>1. i \in 1 .. LoopLength + 1
    BY <1>1
  <2>2. LoopK[i] = currStartIndex + (i - 1) * 1
    BY <2>1 DEF LoopStrays
  <2>. QED  BY <1>1, <2>2
<1>5. Range(Directions) = {(currStartIndex + i - 1) % aviaInfos : i \in 1 .. samplesStep}
  BY <1>3, <1>4 DEF Range
<1>6. {(currStartIndex + i - 1) % aviaInfos : i \in 1 .. samplesStep}
        = {k % aviaInfos : k \in currStartIndex .. currStartIndex + samplesStep - 1}
  <2>1. ASSUME NEW i \in 1 .. samplesStep
        PROVE  currStartIndex + i - 1 \in currStartIndex .. currStartIndex + samplesStep - 1
    BY <1>1
  <2>2. ASSUME NEW k \in currStartIndex .. currStartIndex + samplesStep - 1
        PROVE  \E i \in 1 .. samplesStep : k = currStartIndex + i - 1
    <3>1. k - currStartIndex + 1 \in 1 .. samplesStep
      BY <1>1
    <3>2. k = currStartIndex + (k - currStartIndex + 1) - 1
      BY <1>1
    <3>. QED  BY <3>1, <3>2
  <2>. QED  BY <2>1, <2>2
<1>7. 0 .. (currStartIndex + samplesStep) - 1
        = (0 .. currStartIndex - 1) \cup (currStartIndex .. currStartIndex + samplesStep - 1)
  BY <1>1
<1>. DEFINE A == 0 .. currStartIndex - 1
            B == currStartIndex .. currStartIndex + samplesStep - 1
            C == 0 .. (currStartIndex + samplesStep) - 1
<1>8. {k % aviaInfos : k \in A} \cup {k % aviaInfos : k \in B} = {k % aviaInfos : k \in C}
  <2>1. C = A \cup B
    BY <1>7
  <2>. HIDE DEF A, B, C
  <2>. QED  BY <2>1, Zenon
<1>9. FirstDirections(currStartIndex) = {k % aviaInfos : k \in A}
  BY Zenon DEF FirstDirections
<1>10. FirstDirections(currStartIndex + samplesStep) = {k % aviaInfos : k \in C}
  BY Zenon DEF FirstDirections
<1>11. Range(Directions) = {k % aviaInfos : k \in B}
  BY <1>5, <1>6, Zenon
<1>. HIDE DEF A, B, C
<1>. QED  BY <1>8, <1>9, <1>10, <1>11, Zenon

(* The ray of a direction after the first n bodies.                        *)
Rays == [length : Nat, retro : {0} \cup {b.retro : b \in Bodies}]
FullRay == [length |-> MaxRange - MinRange, retro |-> 0]

(* A full ray hit nothing; another one is as long as the nearest hit.      *)
NearestOf(bodies, n, d, ray) ==
  /\ ray.length <= MaxRange - MinRange
  /\ \A i \in 1 .. n : d \in DOMAIN bodies[i].depth => ray.length <= bodies[i].depth[d]
  /\ \/ ray = FullRay
     \/ \E i \in 1 .. n :
          /\ d \in DOMAIN bodies[i].depth
          /\ ray.length = bodies[i].depth[d]
          /\ ray.length < MaxRange - MinRange
          /\ ray.retro = bodies[i].retro

LEMMA FullRayType == FullRay \in Rays
BY LidarAssumption DEF FullRay, Rays

LEMMA UpdateCallbackType ==
  ASSUME NEW ray \in Rays, NEW b \in Bodies, NEW d
  PROVE  UpdateCallback(ray, b, d) \in Rays
BY LidarAssumption DEF UpdateCallback, Rays

(* A body that is hit nearer takes the ray.                                *)
LEMMA NearestStep ==
  ASSUME NEW n \in Nat, NEW bodies \in [1 .. n + 1 -> Bodies], NEW d, NEW ray \in Rays,
         NearestOf(bodies, n, d, ray)
  PROVE  NearestOf(bodies, n + 1, d, UpdateCallback(ray, bodies[n + 1], d))
<1>. DEFINE b == bodies[n + 1]
            r == UpdateCallback(ray, b, d)
<1>1. b \in Bodies /\ n + 1 \in 1 .. n + 1 /\ \A i \in 1 .. n : i \in 1 .. n + 1
  OBVIOUS
<1>2. /\ MaxRange - MinRange \in Nat
      /\ \A i \in 1 .. n + 1 : \A e \in DOMAIN bodies[i].depth : bodies[i].depth[e] \in Nat
      /\ ray.length \in Nat
  BY LidarAssumption DEF Rays
<1>3. CASE d \in DOMAIN b.depth /\ b.depth[d] < ray.length
  <2>1. r = [length |-> b.depth[d], retro |-> b.retro]
    BY <1>3 DEF UpdateCallback
  <2>2. r.length = b.depth[d] /\ r.retro = b.retro /\ b.depth[d] \in Nat
    BY <1>2, <1>3, <2>1
  <2>3. r.length < MaxRange - MinRange
    BY <1>2, <1>3, <2>2 DEF NearestOf
  <2>4. ASSUME NEW i \in 1 .. n + 1, d \in DOMAIN bodies[i].depth
        PROVE  r.length <= bodies[i].depth[d]
    <3>1. CASE i = n + 1
      BY <2>2, <3>1
    <3>2. CASE i \in 1 .. n
      <4>1. ray.length <= bodies[i].depth[d] /\ bodies[i].depth[d] \in Nat
        BY <1>2, <2>4, <3>2 DEF NearestOf
      <4>. QED  BY <1>2, <1>3, <2>2, <4>1
    <3>. QED  BY <3>1, <3>2
  <2>5. NearestOf(bodies, n + 1, d, r)
    <3>. HIDE DEF r
    <3>. QED  BY <1>1, <1>2, <1>3, <2>2, <2>3, <2>4 DEF NearestOf
  <2>. QED  BY <2>5
<1>4. CASE ~(d \in DOMAIN b.depth /\ b.depth[d] < ray.length)
  <2>1. r = ray
    BY <1>4 DEF UpdateCallback
  <2>2. ASSUME NEW i \in 1 .. n + 1, d \in DOMAIN bodies[i].depth
        PROVE  ray.length <= bodies[i].depth[d]
    <3>1. CASE i = n + 1
      BY <1>2, <1>4, <2>2, <3>1
    <3>2. CASE i \in 1 .. n
      BY <2>2, <3>2 DEF NearestOf
    <3>. QED  BY <3>1, <3>2
  <2>3. NearestOf(bodies, n + 1, d, ray)
    BY <1>1, <2>2 DEF NearestOf
  <2>. QED  BY <2>1, <2>3
<1>. QED  BY <1>3, <1>4

(* In whatever order the bodies come, the ray ends at the nearest of them. *)
LEMMA RayIsNearest ==
  ASSUME NEW N \in Nat, NEW bodies \in [1 .. N -> Bodies], Len(bodies) = N, NEW d
  PROVE  /\ UpdateRays(bodies, d) \in Rays
         /\ NearestOf(bodies, N, d, UpdateRays(bodies, d))
<1>. DEFINE F == [x \in Rays \X (1 .. N) |-> UpdateCallback(x[1], bodies[x[2]], d)]
            Step(f) == [n \in 0 .. N |-> IF n = 0 THEN FullRay
                                         ELSE UpdateCallback(f[n - 1], bodies[n], d)]
            ray == CHOOSE f : f = Step(f)
<1>1. UpdateRays(bodies, d) = ray[N]
  BY Zenon DEF UpdateRays, FullRay
<1>2. \E f : f = Step(f)
  <2>1. F \in [Rays \X (1 .. N) -> Rays]
    BY UpdateCallbackType
  <2>. HIDE DEF F
  <2>2. PICK f \in [0 .. N -> Rays] : Follows(f, FullRay, F, N)
    BY <2>1, FullRayType, Recursion
  <2>3. ASSUME NEW n \in 1 .. N
        PROVE  F[<<f[n - 1], n>>] = UpdateCallback(f[n - 1], bodies[n], d)
    <3>1. f[n - 1] \in Rays
      OBVIOUS
    <3>. QED  BY <3>1 DEF F
  <2>4. \A n \in 0 .. N : f[n] = IF n = 0 THEN FullRay
                                  ELSE UpdateCallback(f[n - 1], bodies[n], d)
    <3>1. \A n \in 0 .. N : n = 0 \/ n \in 1 .. N
      OBVIOUS
    <3>. QED  BY <2>2, <2>3, <3>1 DEF Follows
  <2>5. f = Step(f)
    BY <2>4
  <2>. QED  BY <2>5
<1>3. ray = Step(ray)
  <2>. HIDE DEF Step
  <2>. QED  BY <1>2
<1>. HIDE DEF ray
<1>4. ray[0] = FullRay
  BY <1>3
<1>5. \A n \in 1 .. N : ray[n] = UpdateCallback(ray[n - 1], bodies[n], d)
  BY <1>3
<1>. DEFINE T == {n \in Nat : n <= N => ray[n] \in Rays /\ NearestOf(bodies, n, d, ray[n])}
<1>6. 0 \in T
  <2>1. NearestOf(bodies, 0, d, FullRay)
    BY LidarAssumption DEF NearestOf, FullRay
  <2>. QED  BY <1>4, <2>1, FullRayType
<1>7. ASSUME NEW n \in Nat, n \in T PROVE n + 1 \in T
  <2>. SUFFICES ASSUME n + 1 <= N
                PROVE  ray[n + 1] \in Rays /\ NearestOf(bodies, n + 1, d, ray[n + 1])
    OBVIOUS
  <2>1. ray[n] \in Rays /\ NearestOf(bodies, n, d, ray[n])
    BY <1>7
  <2>2. n + 1 \in 1 .. N /\ ray[n + 1] = UpdateCallback(ray[n], bodies[n + 1], d)
    BY <1>5
  <2>3. bodies[n + 1] \in Bodies
    BY <2>2
  <2>. DEFINE some == [i \in 1 .. n + 1 |-> bodies[i]]
  <2>4. some \in [1 .. n + 1 -> Bodies] /\ some[n + 1] = bodies[n + 1]
        /\ \A i \in 1 .. n + 1 : some[i] = bodies[i]
    BY <2>2
  <2>. HIDE DEF some
  <2>5. NearestOf(some, n, d, ray[n])
    <3>1. \A i \in 1 .. n : some[i] = bodies[i]
      BY <2>4
    <3>. QED  BY <2>1, <3>1 DEF NearestOf
  <2>6. NearestOf(some, n + 1, d, UpdateCallback(ray[n], some[n + 1], d))
    BY <2>1, <2>4, <2>5, NearestStep
  <2>7. NearestOf(bodies, n + 1, d, ray[n + 1])
    BY <2>2, <2>4, <2>6 DEF NearestOf
  <2>. QED  BY <2>1, <2>2, <2>3, <2>7, UpdateCallbackType
<1>8. \A n \in Nat : n \in T
  <2>. HIDE DEF T
  <2>. QED  BY <1>6, <1>7, Inductive
<1>. QED  BY <1>1, <1>8

(* A sequence of all the bodies meets each of them.                        *)
LEMMA BodiesComplete ==
  ASSUME NEW bodies \in SetToSeqs(Bodies)
  PROVE  /\ Len(bodies) = Cardinality(Bodies) /\ Cardinality(Bodies) \in Nat
         /\ bodies \in [1 .. Cardinality(Bodies) -> Bodies]
         /\ \A b \in Bodies : \E i \in 1 .. Cardinality(Bodies) : bodies[i] = b
<1>. DEFINE n == Cardinality(Bodies)
<1>1. n \in Nat /\ IsFiniteSet(Bodies)
  BY LidarAssumption, FS_CardinalityType
<1>2. bodies \in [1 .. n -> Bodies] /\ \A i, j \in 1 .. n : i # j => bodies[i] # bodies[j]
  BY DEF SetToSeqs
<1>3. bodies \in Injection(1 .. n, Bodies)
  BY <1>2 DEF Injection, IsInjective
<1>4. Cardinality(1 .. n) = n
  <2>1. 1 \in Int /\ n \in Int
    BY <1>1
  <2>2. Cardinality(1 .. n) = IF 1 > n THEN 0 ELSE n - 1 + 1
    BY <2>1, FS_Interval
  <2>. QED  BY <1>1, <2>2
<1>5. bodies \in Surjection(1 .. n, Bodies)
  BY <1>1, <1>3, <1>4, FS_Injection
<1>6. Len(bodies) = n
  BY <1>1, <1>2
<1>. QED  BY <1>1, <1>2, <1>5, <1>6 DEF Surjection

LEMMA PointIsNearest ==
  ASSUME NEW bodies \in SetToSeqs(Bodies), NEW d
  PROVE  NearestEcho(Point(bodies, d))
<1>. DEFINE N == Cardinality(Bodies)
            ray == UpdateRays(bodies, d)
            range == MinRange + ray.length
            hit == {b \in Bodies : d \in DOMAIN b.depth /\ b.depth[d] < MaxRange - MinRange}
            echo == {b \in hit : \A c \in hit : b.depth[d] <= c.depth[d]}
<1>1. /\ N \in Nat /\ bodies \in [1 .. N -> Bodies]
      /\ \A b \in Bodies : \E i \in 1 .. N : bodies[i] = b
      /\ ray \in Rays /\ NearestOf(bodies, N, d, ray)
  <2>1. /\ Len(bodies) = N /\ N \in Nat /\ bodies \in [1 .. N -> Bodies]
        /\ \A b \in Bodies : \E i \in 1 .. N : bodies[i] = b
    BY BodiesComplete
  <2>. HIDE DEF N
  <2>. QED  BY <2>1, RayIsNearest
<1>2. Point(bodies, d) =
        [direction |-> d,
         range |-> IF range >= MaxRange \/ range <= MinRange THEN 0 ELSE range,
         intensity |-> ray.retro]
  BY DEF Point
<1>. HIDE DEF N, ray
<1>3. /\ MinRange \in Nat /\ MaxRange \in Nat /\ MaxRange - MinRange \in Nat
      /\ ray.length \in Nat
  BY <1>1, LidarAssumption DEF Rays
<1>4. \A b \in hit : ray.length <= b.depth[d]
  BY <1>1 DEF NearestOf
<1>5. CASE ray = FullRay
  <2>1. hit = {}
    <3>. SUFFICES ASSUME NEW b \in hit PROVE FALSE
      OBVIOUS
    <3>1. ray.length <= b.depth[d] /\ b.depth[d] < MaxRange - MinRange /\ b.depth[d] \in Nat
      BY <1>4, LidarAssumption
    <3>. QED  BY <1>3, <1>5, <3>1 DEF FullRay
  <2>2. range = MaxRange
    BY <1>3, <1>5 DEF FullRay
  <2>3. Point(bodies, d).range = 0 /\ Point(bodies, d).direction = d
    BY <1>2, <1>3, <2>2
  <2>. QED  BY <2>1, <2>3 DEF NearestEcho
<1>6. ASSUME NEW i \in 1 .. N, d \in DOMAIN bodies[i].depth,
             ray.length = bodies[i].depth[d], ray.length < MaxRange - MinRange,
             ray.retro = bodies[i].retro
      PROVE  NearestEcho(Point(bodies, d))
  <2>. DEFINE b == bodies[i]
  <2>1. b \in hit /\ b \in echo
    BY <1>1, <1>4, <1>6
  <2>2. /\ Point(bodies, d).direction = d
        /\ Point(bodies, d).intensity = b.retro
        /\ Point(bodies, d).range = IF b.depth[d] = 0 THEN 0 ELSE MinRange + b.depth[d]
    <3>1. range < MaxRange /\ (range <= MinRange <=> ray.length = 0)
      BY <1>3, <1>6
    <3>2. range = MinRange + b.depth[d]
      BY <1>6
    <3>. QED  BY <1>2, <1>3, <1>6, <3>1, <3>2
  <2>. HIDE DEF b
  <2>3. hit # {}
    BY <2>1
  <2>. QED  BY <2>1, <2>2, <2>3 DEF NearestEcho
<1>. QED  BY <1>1, <1>5, <1>6 DEF NearestOf

LEMMA LidarInvInit == LidarInit => LidarInv
<1>. SUFFICES ASSUME LidarInit PROVE LidarInv
  OBVIOUS
<1>1. LidarTypeOK /\ PatternInv
  BY DEF LidarInit, LidarTypeOK, PatternInv
<1>2. DOMAIN points = {}
  BY DEF LidarInit
<1>3. EchoIsNearest
  BY <1>2 DEF EchoIsNearest
<1>. QED  BY <1>1, <1>3 DEF LidarInv

LEMMA LoadStep ==
  ASSUME LidarInv, NEW file \in PatternFiles, NEW samples \in SampleCounts,
         NEW down \in DownSamples, Load(file, samples, down)
  PROVE  LidarInv'
<1>1. /\ plugin = "new"
      /\ plugin' = IF file = NoPattern THEN "idle"
                   ELSE IF RotateInfos(file) = 0 /\ samples > 0 THEN "stray" ELSE "loaded"
      /\ aviaInfos' = IF file = NoPattern THEN 0 ELSE RotateInfos(file)
      /\ samplesStep' = samples
      /\ downSample' = Max({1, down})
      /\ rays' = IF file = NoPattern THEN 0 ELSE RayCount(samples, downSample')
      /\ UNCHANGED <<currStartIndex, points, scans, seen>>
  BY DEF Load
<1>2. /\ samples \in Nat
      /\ Max({1, down}) \in Nat \ {0}
      /\ RotateInfos(file) \in Nat
  BY LidarAssumption, DownSampleType, RotateInfosType
<1>3. currStartIndex = 0 /\ scans = 0 /\ seen = {}
  BY <1>1 DEF LidarInv, PatternInv
<1>4. LidarTypeOK'
  BY <1>1, <1>2 DEF LidarInv, LidarTypeOK
<1>5. PatternInv'
  <2>1. CASE file # NoPattern /\ plugin' = "loaded"
    <3>1. /\ rays' = RayCount(samplesStep', downSample')
          /\ aviaInfos' = 0 => samplesStep' = 0
          /\ currStartIndex' = scans' * samplesStep'
      BY <1>1, <1>2, <1>3, <2>1
    <3>2. seen' = {} /\ FirstDirections(currStartIndex)' = {}
      BY <1>1, <1>3 DEF FirstDirections
    <3>. QED  BY <2>1, <3>1, <3>2 DEF PatternInv
  <2>2. CASE plugin' # "loaded"
    <3>1. plugin' = "stray" => aviaInfos' = 0
      BY <1>1
    <3>2. plugin' # "new"
      BY <1>1
    <3>. QED  BY <2>2, <3>1, <3>2 DEF PatternInv
  <2>. QED  BY <1>1, <2>1, <2>2
<1>6. EchoIsNearest'
  BY <1>1 DEF LidarInv, EchoIsNearest
<1>. QED  BY <1>4, <1>5, <1>6 DEF LidarInv

LEMMA ScanStep ==
  ASSUME LidarInv, OnNewLaserScans
  PROVE  LidarInv'
<1>1. /\ plugin \in {"idle", "loaded"}
      /\ scans' = scans + 1
      /\ UNCHANGED <<aviaInfos, samplesStep, downSample, rays>>
  BY DEF OnNewLaserScans
<1>2. /\ LidarTypeOK /\ PatternInv
      /\ aviaInfos \in Nat /\ samplesStep \in Nat /\ downSample \in Nat \ {0}
      /\ currStartIndex \in Nat /\ scans \in Nat
  BY DEF LidarInv, LidarTypeOK
<1>3. CASE plugin = "idle"
  <2>1. UNCHANGED <<plugin, currStartIndex, points, seen>>
    BY <1>3 DEF OnNewLaserScans
  <2>. QED
    BY <1>1, <1>2, <1>3, <2>1 DEF LidarInv, LidarTypeOK, PatternInv, EchoIsNearest
<1>4. CASE plugin = "loaded" /\ LoopStrays
  <2>1. plugin' = "stray" /\ UNCHANGED <<currStartIndex, points, seen>>
    BY <1>4 DEF OnNewLaserScans
  <2>2. currStartIndex + samplesStep + downSample > IntMax
    BY <1>2, <1>4, StrayIndex
  <2>3. LidarTypeOK'
    BY <1>1, <1>2, <2>1 DEF LidarTypeOK
  <2>4. PatternInv'
    BY <1>1, <2>1, <2>2 DEF PatternInv
  <2>5. EchoIsNearest'
    BY <2>1 DEF LidarInv, EchoIsNearest
  <2>. QED  BY <2>3, <2>4, <2>5 DEF LidarInv
<1>5. CASE plugin = "loaded" /\ ~LoopStrays
  <2>1. /\ plugin' = "loaded"
        /\ \E bodies \in SetToSeqs(Bodies) :
             points' = [i \in DOMAIN Directions |-> Point(bodies, Directions[i])]
        /\ seen' = seen \cup Range(Directions)
        /\ currStartIndex' = currStartIndex + samplesStep
    BY <1>5 DEF OnNewLaserScans
  <2>2. LidarTypeOK'
    BY <1>1, <1>2, <2>1 DEF LidarTypeOK
  <2>3. /\ rays = RayCount(samplesStep, downSample)
        /\ aviaInfos = 0 => samplesStep = 0
        /\ currStartIndex = scans * samplesStep
        /\ downSample = 1 => seen = FirstDirections(currStartIndex)
    BY <1>2, <1>5 DEF PatternInv
  <2>4. currStartIndex' = scans' * samplesStep'
    <3>1. (scans + 1) * samplesStep = scans * samplesStep + samplesStep
      BY <1>2
    <3>. QED  BY <1>1, <2>1, <2>3, <3>1
  <2>5. downSample' = 1 => seen' = FirstDirections(currStartIndex)'
    <3>. SUFFICES ASSUME downSample' = 1 PROVE seen' = FirstDirections(currStartIndex)'
      OBVIOUS
    <3>1. downSample = 1
      BY <1>1
    <3>2. seen' = FirstDirections(currStartIndex + samplesStep)
      BY <1>2, <1>5, <2>1, <2>3, <3>1, ScanCovers
    <3>3. FirstDirections(currStartIndex)' = FirstDirections(currStartIndex + samplesStep)
      BY <1>1, <2>1 DEF FirstDirections
    <3>. QED  BY <3>2, <3>3
  <2>6. rays' = RayCount(samplesStep, downSample)'
    BY <1>1, <2>3 DEF RayCount
  <2>7. PatternInv'
    BY <1>1, <2>1, <2>3, <2>4, <2>5, <2>6 DEF PatternInv
  <2>8. EchoIsNearest'
    <3>1. PICK bodies \in SetToSeqs(Bodies) :
            points' = [i \in DOMAIN Directions |-> Point(bodies, Directions[i])]
      BY <2>1
    <3>2. ASSUME NEW i \in DOMAIN points'
          PROVE  \E p : p = points'[i] /\ NearestEcho(p)
      <4>1. points'[i] = Point(bodies, Directions[i])
        BY <3>1, <3>2
      <4>2. NearestEcho(Point(bodies, Directions[i]))
        BY PointIsNearest
      <4>. QED  BY <4>1, <4>2
    <3>. QED  BY <3>2 DEF EchoIsNearest, NearestEcho
  <2>. QED  BY <2>2, <2>7, <2>8 DEF LidarInv
<1>. QED  BY <1>1, <1>3, <1>4, <1>5

(* After as many scans as the pattern takes, all its directions were seen. *)
LEMMA PatternIsCovered ==
  ASSUME LidarInv
  PROVE  PatternCovered
<1>1. /\ aviaInfos \in Nat /\ samplesStep \in Nat /\ currStartIndex \in Nat
      /\ PatternInv
  BY DEF LidarInv, LidarTypeOK
<1>2. ASSUME plugin = "loaded", downSample = 1, scans * samplesStep >= aviaInfos
      PROVE  seen = 0 .. aviaInfos - 1
  <2>1. /\ seen = {k % aviaInfos : k \in 0 .. currStartIndex - 1}
        /\ currStartIndex >= aviaInfos
        /\ aviaInfos = 0 => currStartIndex = 0
    <3>1. /\ seen = {k % aviaInfos : k \in 0 .. currStartIndex - 1}
          /\ currStartIndex = scans * samplesStep
          /\ aviaInfos = 0 => samplesStep = 0
      BY <1>1, <1>2 DEF PatternInv, FirstDirections
    <3>2. samplesStep = 0 => scans * samplesStep = 0
      BY DEF LidarInv, LidarTypeOK
    <3>. QED  BY <1>2, <3>1, <3>2
  <2>2. CASE aviaInfos = 0
    BY <2>1, <2>2
  <2>3. CASE aviaInfos > 0
    <3>1. \A k \in 0 .. currStartIndex - 1 : k % aviaInfos \in 0 .. aviaInfos - 1
      BY <1>1, <2>3
    <3>2. \A k \in 0 .. aviaInfos - 1 : k \in 0 .. currStartIndex - 1 /\ k % aviaInfos = k
      BY <1>1, <2>1, <2>3
    <3>. QED  BY <2>1, <3>1, <3>2
  <2>. QED  BY <1>1, <2>2, <2>3
<1>. QED  BY <1>1, <1>2 DEF PatternCovered, PatternInv

LEMMA LidarStep ==
  ASSUME LidarInv, LidarNext
  PROVE  LidarInv'
BY LoadStep, ScanStep DEF LidarNext

LEMMA LidarUnchanged ==
  ASSUME LidarInv, UNCHANGED lidar_vars
  PROVE  LidarInv'
<1>. USE DEF lidar_vars
<1>1. LidarTypeOK'
  BY DEF LidarInv, LidarTypeOK
<1>2. FirstDirections(currStartIndex)' = FirstDirections(currStartIndex)
  BY DEF FirstDirections
<1>3. PatternInv'
  BY <1>2 DEF LidarInv, PatternInv, RayCount
<1>4. EchoIsNearest'
  BY DEF LidarInv, EchoIsNearest
<1>. QED  BY <1>1, <1>3, <1>4 DEF LidarInv

------------------------------------------------------------------------------
(* The ring of IMU samples.                                                *)

(* The premise about what arrives: times are whole numbers, in whatever    *)
(* order, and no cloud is empty.                                           *)
TimesInAnyOrder ==
  /\ Unset \subseteq Int /\ ImuSteps \subseteq Int
  /\ \A c \in Clouds : c \in Seq(Int) /\ c # <<>>

(* How many samples after the one in a slot the newest is, if it has one.  *)
Age(s) == IF s <= imu_ptr_last_ THEN imu_ptr_last_ - s
          ELSE imu_ptr_last_ - s + imu_que_length_

ImuTypeOK ==
  /\ imu_ptr_front_ \in Ring /\ imu_ptr_last_iter_ \in Ring
  /\ imu_ptr_last_ \in Ring \cup {-1}
  /\ imu_time_ \in [Ring -> Int]
  /\ sample \in [Ring -> Nat]
  /\ arrived \in Nat /\ reached \in Int /\ iter_sample \in Nat
  /\ lapped \in BOOLEAN

(* The ring holds the newest samples, in the order they arrived.           *)
RingOK ==
  /\ ImuTypeOK
  /\ arrived > 0 => imu_ptr_last_ \in Ring
  /\ arrived <= imu_que_length_ => imu_ptr_last_ = arrived - 1
  /\ \A s \in Ring : sample[s] = IF Age(s) < arrived THEN arrived - Age(s) ELSE 0

(* Slot s is written by the time it is searched from.                      *)
Written(s) == sample[s] # 0 \/ (s = 0 /\ arrived = 0)

(* A search may start from slot s for a time from t on: s has the first    *)
(* sample, or the sample before it is in the ring and not later than t.    *)
Startable(s, t) ==
  \/ s = 0 /\ arrived < imu_que_length_
  \/ /\ sample[s] >= 2
     /\ sample[s] >= arrived - imu_que_length_ + 2
     /\ imu_time_[Prev1(s)] <= t

(* What PointsBracketed says of a point.                                   *)
Bracketed(u) ==
  /\ (u.kind = "interpolated" /\ sample[u.front] # 1) =>
       \/ /\ sample[u.front] = sample[Prev1(u.front)] + 1
          /\ imu_time_[Prev1(u.front)] <= u.time
          /\ u.time <= imu_time_[u.front]
       \/ u.front = u.from /\ (u.late \/ u.lapped)
  /\ (u.kind = "taken") => u.front = imu_ptr_last_

ImuInv ==
  /\ RingOK
  /\ Written(imu_ptr_last_iter_) /\ Written(imu_ptr_front_)
  /\ ~Lapping =>
       /\ Startable(imu_ptr_last_iter_, reached) /\ Startable(imu_ptr_front_, reached)
       /\ iter_sample <= sample[imu_ptr_last_iter_] /\ iter_sample <= sample[imu_ptr_front_]
  /\ \A i \in DOMAIN lookups : Bracketed(lookups[i])

LEMMA Slots ==
  /\ imu_que_length_ \in Nat /\ imu_que_length_ >= 2
  /\ \A s \in Int : s \in Ring <=> 0 <= s /\ s < imu_que_length_
  /\ Next1(-1) = 0
  /\ \A s \in Ring : Next1(s) = IF s = imu_que_length_ - 1 THEN 0 ELSE s + 1
  /\ \A s \in Ring : Prev1(s) = IF s = 0 THEN imu_que_length_ - 1 ELSE s - 1
  /\ \A s \in Ring : s \in Nat /\ Next1(s) \in Ring /\ Prev1(s) \in Ring
<1>. DEFINE L == imu_que_length_
<1>1. L \in Nat /\ L >= 2
  BY RingAssumption
<1>2. \A s \in Int : s \in Ring <=> 0 <= s /\ s < L
  BY <1>1 DEF Ring
<1>3. Next1(-1) = 0
  <2>. HIDE DEF L
  <2>. QED  BY <1>1 DEF Next1, L
<1>4. ASSUME NEW s \in Ring PROVE Next1(s) = IF s = L - 1 THEN 0 ELSE s + 1
  <2>1. s \in Int /\ 0 <= s /\ s < L
    BY <1>2 DEF Ring
  <2>2. Next1(s) = (s + 1) % L
    BY DEF Next1
  <2>. HIDE DEF L
  <2>3. CASE s = L - 1
    <3>1. L % L = 0 /\ s + 1 = L
      BY <1>1, <2>3
    <3>. QED  BY <2>2, <2>3, <3>1
  <2>4. CASE s # L - 1
    <3>1. s + 1 \in Nat /\ s + 1 < L
      BY <1>1, <2>1, <2>4
    <3>. QED  BY <1>1, <2>2, <2>4, <3>1
  <2>. QED  BY <2>3, <2>4
<1>5. ASSUME NEW s \in Ring PROVE Prev1(s) = IF s = 0 THEN L - 1 ELSE s - 1
  <2>1. s \in Int /\ 0 <= s /\ s < L
    BY <1>2 DEF Ring
  <2>2. Prev1(s) = (s - 1 + L) % L
    BY DEF Prev1
  <2>. HIDE DEF L
  <2>3. CASE s = 0
    <3>1. s - 1 + L = L - 1 /\ (L - 1) % L = L - 1
      BY <1>1, <2>3
    <3>. QED  BY <2>2, <2>3, <3>1
  <2>4. CASE s # 0
    <3>1. s - 1 \in Nat /\ s - 1 < L
      BY <1>1, <2>1, <2>4
    <3>2. s - 1 + L = L * 1 + (s - 1)
      BY <1>1, <2>1
    <3>3. (L * 1 + (s - 1)) % L = s - 1
      BY <1>1, <3>1
    <3>. QED  BY <2>2, <2>4, <3>2, <3>3
  <2>. QED  BY <2>3, <2>4
<1>. HIDE DEF L
<1>6. \A s \in Ring : s \in Nat /\ Next1(s) \in Ring /\ Prev1(s) \in Ring
  <2>. SUFFICES ASSUME NEW s \in Ring
                PROVE  s \in Nat /\ Next1(s) \in Ring /\ Prev1(s) \in Ring
    OBVIOUS
  <2>1. s \in Int /\ 0 <= s /\ s < L
    BY <1>2 DEF Ring
  <2>. QED  BY <1>1, <1>2, <1>4, <1>5, <2>1
<1>. QED  BY <1>1, <1>2, <1>3, <1>4, <1>5, <1>6 DEF L

(* The ages of the slots, and of the slots next to them.                   *)
LEMMA Ages ==
  ASSUME imu_ptr_last_ \in Ring
  PROVE  /\ \A s \in Ring : Age(s) \in Nat /\ Age(s) < imu_que_length_
         /\ \A s \in Ring : Age(s) = 0 <=> s = imu_ptr_last_
         /\ \A s, r \in Ring : Age(s) = Age(r) => s = r
         /\ \A s \in Ring : Age(s) < imu_que_length_ - 1 => Age(Prev1(s)) = Age(s) + 1
         /\ \A s \in Ring : s # imu_ptr_last_ => Age(Next1(s)) = Age(s) - 1
         /\ Age(Next1(imu_ptr_last_)) = imu_que_length_ - 1
         /\ \A s \in Ring : Prev1(Next1(s)) = s
<1>. DEFINE L == imu_que_length_
<1>1. /\ L \in Nat /\ L >= 2
      /\ \A s \in Int : s \in Ring <=> 0 <= s /\ s < L
      /\ \A s \in Ring : s \in Nat
      /\ imu_ptr_last_ \in Nat /\ imu_ptr_last_ < L
  BY Slots
<1>. HIDE DEF L
<1>2. \A s \in Ring : Age(s) \in Nat /\ Age(s) < L /\ (Age(s) = 0 <=> s = imu_ptr_last_)
  BY <1>1 DEF Age, L
<1>3. \A s, r \in Ring : Age(s) = Age(r) => s = r
  BY <1>1 DEF Age, L
<1>4. ASSUME NEW s \in Ring, Age(s) < L - 1 PROVE Age(Prev1(s)) = Age(s) + 1
  <2>1. Prev1(s) = IF s = 0 THEN L - 1 ELSE s - 1
    BY Slots DEF L
  <2>. QED  BY <1>1, <1>4, <2>1 DEF Age, L
<1>5. ASSUME NEW s \in Ring PROVE
         /\ s # imu_ptr_last_ => Age(Next1(s)) = Age(s) - 1
         /\ s = imu_ptr_last_ => Age(Next1(s)) = L - 1
         /\ Prev1(Next1(s)) = s
  <2>1. /\ Next1(s) = IF s = L - 1 THEN 0 ELSE s + 1
        /\ Next1(s) \in Ring
        /\ Prev1(Next1(s)) = IF Next1(s) = 0 THEN L - 1 ELSE Next1(s) - 1
    BY Slots DEF L
  <2>. QED  BY <1>1, <2>1 DEF Age, L
<1>. QED  BY <1>2, <1>3, <1>4, <1>5 DEF L

(* A sample makes every slot but its own one older.                        *)
LEMMA AgesAfterSample ==
  ASSUME RingOK, NEW dt \in ImuSteps, GetImu(dt)
  PROVE  /\ imu_ptr_last_' \in Ring
         /\ \A s \in Ring : Age(s)' = IF s = imu_ptr_last_' THEN 0 ELSE Age(s) + 1
         /\ \A s \in Ring : Age(s) \in Nat /\ Age(s) < imu_que_length_
         /\ Age(imu_ptr_last_') = imu_que_length_ - 1
<1>. DEFINE L == imu_que_length_
            last == imu_ptr_last_'
<1>1. /\ L \in Nat /\ L >= 2
      /\ \A s \in Int : s \in Ring <=> 0 <= s /\ s < L
      /\ Next1(-1) = 0
      /\ \A s \in Ring : Next1(s) = IF s = L - 1 THEN 0 ELSE s + 1
      /\ \A s \in Ring : s \in Nat /\ Next1(s) \in Ring
  BY Slots
<1>2. imu_ptr_last_ \in Ring \cup {-1} /\ last = Next1(imu_ptr_last_)
  BY DEF RingOK, ImuTypeOK, GetImu
<1>. HIDE DEF L, last
<1>3. last \in Ring
  BY <1>1, <1>2
<1>4. ASSUME NEW s \in Ring
      PROVE  /\ Age(s)' = IF s = last THEN 0 ELSE Age(s) + 1
             /\ Age(s) \in Nat /\ Age(s) < L
  <2>1. Age(s)' = IF s <= last THEN last - s ELSE last - s + L
    BY DEF Age, L, last
  <2>2. Age(s) = IF s <= imu_ptr_last_ THEN imu_ptr_last_ - s ELSE imu_ptr_last_ - s + L
    BY DEF Age, L
  <2>. QED  BY <1>1, <1>2, <1>3, <2>1, <2>2
<1>5. Age(last) = L - 1
  BY <1>1, <1>2 DEF Age, L
<1>. QED  BY <1>3, <1>4, <1>5 DEF L, last

LEMMA SampleRingOK ==
  ASSUME RingOK, TimesInAnyOrder, NEW dt \in ImuSteps, GetImu(dt)
  PROVE  RingOK'
<1>. DEFINE last == imu_ptr_last_'
            now == Newest + dt
<1>1. /\ last \in Ring
      /\ \A s \in Ring : Age(s)' = IF s = last THEN 0 ELSE Age(s) + 1
      /\ \A s \in Ring : Age(s) \in Nat
  BY AgesAfterSample
<1>2. /\ arrived \in Nat /\ imu_time_ \in [Ring -> Int] /\ sample \in [Ring -> Nat]
      /\ arrived' = arrived + 1
      /\ imu_time_' = [imu_time_ EXCEPT ![last] = now]
      /\ sample' = [sample EXCEPT ![last] = arrived + 1]
  BY DEF RingOK, ImuTypeOK, GetImu
<1>3. now \in Int
  <2>1. dt \in Int
    BY DEF TimesInAnyOrder
  <2>2. CASE arrived = 0
    BY <2>1, <2>2 DEF Newest
  <2>3. CASE arrived # 0
    <3>1. imu_ptr_last_ \in Ring
      BY <1>2, <2>3 DEF RingOK
    <3>2. imu_time_[imu_ptr_last_] \in Int
      BY <1>2, <3>1
    <3>. QED  BY <2>1, <2>3, <3>2 DEF Newest
  <2>. QED  BY <2>2, <2>3
<1>4. ImuTypeOK'
  <2>1. imu_ptr_front_' \in Ring
    <3>1. imu_ptr_front_ \in Ring /\ Next1(imu_ptr_front_) \in Ring
      BY Slots DEF RingOK, ImuTypeOK
    <3>. QED  BY <3>1 DEF GetImu
  <2>2. imu_time_' \in [Ring -> Int] /\ sample' \in [Ring -> Nat]
    BY <1>1, <1>2, <1>3
  <2>3. UNCHANGED <<imu_ptr_last_iter_, reached, iter_sample, lapped>>
    BY DEF GetImu
  <2>. QED  BY <1>1, <1>2, <2>1, <2>2, <2>3 DEF RingOK, ImuTypeOK
<1>5. arrived' <= imu_que_length_ => last = arrived' - 1
  <2>. SUFFICES ASSUME arrived' <= imu_que_length_ PROVE last = arrived' - 1
    OBVIOUS
  <2>1. imu_que_length_ \in Nat /\ last = Next1(imu_ptr_last_)
    BY Slots DEF GetImu
  <2>2. imu_ptr_last_ = arrived - 1
    BY <1>2, <2>1 DEF RingOK
  <2>3. CASE arrived = 0
    BY <1>2, <2>1, <2>2, <2>3, Slots
  <2>4. CASE arrived > 0
    <3>1. imu_ptr_last_ \in Ring
      BY <2>4 DEF RingOK
    <3>. QED  BY <1>2, <2>1, <2>2, <3>1, Slots
  <2>. QED  BY <1>2, <2>3, <2>4
<1>6. ASSUME NEW s \in Ring
      PROVE  sample'[s] = IF Age(s)' < arrived' THEN arrived' - Age(s)' ELSE 0
  <2>. DEFINE old == Age(s)
              new == Age(s)'
  <2>1. sample[s] = IF old < arrived THEN arrived - old ELSE 0
    BY DEF RingOK
  <2>2. new = (IF s = last THEN 0 ELSE old + 1) /\ old \in Nat
    BY <1>1
  <2>3. sample'[s] = IF s = last THEN arrived + 1 ELSE sample[s]
    BY <1>1, <1>2
  <2>. HIDE DEF old, new
  <2>4. sample'[s] = IF new < arrived' THEN arrived' - new ELSE 0
    BY <1>2, <2>1, <2>2, <2>3
  <2>. QED  BY <2>4 DEF new
<1>. QED  BY <1>1, <1>4, <1>5, <1>6 DEF RingOK

(* A sample that does not lap the search keeps the slots it starts from.   *)
LEMMA SampleKeeps ==
  ASSUME RingOK, NEW dt \in ImuSteps, GetImu(dt),
         arrived + 1 - iter_sample < imu_que_length_ - 1,
         NEW s \in Ring, Startable(s, reached), iter_sample <= sample[s]
  PROVE  /\ Startable(s, reached)'
         /\ sample'[s] = sample[s] \/ iter_sample = 0
         /\ Next1(imu_ptr_last_') # s
<1>. DEFINE L == imu_que_length_
            last == imu_ptr_last_'
            age == Age(s)
            before == Prev1(s)
<1>1. /\ L \in Nat /\ L >= 2
      /\ last \in Ring /\ Age(last) = L - 1
      /\ age \in Nat /\ age < L
      /\ arrived \in Nat /\ iter_sample \in Nat
      /\ sample[s] = IF age < arrived THEN arrived - age ELSE 0
      /\ arrived + 1 - iter_sample < L - 1
      /\ iter_sample <= sample[s]
  BY AgesAfterSample, Slots DEF RingOK, ImuTypeOK
<1>2. /\ arrived' = arrived + 1 /\ reached' = reached
      /\ imu_time_' = [imu_time_ EXCEPT ![last] = Newest + dt]
      /\ sample' = [sample EXCEPT ![last] = arrived + 1]
      /\ imu_time_ \in [Ring -> Int] /\ sample \in [Ring -> Nat]
      /\ last = Next1(imu_ptr_last_)
  BY DEF GetImu, RingOK, ImuTypeOK
<1>3. Startable(s, reached)' <=>
        \/ s = 0 /\ arrived' < L
        \/ sample'[s] >= 2 /\ sample'[s] >= arrived' - L + 2 /\ imu_time_'[before] <= reached
  BY <1>2 DEF Startable, Prev1
<1>4. CASE arrived = 0
  <2>1. imu_ptr_last_ = -1 /\ last = 0 /\ Next1(last) = IF L = 1 THEN 0 ELSE 1
    <3>1. imu_ptr_last_ = -1
      BY <1>1, <1>4 DEF RingOK
    <3>. QED  BY <1>1, <1>2, <3>1, Slots
  <2>2. sample[s] = 0 /\ iter_sample = 0
    <3>. HIDE DEF L, age
    <3>. QED  BY <1>1, <1>4
  <2>3. s = 0 /\ arrived' < L
    BY <1>1, <1>2, <1>4, <2>2 DEF Startable
  <2>. QED  BY <1>1, <1>3, <2>1, <2>2, <2>3
<1>5. CASE arrived > 0
  <2>1. imu_ptr_last_ \in Ring /\ Age(Next1(last)) = L - 2
    <3>1. imu_ptr_last_ \in Ring
      BY <1>5 DEF RingOK
    <3>2. last # imu_ptr_last_
      BY <1>1, <3>1, Ages
    <3>. QED  BY <1>1, <3>1, <3>2, Ages
  <2>2. age < L - 2 /\ age < arrived
    <3>1. CASE s = 0 /\ arrived < L
      <4>1. imu_ptr_last_ = arrived - 1
        BY <1>1, <3>1 DEF RingOK
      <4>2. age = arrived - 1
        BY <1>1, <1>5, <3>1, <4>1 DEF Age
      <4>. HIDE DEF L, age
      <4>. QED  BY <1>1, <1>5, <4>2
    <3>2. CASE sample[s] >= 2
      <4>. HIDE DEF L, age
      <4>. QED  BY <1>1, <1>5, <3>2
    <3>. QED  BY <3>1, <3>2 DEF Startable
  <2>3. s # last /\ Next1(last) # s
    BY <1>1, <2>1, <2>2
  <2>4. before \in Ring /\ before # last
    <3>1. Age(before) = age + 1
      BY <1>1, <2>1, <2>2, Ages
    <3>2. Age(before) # Age(last)
      BY <1>1, <2>2, <3>1
    <3>. QED  BY <3>2, Slots
  <2>5. sample'[s] = sample[s] /\ imu_time_'[before] = imu_time_[before]
    BY <1>1, <1>2, <2>3, <2>4
  <2>6. CASE s = 0 /\ arrived < L
    <3>1. imu_ptr_last_ = arrived - 1
      BY <1>1, <2>6 DEF RingOK
    <3>2. age = arrived - 1
      BY <1>1, <1>5, <2>6, <3>1 DEF Age
    <3>3. arrived' < L
      <4>. HIDE DEF L, age
      <4>. QED  BY <1>1, <1>2, <1>5, <2>2, <3>2
    <3>. QED  BY <1>3, <2>3, <2>5, <2>6, <3>3
  <2>7. CASE sample[s] >= 2 /\ imu_time_[before] <= reached
    <3>1. sample'[s] >= 2 /\ sample'[s] >= arrived' - L + 2
      <4>. HIDE DEF L, age
      <4>. QED  BY <1>1, <1>2, <2>2, <2>5, <2>7
    <3>. QED  BY <1>3, <2>3, <2>5, <2>7, <3>1
  <2>. QED  BY <2>6, <2>7 DEF Startable
<1>. QED  BY <1>1, <1>4, <1>5

(* A slot once written stays so, and the one the front is pushed to is too. *)
LEMMA SampleWrites ==
  ASSUME RingOK, NEW dt \in ImuSteps, GetImu(dt), NEW s \in Ring, Written(s)
  PROVE  /\ sample'[s] # 0
         /\ Next1(imu_ptr_last_') = s => sample'[Next1(s)] # 0
<1>. DEFINE L == imu_que_length_
            last == imu_ptr_last_'
<1>1. /\ L \in Nat /\ L >= 2 /\ arrived \in Nat
      /\ last \in Ring /\ last = Next1(imu_ptr_last_)
      /\ sample' = [sample EXCEPT ![last] = arrived + 1]
      /\ sample \in [Ring -> Nat]
      /\ Next1(s) \in Ring
      /\ \A r \in Ring : Age(r) \in Nat
  BY AgesAfterSample, Slots DEF GetImu, RingOK, ImuTypeOK
<1>. HIDE DEF L, last
<1>2. \A r \in Ring : sample'[r] = IF r = last THEN arrived + 1 ELSE sample[r]
  BY <1>1
<1>3. CASE arrived = 0
  <2>1. imu_ptr_last_ = -1 /\ sample[s] = 0
    <3>1. 0 <= imu_que_length_ /\ Age(s) \in Nat
      BY <1>1 DEF L
    <3>. QED  BY <1>3, <3>1 DEF RingOK
  <2>2. s = 0 /\ last = 0
    BY <1>1, <2>1, Slots DEF Written
  <2>3. 0 \in Ring /\ imu_que_length_ >= 2
    BY <2>2, Slots
  <2>4. Next1(0) # 0
    BY <2>3, Slots
  <2>5. sample'[s] = arrived + 1
    BY <1>2, <2>2
  <2>. QED  BY <1>1, <2>2, <2>4, <2>5 DEF last
<1>4. CASE arrived # 0
  <2>1. imu_ptr_last_ \in Ring /\ sample[s] # 0
    BY <1>1, <1>4 DEF RingOK, Written
  <2>2. Age(s) < arrived
    BY <1>1, <2>1 DEF RingOK
  <2>3. Next1(s) # last => sample[Next1(s)] # 0
    <3>. SUFFICES ASSUME Next1(s) # last PROVE sample[Next1(s)] # 0
      OBVIOUS
    <3>1. s # imu_ptr_last_
      BY <1>1
    <3>2. Age(Next1(s)) = Age(s) - 1
      BY <2>1, <3>1, Ages
    <3>3. Age(Next1(s)) < arrived
      BY <1>1, <2>2, <3>2
    <3>. QED  BY <1>1, <3>3 DEF RingOK
  <2>. QED  BY <1>1, <1>2, <2>1, <2>3
<1>. QED  BY <1>3, <1>4

LEMMA GetImuStep ==
  ASSUME ImuInv, TimesInAnyOrder, NEW dt \in ImuSteps, GetImu(dt)
  PROVE  ImuInv'
<1>1. RingOK /\ RingOK'
  BY SampleRingOK DEF ImuInv
<1>2. ASSUME ~Lapping'
      PROVE  /\ Startable(imu_ptr_last_iter_, reached)'
             /\ Startable(imu_ptr_front_, reached)'
             /\ (iter_sample <= sample[imu_ptr_last_iter_])'
             /\ (iter_sample <= sample[imu_ptr_front_])'
  <2>1. /\ imu_ptr_last_iter_' = imu_ptr_last_iter_ /\ iter_sample' = iter_sample
        /\ arrived' = arrived + 1 /\ lapped' = lapped /\ reached' = reached
        /\ imu_ptr_front_' = IF Next1(imu_ptr_last_') = imu_ptr_front_ THEN Next1(imu_ptr_front_)
                                                                        ELSE imu_ptr_front_
    BY DEF GetImu
  <2>2. /\ arrived \in Nat /\ iter_sample \in Nat /\ imu_que_length_ \in Nat
        /\ imu_ptr_front_ \in Ring /\ imu_ptr_last_iter_ \in Ring
        /\ sample \in [Ring -> Nat] /\ sample' \in [Ring -> Nat]
    BY <1>1, Slots DEF RingOK, ImuTypeOK
  <2>3. arrived + 1 - iter_sample < imu_que_length_ - 1 /\ ~Lapping
    BY <1>2, <2>1, <2>2 DEF Lapping
  <2>4. ASSUME NEW s \in {imu_ptr_front_, imu_ptr_last_iter_}
        PROVE  /\ Startable(s, reached)' /\ Next1(imu_ptr_last_') # s
               /\ iter_sample' <= sample'[s]
    <3>1. s \in Ring /\ Startable(s, reached) /\ iter_sample <= sample[s]
      BY <2>2, <2>3 DEF ImuInv
    <3>2. /\ Startable(s, reached)' /\ Next1(imu_ptr_last_') # s
          /\ sample'[s] = sample[s] \/ iter_sample = 0
      BY <1>1, <2>3, <3>1, SampleKeeps
    <3>. QED  BY <2>1, <2>2, <3>1, <3>2
  <2>5. imu_ptr_front_' = imu_ptr_front_
    BY <2>1, <2>4
  <2>. QED  BY <2>1, <2>4, <2>5 DEF Startable, Prev1
<1>3. Written(imu_ptr_last_iter_)' /\ Written(imu_ptr_front_)'
  <2>1. imu_ptr_front_ \in Ring /\ imu_ptr_last_iter_ \in Ring
    BY <1>1 DEF RingOK, ImuTypeOK
  <2>2. /\ sample'[imu_ptr_last_iter_] # 0 /\ sample'[imu_ptr_front_] # 0
        /\ Next1(imu_ptr_last_') = imu_ptr_front_ => sample'[Next1(imu_ptr_front_)] # 0
    BY <1>1, <2>1, SampleWrites DEF ImuInv
  <2>. QED  BY <2>2 DEF GetImu, Written
<1>4. DOMAIN lookups' = {}
  BY DEF GetImu
<1>. QED  BY <1>1, <1>2, <1>3, <1>4 DEF ImuInv

(* Where a search from a slot may be after some steps.                     *)
Searching(i, slot, t) ==
  /\ i \in Ring
  /\ Age(i) <= Age(slot)
  /\ i = slot \/ (Age(i) < Age(slot) /\ imu_time_[Prev1(i)] <= t)

(* The search ends at the newest slot or at a sample after t, and the      *)
(* sample before it is not after t unless the search started there.        *)
LEMMA SearchEnds ==
  ASSUME RingOK, imu_ptr_last_ \in Ring, NEW slot \in Ring, NEW t \in Int
  PROVE  /\ Searching(SearchFrom(slot, t), slot, t)
         /\ \/ SearchFrom(slot, t) = imu_ptr_last_
            \/ t < imu_time_[SearchFrom(slot, t)]
<1>. DEFINE N == imu_que_length_
            Ends(i) == i = imu_ptr_last_ \/ t < imu_time_[i]
            F == [x \in Ring \X (1 .. N) |-> IF Ends(x[1]) THEN x[1] ELSE Next1(x[1])]
            Step(f) == [n \in 0 .. N |->
                          IF n = 0 THEN slot
                          ELSE LET i == f[n - 1] IN
                               IF i = imu_ptr_last_ \/ t < imu_time_[i] THEN i ELSE Next1(i)]
            at == CHOOSE f : f = Step(f)
<1>1. SearchFrom(slot, t) = at[N]
  BY Zenon DEF SearchFrom
<1>2. /\ N \in Nat
      /\ \A i \in Ring : Next1(i) \in Ring /\ imu_time_[i] \in Int
  BY Slots DEF RingOK, ImuTypeOK
<1>3. \E f : f = Step(f)
  <2>1. F \in [Ring \X (1 .. N) -> Ring]
    BY <1>2
  <2>. HIDE DEF F, N
  <2>2. PICK f \in [0 .. N -> Ring] : Follows(f, slot, F, N)
    BY <1>2, <2>1, Recursion
  <2>3. ASSUME NEW n \in 1 .. N
        PROVE  F[<<f[n - 1], n>>] = IF Ends(f[n - 1]) THEN f[n - 1] ELSE Next1(f[n - 1])
    <3>1. f[n - 1] \in Ring
      BY <1>2
    <3>. QED  BY <3>1 DEF F
  <2>4. \A n \in 0 .. N :
          f[n] = IF n = 0 THEN slot
                 ELSE IF Ends(f[n - 1]) THEN f[n - 1] ELSE Next1(f[n - 1])
    <3>1. \A n \in 0 .. N : n = 0 \/ n \in 1 .. N
      BY <1>2
    <3>. QED  BY <2>2, <2>3, <3>1 DEF Follows
  <2>. QED  BY <2>4
<1>4. at = Step(at)
  <2>. HIDE DEF Step
  <2>. QED  BY <1>3
<1>. HIDE DEF at
<1>5. at[0] = slot
  BY <1>2, <1>4
<1>6. \A n \in 1 .. N : at[n] = IF Ends(at[n - 1]) THEN at[n - 1] ELSE Next1(at[n - 1])
  BY <1>2, <1>4
<1>. DEFINE T == {n \in Nat : n <= N =>
                    /\ Searching(at[n], slot, t)
                    /\ Ends(at[n]) \/ Age(at[n]) = Age(slot) - n}
<1>7. \A i \in Ring : Age(i) \in Nat /\ Age(i) < N
  BY Ages
<1>8. 0 \in T
  BY <1>5, <1>7 DEF Searching
<1>9. ASSUME NEW n \in Nat, n \in T PROVE n + 1 \in T
  <2>. SUFFICES ASSUME n + 1 <= N
                PROVE  /\ Searching(at[n + 1], slot, t)
                       /\ Ends(at[n + 1]) \/ Age(at[n + 1]) = Age(slot) - (n + 1)
    OBVIOUS
  <2>1. /\ Searching(at[n], slot, t)
        /\ Ends(at[n]) \/ Age(at[n]) = Age(slot) - n
    BY <1>2, <1>9
  <2>2. at[n + 1] = IF Ends(at[n]) THEN at[n] ELSE Next1(at[n])
    BY <1>2, <1>6
  <2>3. CASE Ends(at[n])
    BY <2>1, <2>2, <2>3
  <2>4. CASE ~ Ends(at[n])
    <3>. DEFINE i == at[n]
                j == at[n + 1]
    <3>1. i \in Ring /\ j = Next1(i) /\ i # imu_ptr_last_ /\ ~ (t < imu_time_[i])
      BY <2>1, <2>2, <2>4 DEF Searching
    <3>2. j \in Ring /\ Age(j) = Age(i) - 1 /\ Prev1(j) = i
      BY <1>2, <3>1, Ages
    <3>3. imu_time_[Prev1(j)] <= t
      BY <1>2, <3>1, <3>2
    <3>4. Age(i) <= Age(slot) /\ Age(i) = Age(slot) - n
      BY <2>1, <2>4 DEF Searching
    <3>5. Age(i) \in Nat /\ Age(slot) \in Nat
      BY <1>7, <3>1
    <3>6. Age(j) < Age(slot) /\ Age(j) = Age(slot) - (n + 1)
      BY <3>2, <3>4, <3>5
    <3>. HIDE DEF i, j
    <3>. QED  BY <3>2, <3>3, <3>5, <3>6 DEF Searching, i, j
  <2>. QED  BY <2>3, <2>4
<1>10. \A n \in Nat : n \in T
  <2>. HIDE DEF T
  <2>. QED  BY <1>8, <1>9, Inductive
<1>11. Searching(at[N], slot, t) /\ (Ends(at[N]) \/ Age(at[N]) = Age(slot) - N)
  BY <1>2, <1>10
<1>12. Age(slot) - N < 0 /\ Age(at[N]) \in Nat
  BY <1>2, <1>7, <1>11 DEF Searching
<1>. QED  BY <1>1, <1>11, <1>12

LookupSet ==
  [time : Int, from : Ring, front : Ring, kind : {"left", "taken", "interpolated"},
   late : BOOLEAN, lapped : BOOLEAN]

LookSet == [slot : Ring, reached : Int, lapped : BOOLEAN, done : Seq(LookupSet)]

(* Where the next point is searched from, and what was found for the last. *)
LookOK(look) ==
  /\ look \in LookSet
  /\ Written(look.slot)
  /\ ~look.lapped => Startable(look.slot, look.reached)

LookedSoFar(look, n) ==
  /\ LookOK(look)
  /\ Len(look.done) = n
  /\ \A i \in 1 .. n : Bracketed(look.done[i])
  /\ n > 0 =>
       /\ Age(look.done[n].front) <= Age(look.slot)
       /\ ~look.lapped => Startable(look.done[n].front, look.reached)

LEMMA NewestSlot ==
  ASSUME RingOK, imu_ptr_last_ \in Ring
  PROVE  /\ arrived \in Nat \ {0}
         /\ arrived < imu_que_length_ => Age(0) = arrived - 1 /\ sample[0] = 1
<1>1. /\ imu_que_length_ \in Nat /\ arrived \in Nat /\ imu_ptr_last_ \in Nat /\ 0 \in Ring
      /\ imu_que_length_ >= 2
  BY Slots DEF RingOK, ImuTypeOK
<1>2. arrived <= imu_que_length_ => imu_ptr_last_ = arrived - 1
  BY DEF RingOK
<1>3. arrived # 0
  BY <1>1, <1>2
<1>4. ASSUME arrived < imu_que_length_ PROVE Age(0) = arrived - 1 /\ sample[0] = 1
  <2>1. Age(0) = arrived - 1
    BY <1>1, <1>2, <1>3, <1>4 DEF Age
  <2>2. sample[0] = IF Age(0) < arrived THEN arrived - Age(0) ELSE 0
    BY <1>1 DEF RingOK
  <2>. QED  BY <1>1, <2>1, <2>2
<1>. QED  BY <1>1, <1>3, <1>4

(* A search that moves ends at a slot the next search may start from.      *)
LEMMA MovedIsStartable ==
  ASSUME RingOK, imu_ptr_last_ \in Ring, NEW slot \in Ring, NEW t \in Int,
         Written(slot), NEW f, Searching(f, slot, t), f # slot
  PROVE  Startable(f, t)
<1>. DEFINE L == imu_que_length_
            a == Age(f)
            b == Age(slot)
<1>1. /\ f \in Ring /\ a \in Nat /\ b \in Nat /\ L \in Nat /\ L >= 2
      /\ a < b /\ b < L
      /\ imu_time_[Prev1(f)] <= t
      /\ arrived \in Nat \ {0}
      /\ sample[f] = IF a < arrived THEN arrived - a ELSE 0
      /\ sample[slot] = IF b < arrived THEN arrived - b ELSE 0
      /\ sample[slot] # 0
  BY Ages, Slots, NewestSlot DEF Searching, RingOK, Written
<1>2. sample[f] >= 2 /\ sample[f] >= arrived - L + 2
  <2>. HIDE DEF L, a, b
  <2>. QED  BY <1>1
<1>. QED  BY <1>1, <1>2 DEF Startable

LEMMA StartableIsBracketed ==
  ASSUME RingOK, imu_ptr_last_ \in Ring, NEW f \in Ring, NEW t \in Int, Startable(f, t),
         sample[f] # 1
  PROVE  sample[f] = sample[Prev1(f)] + 1 /\ imu_time_[Prev1(f)] <= t
<1>. DEFINE L == imu_que_length_
            a == Age(f)
<1>1. /\ a \in Nat /\ L \in Nat /\ L >= 2 /\ arrived \in Nat \ {0}
      /\ sample[f] = IF a < arrived THEN arrived - a ELSE 0
  BY Ages, Slots, NewestSlot DEF RingOK
<1>2. /\ sample[f] >= 2 /\ sample[f] >= arrived - L + 2
      /\ imu_time_[Prev1(f)] <= t
  BY NewestSlot DEF Startable
<1>3. a < L - 1 /\ a + 1 < arrived
  <2>. HIDE DEF L, a
  <2>. QED  BY <1>1, <1>2
<1>4. Age(Prev1(f)) = a + 1 /\ Prev1(f) \in Ring
  BY <1>3, Ages, Slots
<1>5. sample[Prev1(f)] = IF a + 1 < arrived THEN arrived - (a + 1) ELSE 0
  BY <1>4 DEF RingOK
<1>. HIDE DEF L, a
<1>. QED  BY <1>1, <1>2, <1>3, <1>5

LEMMA StartableLater ==
  ASSUME RingOK, NEW s \in Ring, NEW t \in Int, NEW r \in Int, t <= r, Startable(s, t)
  PROVE  Startable(s, r)
<1>1. imu_time_[Prev1(s)] \in Int
  BY Slots DEF RingOK, ImuTypeOK
<1>. QED  BY <1>1 DEF Startable

LEMMA OlderSample ==
  ASSUME RingOK, imu_ptr_last_ \in Ring, NEW s \in Ring, NEW r \in Ring, Age(s) <= Age(r)
  PROVE  sample[r] <= sample[s]
<1>. DEFINE a == Age(s)
            b == Age(r)
<1>1. /\ a \in Nat /\ b \in Nat /\ arrived \in Nat
      /\ sample[s] = IF a < arrived THEN arrived - a ELSE 0
      /\ sample[r] = IF b < arrived THEN arrived - b ELSE 0
      /\ a <= b
  BY Ages DEF RingOK, ImuTypeOK
<1>. HIDE DEF a, b
<1>. QED  BY <1>1

LEMMA LookupIs ==
  ASSUME RingOK, imu_ptr_last_ \in Ring, NEW look, LookOK(look), NEW t \in Int
  PROVE  LET u == Lookup(t, look) IN
         /\ u \in LookupSet
         /\ u.time = t /\ u.from = look.slot /\ u.late = (t < look.reached)
         /\ u.lapped = look.lapped
         /\ Searching(u.front, look.slot, t)
         /\ Bracketed(u)
<1>. DEFINE u == Lookup(t, look)
            f == SearchFrom(look.slot, t)
<1>1. /\ look.slot \in Ring /\ look.reached \in Int /\ look.lapped \in BOOLEAN
      /\ Written(look.slot)
      /\ ~look.lapped => Startable(look.slot, look.reached)
  BY DEF LookOK, LookSet
<1>2. /\ Searching(f, look.slot, t)
      /\ f = imu_ptr_last_ \/ t < imu_time_[f]
      /\ f \in Ring
  BY <1>1, SearchEnds DEF Searching
<1>3. imu_time_[f] \in Int
  BY <1>2 DEF RingOK, ImuTypeOK
<1>4. u = [time |-> t, from |-> look.slot, front |-> f,
           kind |-> IF Gap(t, imu_time_[f]) > scan_period_ THEN "left"
                    ELSE IF t > imu_time_[f] THEN "taken" ELSE "interpolated",
           late |-> t < look.reached, lapped |-> look.lapped]
  BY DEF Lookup, Found
<1>. HIDE DEF f, u
<1>5. /\ u \in LookupSet
      /\ u.time = t /\ u.from = look.slot /\ u.front = f
      /\ u.late = (t < look.reached) /\ u.lapped = look.lapped
      /\ u.kind = "taken" => t > imu_time_[f]
      /\ u.kind = "interpolated" => t <= imu_time_[f]
  BY <1>1, <1>2, <1>3, <1>4 DEF LookupSet
<1>6. u.kind = "taken" => u.front = imu_ptr_last_
  BY <1>2, <1>3, <1>5
<1>7. ASSUME sample[f] # 1, ~ (f = look.slot /\ (u.late \/ u.lapped))
      PROVE  sample[f] = sample[Prev1(f)] + 1 /\ imu_time_[Prev1(f)] <= t
  <2>1. CASE f # look.slot
    <3>1. Startable(f, t)
      BY <1>1, <1>2, <2>1, MovedIsStartable
    <3>. QED  BY <1>2, <1>7, <3>1, StartableIsBracketed
  <2>2. CASE f = look.slot
    <3>1. ~u.late /\ ~u.lapped
      BY <1>7, <2>2
    <3>. HIDE DEF f, u
    <3>2. ~(t < look.reached) /\ ~look.lapped
      BY <1>5, <3>1, Zenon
    <3>3. look.reached <= t /\ Startable(look.slot, look.reached)
      BY <1>1, <3>2
    <3>4. Startable(f, t)
      BY <1>1, <1>2, <2>2, <3>3, StartableLater
    <3>. QED  BY <1>2, <1>7, <3>4, StartableIsBracketed
  <2>. QED  BY <2>1, <2>2
<1>8. Bracketed(u)
  BY <1>5, <1>6, <1>7 DEF Bracketed
<1>. QED  BY <1>2, <1>5, <1>8 DEF u

(* Looked in steps: what a point leaves to the next one.                   *)
Onward(look, u) ==
  [slot |-> IF u.kind = "left" THEN u.from ELSE u.front,
   reached |-> IF u.late THEN look.reached ELSE u.time,
   lapped |-> u.lapped /\ (u.kind = "left" \/ u.front = u.from),
   done |-> Append(look.done, u)]

LEMMA LookupType ==
  ASSUME RingOK, imu_ptr_last_ \in Ring, NEW look \in LookSet, NEW t \in Int
  PROVE  Onward(look, Lookup(t, look)) \in LookSet
<1>. DEFINE u == Lookup(t, look)
            f == SearchFrom(look.slot, t)
            next == Onward(look, u)
<1>1. /\ look.slot \in Ring /\ look.reached \in Int /\ look.lapped \in BOOLEAN
      /\ look.done \in Seq(LookupSet)
  BY DEF LookSet
<1>2. f \in Ring
  BY <1>1, SearchEnds DEF Searching
<1>3. u = [time |-> t, from |-> look.slot, front |-> f,
           kind |-> IF Gap(t, imu_time_[f]) > scan_period_ THEN "left"
                    ELSE IF t > imu_time_[f] THEN "taken" ELSE "interpolated",
           late |-> t < look.reached, lapped |-> look.lapped]
  BY DEF Lookup, Found
<1>. HIDE DEF f
<1>4. u \in LookupSet /\ u.from \in Ring /\ u.front \in Ring /\ u.time \in Int
  <2>. HIDE DEF u
  <2>. QED  BY <1>1, <1>2, <1>3 DEF LookupSet
<1>. HIDE DEF u
<1>5. Append(look.done, u) \in Seq(LookupSet)
  BY <1>1, <1>4, AppendProperties
<1>6. (u.lapped /\ (u.kind = "left" \/ u.front = u.from)) \in BOOLEAN
  OBVIOUS
<1>. QED  BY <1>1, <1>4, <1>5, <1>6 DEF Onward, LookSet, u

LEMMA LookOneMore ==
  ASSUME RingOK, imu_ptr_last_ \in Ring, NEW t \in Int, NEW n \in Nat,
         NEW look, LookedSoFar(look, n)
  PROVE  LookedSoFar(Onward(look, Lookup(t, look)), n + 1)
<1>. DEFINE u == Lookup(t, look)
            next == Onward(look, u)
<1>1. LookOK(look) /\ Len(look.done) = n /\ \A i \in 1 .. n : Bracketed(look.done[i])
  BY DEF LookedSoFar
<1>2. /\ look.slot \in Ring /\ look.reached \in Int /\ look.lapped \in BOOLEAN
      /\ look.done \in Seq(LookupSet)
      /\ Written(look.slot)
      /\ ~look.lapped => Startable(look.slot, look.reached)
  BY <1>1 DEF LookOK, LookSet
<1>3. /\ u \in LookupSet
      /\ u.time = t /\ u.from = look.slot /\ u.late = (t < look.reached)
      /\ u.lapped = look.lapped
      /\ Searching(u.front, look.slot, t)
      /\ Bracketed(u)
  BY <1>1, LookupIs
<1>. HIDE DEF u
<1>4. /\ next.slot = (IF u.kind = "left" THEN look.slot ELSE u.front)
      /\ next.reached = (IF t < look.reached THEN look.reached ELSE t)
      /\ next.lapped = (look.lapped /\ (u.kind = "left" \/ u.front = look.slot))
      /\ next.done = Append(look.done, u)
      /\ next = [slot |-> next.slot, reached |-> next.reached,
                 lapped |-> next.lapped, done |-> next.done]
  BY <1>3 DEF Onward
<1>. HIDE DEF next
<1>5. u.front \in Ring /\ Age(u.front) <= Age(look.slot)
  BY <1>3 DEF Searching
<1>6. /\ next.done \in Seq(LookupSet) /\ Len(next.done) = n + 1
      /\ next.done[n + 1] = u
      /\ \A i \in 1 .. n : next.done[i] = look.done[i]
  BY <1>1, <1>2, <1>3, <1>4, AppendProperties
<1>7. /\ next.slot \in Ring /\ next.reached \in Int /\ next.lapped \in BOOLEAN
      /\ look.reached <= next.reached /\ t <= next.reached
  BY <1>2, <1>4, <1>5
<1>8. next \in LookSet
  BY <1>4, <1>6, <1>7 DEF LookSet
<1>9. Written(u.front) /\ Written(next.slot)
  <2>1. sample[look.slot] # 0 /\ sample \in [Ring -> Nat]
    BY <1>2, NewestSlot DEF Written, RingOK, ImuTypeOK
  <2>2. sample[look.slot] <= sample[u.front]
    BY <1>2, <1>5, OlderSample
  <2>3. sample[u.front] # 0
    BY <1>2, <1>5, <2>1, <2>2
  <2>. QED  BY <1>2, <1>4, <2>3 DEF Written
<1>10. ASSUME ~next.lapped
       PROVE  Startable(u.front, next.reached) /\ Startable(next.slot, next.reached)
  <2>1. u.front # look.slot => Startable(u.front, next.reached)
    <3>. SUFFICES ASSUME u.front # look.slot PROVE Startable(u.front, next.reached)
      OBVIOUS
    <3>1. Startable(u.front, t)
      BY <1>2, <1>3, MovedIsStartable
    <3>. QED  BY <1>5, <1>7, <3>1, StartableLater
  <2>2. ~look.lapped => Startable(look.slot, next.reached)
    BY <1>2, <1>7, StartableLater
  <2>. QED  BY <1>2, <1>4, <1>10, <2>1, <2>2
<1>11. Age(u.front) <= Age(next.slot)
  <2>1. Age(u.front) <= Age(u.front)
    BY <1>5, Ages
  <2>. QED  BY <1>4, <1>5, <2>1
<1>12. ASSUME NEW i \in 1 .. n + 1 PROVE Bracketed(next.done[i])
  <2>1. CASE i = n + 1
    BY <1>3, <1>6, <2>1
  <2>2. CASE i \in 1 .. n
    BY <1>1, <1>6, <2>2
  <2>. QED  BY <2>1, <2>2
<1>13. LookedSoFar(next, n + 1)
  BY <1>6, <1>8, <1>9, <1>10, <1>11, <1>12 DEF LookedSoFar, LookOK
<1>. QED  BY <1>13 DEF next, u

LEMMA LookedAll ==
  ASSUME RingOK, imu_ptr_last_ \in Ring, NEW times \in Seq(Int),
         Written(imu_ptr_last_iter_),
         ~Lapping => Startable(imu_ptr_last_iter_, reached)
  PROVE  LookedSoFar(Looked(times), Len(times))
<1>. DEFINE N == Len(times)
            S == LookSet
            base == [slot |-> imu_ptr_last_iter_, reached |-> reached,
                     lapped |-> Lapping, done |-> <<>>]
            More(x, n) == Onward(x, Lookup(times[n], x))
            F == [x \in S \X (1 .. N) |-> More(x[1], x[2])]
            Step(f) == [n \in 0 .. N |-> IF n = 0 THEN base ELSE More(f[n - 1], n)]
            look == CHOOSE f : f = Step(f)
<1>1. Looked(times) = look[N]
  BY Zenon DEF Looked, Onward
<1>2. /\ N \in Nat
      /\ \A n \in 1 .. N : times[n] \in Int
  BY LenProperties, ElementOfSeq
<1>3. LookedSoFar(base, 0) /\ base \in S
  <2>1. imu_ptr_last_iter_ \in Ring /\ reached \in Int
    BY DEF RingOK, ImuTypeOK
  <2>2. Lapping \in BOOLEAN
    BY DEF RingOK, ImuTypeOK, Lapping
  <2>3. <<>> \in Seq(LookupSet) /\ Len(<<>>) = 0
    BY EmptySeq
  <2>4. base \in LookSet
    BY <2>1, <2>2, <2>3 DEF LookSet
  <2>5. LookOK(base)
    BY <2>4 DEF LookOK
  <2>. QED  BY <2>3, <2>4, <2>5 DEF LookedSoFar
<1>4. \E f : f = Step(f)
  <2>1. ASSUME NEW x \in S, NEW n \in 1 .. N PROVE More(x, n) \in S
    <3>1. times[n] \in Int
      BY <1>2
    <3>. QED  BY <3>1, LookupType
  <2>2. F \in [S \X (1 .. N) -> S]
    <3>1. \A y \in S \X (1 .. N) : More(y[1], y[2]) \in S
      <4>. SUFFICES ASSUME NEW y \in S \X (1 .. N) PROVE More(y[1], y[2]) \in S
        OBVIOUS
      <4>1. y[1] \in S /\ y[2] \in 1 .. N
        OBVIOUS
      <4>. HIDE DEF More
      <4>. QED  BY <2>1, <4>1
    <3>. HIDE DEF More, S
    <3>. QED  BY <3>1
  <2>. HIDE DEF S, F, base, N
  <2>3. PICK f \in [0 .. N -> S] : Follows(f, base, F, N)
    BY <1>2, <1>3, <2>2, Recursion
  <2>4. ASSUME NEW n \in 1 .. N PROVE F[<<f[n - 1], n>>] = More(f[n - 1], n)
    <3>1. f[n - 1] \in S
      BY <1>2
    <3>. HIDE DEF More
    <3>. QED  BY <3>1 DEF F
  <2>5. \A n \in 0 .. N : f[n] = IF n = 0 THEN base ELSE More(f[n - 1], n)
    <3>1. \A n \in 0 .. N : n = 0 \/ n \in 1 .. N
      BY <1>2
    <3>. HIDE DEF More
    <3>. QED  BY <2>3, <2>4, <3>1 DEF Follows
  <2>. HIDE DEF More
  <2>6. f = Step(f)
    BY <2>5
  <2>. HIDE DEF Step
  <2>. QED  BY <2>6
<1>5. look = Step(look)
  <2>. HIDE DEF Step
  <2>. QED  BY <1>4
<1>. HIDE DEF look
<1>6. look[0] = base /\ \A n \in 1 .. N : look[n] = More(look[n - 1], n)
  <2>. HIDE DEF More, base, N
  <2>1. 0 \in 0 .. N /\ \A n \in 1 .. N : n \in 0 .. N /\ n # 0
    BY <1>2
  <2>. QED  BY <1>5, <2>1
<1>. DEFINE T == {n \in Nat : n <= N => LookedSoFar(look[n], n)}
<1>7. 0 \in T
  BY <1>3, <1>6
<1>8. ASSUME NEW n \in Nat, n \in T PROVE n + 1 \in T
  <2>. SUFFICES ASSUME n + 1 <= N PROVE LookedSoFar(look[n + 1], n + 1)
    OBVIOUS
  <2>1. LookedSoFar(look[n], n)
    BY <1>2, <1>8
  <2>2. look[n + 1] = More(look[n], n + 1) /\ times[n + 1] \in Int
    <3>1. n + 1 \in 1 .. N /\ (n + 1) - 1 = n
      BY <1>2
    <3>. HIDE DEF More, N
    <3>. QED  BY <1>2, <1>6, <3>1
  <2>. QED  BY <2>1, <2>2, LookOneMore
<1>9. \A n \in Nat : n \in T
  <2>. HIDE DEF T
  <2>. QED  BY <1>7, <1>8, Inductive
<1>. QED  BY <1>1, <1>2, <1>9

LEMMA CloudTimes ==
  ASSUME TimesInAnyOrder, NEW t \in Int, NEW cloud \in Clouds,
         NEW times, times = [i \in 1 .. Len(cloud) |-> t + cloud[i]]
  PROVE  times \in Seq(Int) /\ Len(times) \in Nat \ {0} /\ Len(times) = Len(cloud)
<1>. DEFINE N == Len(cloud)
<1>1. cloud \in Seq(Int) /\ cloud # <<>>
  BY DEF TimesInAnyOrder
<1>2. N \in Nat \ {0} /\ \A i \in 1 .. N : cloud[i] \in Int
  BY <1>1, LenProperties, ElementOfSeq, EmptySeq
<1>. HIDE DEF N
<1>3. times \in [1 .. N -> Int]
  BY <1>2 DEF N
<1>4. times \in Seq(Int) /\ Len(times) = N
  BY <1>2, <1>3
<1>. QED  BY <1>2, <1>4 DEF N

LEMMA AdjustStep ==
  ASSUME ImuInv, TimesInAnyOrder, NEW t \in 0 .. MaxTime, NEW cloud \in Clouds,
         AdjustDistortion(t, cloud)
  PROVE  ImuInv'
<1>. DEFINE times == [i \in 1 .. Len(cloud) |-> t + cloud[i]]
            looked == Looked(times)
            N == Len(cloud)
            u == looked.done[N]
<1>1. times \in Seq(Int) /\ N \in Nat \ {0} /\ Len(times) = N
  <2>1. t \in Int
    OBVIOUS
  <2>. HIDE DEF times
  <2>. QED  BY <2>1, CloudTimes DEF times
<1>2. /\ RingOK
      /\ imu_ptr_last_ \in Ring \cup {-1} /\ imu_ptr_front_ \in Ring
      /\ imu_time_ \in [Ring -> Int] /\ sample \in [Ring -> Nat]
      /\ arrived \in Nat /\ reached \in Int
      /\ Written(imu_ptr_last_iter_) /\ Written(imu_ptr_front_)
      /\ Lapping \in BOOLEAN
  BY DEF ImuInv, RingOK, ImuTypeOK, Lapping
<1>. HIDE DEF times
<1>3. /\ iter_sample' = sample[imu_ptr_last_iter_']
      /\ UNCHANGED <<imu_ptr_last_, imu_time_, sample, arrived>>
  BY DEF AdjustDistortion
<1>4. CASE imu_ptr_last_ > 0
  <2>1. imu_ptr_last_ \in Ring
    BY <1>2, <1>4
  <2>2. /\ imu_ptr_last_iter_' = looked.slot
        /\ imu_ptr_front_' = u.front
        /\ lookups' = looked.done
        /\ reached' = looked.reached
        /\ lapped' = looked.lapped
    BY <1>4 DEF AdjustDistortion, times
  <2>3. LookedSoFar(looked, N)
    BY <1>1, <1>2, <2>1, LookedAll DEF ImuInv
  <2>. HIDE DEF looked, N
  <2>4. /\ looked.slot \in Ring /\ looked.reached \in Int /\ looked.lapped \in BOOLEAN
        /\ looked.done \in Seq(LookupSet) /\ Len(looked.done) = N
        /\ Written(looked.slot)
        /\ Age(u.front) <= Age(looked.slot)
        /\ ~looked.lapped =>
             Startable(looked.slot, looked.reached) /\ Startable(u.front, looked.reached)
        /\ \A i \in 1 .. N : Bracketed(looked.done[i])
    BY <1>1, <2>3 DEF LookedSoFar, LookOK, LookSet
  <2>5. u \in LookupSet /\ u.front \in Ring
    <3>1. N \in 1 .. Len(looked.done)
      BY <1>1, <2>4
    <3>2. u \in LookupSet
      BY <2>4, <3>1, ElementOfSeq
    <3>. QED  BY <3>2 DEF LookupSet
  <2>6. DOMAIN lookups' = 1 .. N
    BY <1>1, <2>2, <2>4
  <2>. HIDE DEF u
  <2>7. sample[looked.slot] <= sample[u.front] /\ sample[looked.slot] # 0
    BY <1>2, <2>1, <2>4, <2>5, OlderSample, NewestSlot DEF Written
  <2>8. sample[looked.slot] \in Nat /\ sample[u.front] \in Nat /\ sample[u.front] # 0
    BY <1>2, <2>4, <2>5, <2>7
  <2>9. RingOK'
    <3>1. ImuTypeOK'
      BY <1>2, <1>3, <2>2, <2>4, <2>5, <2>8 DEF ImuInv, RingOK, ImuTypeOK
    <3>. QED  BY <1>2, <1>3, <3>1 DEF RingOK, Age
  <2>10. Written(imu_ptr_last_iter_)' /\ Written(imu_ptr_front_)'
    BY <1>3, <2>2, <2>7, <2>8 DEF Written
  <2>11. ~Lapping' =>
           /\ Startable(imu_ptr_last_iter_, reached)' /\ Startable(imu_ptr_front_, reached)'
           /\ (iter_sample <= sample[imu_ptr_last_iter_])'
           /\ (iter_sample <= sample[imu_ptr_front_])'
    BY <1>3, <2>2, <2>4, <2>7, <2>8 DEF Lapping, Startable, Prev1
  <2>12. \A i \in DOMAIN lookups' : Bracketed(lookups[i])'
    BY <1>3, <2>2, <2>4, <2>6 DEF Bracketed, Prev1
  <2>. QED  BY <2>9, <2>10, <2>11, <2>12 DEF ImuInv
<1>5. CASE ~ (imu_ptr_last_ > 0)
  <2>1. /\ imu_ptr_last_iter_' = imu_ptr_front_ /\ imu_ptr_front_' = imu_ptr_front_
        /\ lookups' = <<>> /\ reached' = reached /\ lapped' = Lapping
    BY <1>5 DEF AdjustDistortion
  <2>. HIDE DEF looked, N, u
  <2>2. sample[imu_ptr_front_] \in Nat
    BY <1>2
  <2>3. RingOK'
    <3>1. ImuTypeOK'
      BY <1>2, <1>3, <2>1, <2>2 DEF ImuInv, RingOK, ImuTypeOK
    <3>. QED  BY <1>2, <1>3, <3>1 DEF RingOK, Age
  <2>4. Written(imu_ptr_last_iter_)' /\ Written(imu_ptr_front_)'
    BY <1>2, <1>3, <2>1 DEF Written
  <2>5. ~Lapping' =>
           /\ Startable(imu_ptr_last_iter_, reached)' /\ Startable(imu_ptr_front_, reached)'
           /\ (iter_sample <= sample[imu_ptr_last_iter_])'
           /\ (iter_sample <= sample[imu_ptr_front_])'
    <3>1. ~Lapping' => ~Lapping
      BY <2>1 DEF Lapping
    <3>2. ~Lapping => Startable(imu_ptr_front_, reached)
      BY DEF ImuInv
    <3>. QED  BY <1>3, <2>1, <2>2, <3>1, <3>2 DEF Startable, Prev1
  <2>6. DOMAIN lookups' = {}
    BY <2>1
  <2>. QED  BY <2>3, <2>4, <2>5, <2>6 DEF ImuInv
<1>. QED  BY <1>4, <1>5

LEMMA ImuInvInit ==
  ASSUME TimesInAnyOrder
  PROVE  ImuInit => ImuInv
<1>. SUFFICES ASSUME ImuInit PROVE ImuInv
  OBVIOUS
<1>1. /\ imu_que_length_ \in Nat /\ imu_que_length_ >= 2 /\ 0 \in Ring
      /\ \A s \in Ring : s \in Nat /\ s < imu_que_length_
  BY Slots
<1>2. ImuTypeOK
  BY <1>1 DEF ImuInit, ImuTypeOK, TimesInAnyOrder
<1>3. \A s \in Ring : Age(s) \in Nat /\ ~ (Age(s) < 0)
  BY <1>1 DEF ImuInit, Age
<1>4. RingOK
  <2>1. imu_ptr_last_ = -1 /\ arrived = 0 /\ \A s \in Ring : sample[s] = 0
    BY DEF ImuInit
  <2>. QED  BY <1>2, <1>3, <2>1 DEF RingOK
<1>5. DOMAIN lookups = {}
  BY DEF ImuInit
<1>. QED  BY <1>1, <1>4, <1>5 DEF ImuInit, ImuInv, Startable, Written

LEMMA ImuUnchanged ==
  ASSUME ImuInv, UNCHANGED imu_vars
  PROVE  ImuInv'
BY DEF imu_vars, ImuInv, RingOK, ImuTypeOK, Startable, Lapping, Written, Bracketed, Age, Prev1

LEMMA ImuStep ==
  ASSUME ImuInv, TimesInAnyOrder, ImuNext
  PROVE  ImuInv'
BY GetImuStep, AdjustStep DEF ImuNext

LEMMA CarUnchanged ==
  ASSUME CarInv, UNCHANGED car_vars
  PROVE  CarInv'
BY DEF car_vars, CarInv, CarTypeOK, HeadingError, Magnitude

LEMMA GuessUnchanged ==
  ASSUME GuessInv, UNCHANGED prediction_vars
  PROVE  GuessInv'
BY DEF prediction_vars, GuessInv, GuessFollowsOdom

LEMMA GuessInvInit == PredictionInit => GuessInv
<1>. SUFFICES ASSUME PredictionInit PROVE GuessInv
  OBVIOUS
<1>1. /\ known[1] = Missing /\ known[2] = Missing
      /\ known \in [1 .. 2 -> [there : BOOLEAN, odom : Int]]
  <2>1. Missing \in [there : BOOLEAN, odom : Int]
    BY DEF Missing
  <2>2. known = <<Missing, Missing>>
    BY DEF PredictionInit
  <2>. QED  BY <2>1, <2>2
<1>. QED  BY <1>1 DEF PredictionInit, GuessInv, GuessFollowsOdom, Missing

LEMMA PredictionStep ==
  ASSUME CarInv, GuessInv, PredictionNext
  PROVE  CarInv' /\ GuessInv'
<1>1. CASE CarNext /\ UNCHANGED prediction_vars
  BY <1>1, CarStep, GuessUnchanged
<1>2. ASSUME NEW there \in BOOLEAN, ReceiveCloud(there) PROVE CarInv' /\ GuessInv'
  <2>1. UNCHANGED car_vars
    BY <1>2 DEF ReceiveCloud
  <2>. QED  BY <1>2, <2>1, CarUnchanged, GuessStep DEF CarInv
<1>. QED  BY <1>1, <1>2 DEF PredictionNext

------------------------------------------------------------------------------
(* What the scan matcher is given.                                         *)

InputsInv == CarInv /\ GuessInv /\ LidarInv

LEMMA InputsInvInit == InputsInit => InputsInv
BY CarInvInit, GuessInvInit, LidarInvInit DEF InputsInit, InputsInv

LEMMA InputsStep ==
  ASSUME InputsInv, [InputsNext]_rvars
  PROVE  InputsInv'
<1>1. CASE PredictionNext /\ UNCHANGED lidar_vars
  BY <1>1, PredictionStep, LidarUnchanged DEF InputsInv
<1>2. CASE LidarNext /\ UNCHANGED <<car_vars, prediction_vars>>
  <2>1. UNCHANGED car_vars /\ UNCHANGED prediction_vars
    BY <1>2
  <2>. QED  BY <1>2, <2>1, LidarStep, CarUnchanged, GuessUnchanged DEF InputsInv
<1>3. CASE UNCHANGED <<car_vars, prediction_vars, lidar_vars>>
  <2>1. UNCHANGED car_vars /\ UNCHANGED prediction_vars /\ UNCHANGED lidar_vars
    BY <1>3
  <2>. QED  BY <2>1, LidarUnchanged, CarUnchanged, GuessUnchanged DEF InputsInv
<1>4. \/ PredictionNext /\ UNCHANGED lidar_vars
      \/ LidarNext /\ UNCHANGED <<car_vars, prediction_vars>>
      \/ UNCHANGED <<car_vars, prediction_vars, lidar_vars>>
  BY DEF InputsNext, rvars
<1>. QED  BY <1>1, <1>2, <1>3, <1>4

LEMMA InputsImuStep ==
  ASSUME ImuInv, TimesInAnyOrder, [InputsNext]_rvars
  PROVE  ImuInv'
<1>1. UNCHANGED imu_vars \/ ImuNext
  BY DEF InputsNext, rvars
<1>. QED  BY <1>1, ImuUnchanged, ImuStep

(* InputsInv holds of every reachable state.                               *)
THEOREM InputsInvariant == InputsSpec => []InputsInv
<1>1. InputsInit => InputsInv
  BY InputsInvInit
<1>2. InputsInv /\ [InputsNext]_rvars => InputsInv'
  BY InputsStep
<1>. QED  BY <1>1, <1>2, PTL DEF InputsSpec

(* The heading of the odometry, brought up to now, is wrong by no more     *)
(* than what the commands changed between two joint states.                *)
THEOREM OdometryHeading == InputsSpec => []HeadingErrorBounded
<1>1. InputsInv => HeadingErrorBounded
  BY DEF InputsInv, CarInv, HeadingError, HeadingErrorBounded
<1>. QED  BY <1>1, InputsInvariant, PTL

(* The guess follows the odometry when its transform was there for this    *)
(* cloud and the one before.                                               *)
THEOREM OdometryGuess == InputsSpec => []GuessFollowsOdom
<1>1. InputsInv => GuessFollowsOdom
  BY DEF InputsInv, GuessInv
<1>. QED  BY <1>1, InputsInvariant, PTL

(* The scans come by every direction of the pattern in as many scans as it *)
(* takes, and only the end of int takes one out of it.                     *)
THEOREM ScansCoverPattern == InputsSpec => []PatternCovered
<1>1. InputsInv => PatternCovered
  BY PatternIsCovered DEF InputsInv
<1>. QED  BY <1>1, InputsInvariant, PTL

(* The point of a direction is the nearest body in range, in whatever      *)
(* order the bodies are collided with the rays.                            *)
THEOREM NearestBodyEchoes == InputsSpec => []EchoIsNearest
<1>1. InputsInv => EchoIsNearest
  BY DEF InputsInv, LidarInv
<1>. QED  BY <1>1, InputsInvariant, PTL

(* In whatever order the points of a cloud and the clouds come, a point is *)
(* interpolated between two successive samples around its time or takes    *)
(* the newest; only a point earlier than one before it, or one looked up   *)
(* after the ring lapped the search, may be extrapolated, and then only    *)
(* from the slot its search started in.                                    *)
THEOREM PointsAreBracketed ==
  ASSUME TimesInAnyOrder
  PROVE  InputsSpec => []PointsBracketed
<1>1. InputsInit => ImuInv
  BY ImuInvInit DEF InputsInit
<1>2. ImuInv /\ [InputsNext]_rvars => ImuInv'
  BY InputsImuStep
<1>3. ImuInv => PointsBracketed
  BY DEF ImuInv, PointsBracketed, Bracketed
<1>. QED  BY <1>1, <1>2, <1>3, PTL DEF InputsSpec
==============================================================================

------------------------------ MODULE GraphSlam ------------------------------
(***************************************************************************)
(* The SLAM backend (lidarslam_ros2, graph_based_slam_component.cpp) behind*)
(* the map array its frontend publishes (module SubmapStream).  The topic  *)
(* keeps the last message only: a map array that was not delivered in time *)
(* is replaced by the next one.  The node's callbacks, its timer and its   *)
(* service are mutually exclusive: each is one action.                     *)
(*                                                                         *)
(* Submaps have the ids 0 .. n - 1.  Whether a loop is closed once a       *)
(* candidate is found depends on the registration's fitness score, which   *)
(* may be anything.                                                        *)
(***************************************************************************)
EXTENDS Integers, Sequences

CONSTANTS
  Positions, MaxStep, MaxSubmaps,
  SearchSubmapNum,         \* search_submap_num_
  NumAdjacentConstraints,  \* num_adjacent_pose_cnstraints_
  DistanceLoopClosure,     \* distance_loop_closure_
  SearchRange              \* range_of_searching_loop_closure_

ASSUME BackendAssumption ==
  /\ Positions \subseteq Int
  /\ MaxStep \in Nat
  /\ MaxSubmaps \in Nat
  /\ SearchSubmapNum \in Nat
  /\ NumAdjacentConstraints \in Nat
  /\ DistanceLoopClosure \in Nat
  /\ SearchRange \in Nat

VARIABLES
  submaps, published,      \* the frontend's map array
  topic,                   \* the map array under way to the backend, or << >>
  map_array_msg, initial_map_array_received, is_map_array_updated,
  loop_edges,              \* loop_edges_: pairs of ids
  near,                    \* ids of the submaps the last loop search read
  searched,                \* history: the longest map array searched for loops
  graph                    \* the pose graph of the last adjustment

Frontend == INSTANCE SubmapStream

frontend_vars == <<submaps, published>>
array_vars == <<map_array_msg, initial_map_array_received, is_map_array_updated>>
loop_vars == <<loop_edges, near, graph>>
vars == <<frontend_vars, topic, array_vars, loop_vars, searched>>

Ids(array) == 0 .. Len(array) - 1
SubmapOf(array, id) == array[id + 1]
Away(p, q) == IF p > q THEN p - q ELSE q - p

Init ==
  /\ Frontend!Init
  /\ topic = << >>
  /\ map_array_msg = << >>
  /\ initial_map_array_received = FALSE
  /\ is_map_array_updated = FALSE
  /\ loop_edges = << >>
  /\ near = {}
  /\ searched = 0
  /\ graph = [nodes |-> {}, edges |-> {}]

-----------------------------------------------------------------------------
ExtendMap ==
  /\ Frontend!Extend
  /\ UNCHANGED <<topic, array_vars, loop_vars, searched>>

PublishMapArray ==
  /\ Frontend!Publish
  /\ topic' = submaps
  /\ UNCHANGED <<array_vars, loop_vars, searched>>

-----------------------------------------------------------------------------
(* Mutant: only the first map array is marked as new.                      *)
MapArrayCallbackOnce ==
  /\ topic # << >>
  /\ topic' = << >>
  /\ map_array_msg' = topic
  /\ initial_map_array_received' = TRUE
  /\ is_map_array_updated' = (is_map_array_updated \/ ~initial_map_array_received)
  /\ UNCHANGED <<frontend_vars, loop_vars, searched>>

MapArrayCallback ==
  /\ topic # << >>
  /\ topic' = << >>
  /\ map_array_msg' = topic
  /\ initial_map_array_received' = TRUE
  /\ is_map_array_updated' = TRUE
  /\ UNCHANGED <<frontend_vars, loop_vars, searched>>

(* Mutant: the way from the candidate to the latest submap is not tested.  *)
IsNear(id) ==
  LET latest == map_array_msg[Len(map_array_msg)]
  IN  Away(latest.position, SubmapOf(map_array_msg, id).position) < SearchRange

(* Far from the latest submap along the way, near to it in space.          *)
IsCandidate(id) ==
  LET latest == map_array_msg[Len(map_array_msg)]
      submap == SubmapOf(map_array_msg, id)
  IN  /\ latest.distance - submap.distance > DistanceLoopClosure
      /\ Away(latest.position, submap.position) < SearchRange

Candidates == {id \in Ids(map_array_msg) : IsCandidate(id)}

(* The first of the candidates nearest to the latest submap.               *)
IsNearest(id) ==
  LET latest == map_array_msg[Len(map_array_msg)].position
      away(i) == Away(latest, SubmapOf(map_array_msg, i).position)
  IN  \A other \in Candidates :
        away(id) < away(other) \/ (away(id) = away(other) /\ id <= other)

(* The submaps before and after id: only the lower end is cut off.         *)
NearIds(id) == {i \in id - SearchSubmapNum .. id + SearchSubmapNum : i >= 0}

(* Mutant: one node too many.                                              *)
AdjacentEdgesPastEnd(n) ==
  {<<i - NumAdjacentConstraints + j, i>> :
     i \in NumAdjacentConstraints + 1 .. n, j \in 0 .. NumAdjacentConstraints - 1}

(* doPoseAdjustment: a node is tied to those before it once there are more *)
(* than NumAdjacentConstraints of them.                                    *)
AdjacentEdges(n) ==
  {<<i - NumAdjacentConstraints + j, i>> :
     i \in NumAdjacentConstraints + 1 .. n - 1, j \in 0 .. NumAdjacentConstraints - 1}

PoseGraph(array, loops) ==
  [nodes |-> Ids(array),
   edges |-> AdjacentEdges(Len(array)) \cup {loops[k] : k \in 1 .. Len(loops)}]

FindLoop ==
  \/ /\ Candidates = {}
     /\ UNCHANGED loop_vars
  \/ \E id \in Candidates :
       /\ IsNearest(id)
       /\ near' = NearIds(id)
       /\ \/ UNCHANGED <<loop_edges, graph>>
          \/ /\ loop_edges' = Append(loop_edges, <<id, Len(map_array_msg) - 1>>)
             /\ graph' = PoseGraph(map_array_msg, loop_edges')

(* Mutant: the map array is searched again at the next timer.              *)
SearchLoopAgain ==
  /\ initial_map_array_received
  /\ is_map_array_updated
  /\ FindLoop
  /\ searched' = Len(map_array_msg)
  /\ UNCHANGED <<frontend_vars, topic, array_vars>>

SearchLoop ==
  /\ initial_map_array_received
  /\ is_map_array_updated
  /\ is_map_array_updated' = FALSE
  /\ FindLoop
  /\ searched' = Len(map_array_msg)
  /\ UNCHANGED <<frontend_vars, topic, map_array_msg, initial_map_array_received>>

MapSave ==
  /\ initial_map_array_received
  /\ graph' = PoseGraph(map_array_msg, loop_edges)
  /\ UNCHANGED <<frontend_vars, topic, array_vars, loop_edges, near, searched>>

-----------------------------------------------------------------------------
Next ==
  \/ ExtendMap \/ PublishMapArray
  \/ MapArrayCallback \/ SearchLoop \/ MapSave

Spec == Init /\ [][Next]_vars

(* The topic is reliable and the timer goes on firing.                     *)
FairSpec == Spec /\ WF_vars(MapArrayCallback) /\ WF_vars(SearchLoop)

-----------------------------------------------------------------------------
(* Correctness.                                                            *)

Array == Seq([position : Positions, distance : Nat])

TypeOK ==
  /\ submaps \in Array
  /\ published \in Nat
  /\ topic \in Array
  /\ map_array_msg \in Array
  /\ initial_map_array_received \in BOOLEAN
  /\ is_map_array_updated \in BOOLEAN
  /\ loop_edges \in Seq(Nat \X Nat)
  /\ near \subseteq Nat
  /\ searched \in Nat
  /\ graph \in [nodes : SUBSET Nat, edges : SUBSET (Nat \X Nat)]

(* What relates search_submap_num to the way between two map updates.      *)
StepsShort == SearchSubmapNum * MaxStep <= DistanceLoopClosure

IsPrefixOf(s, t) == Len(s) <= Len(t) /\ \A k \in 1 .. Len(s) : s[k] = t[k]

(* README: the submaps before and after the revisited one are used for the *)
(* registration.  Each of them is a submap of the map array: the search    *)
(* does not test its upper end, and relies on the way from the revisited   *)
(* submap to the latest one being long.                                    *)
NearSubmapsExist == near \subseteq Ids(map_array_msg)

(* Every edge of a pose graph, those of loops closed on earlier and        *)
(* shorter map arrays included, joins two of its nodes.                    *)
EdgesJoinNodes == graph.edges \subseteq graph.nodes \X graph.nodes

(* No submap closes two loops: the latest submap of each loop search that  *)
(* closed one is newer than that of the search before it.                  *)
LoopsAreNew ==
  \A k \in 1 .. Len(loop_edges) - 1 : loop_edges[k][2] < loop_edges[k + 1][2]

(* The inductive strengthening.                                            *)
StepsBounded ==
  \A i, j \in 1 .. Len(submaps) :
    i <= j => submaps[j].distance - submaps[i].distance <= (j - i) * MaxStep

ArraysOfFrontend ==
  /\ IsPrefixOf(map_array_msg, submaps)
  /\ IsPrefixOf(topic, submaps)
  /\ published <= Len(submaps)
  /\ Len(map_array_msg) <= published
  /\ topic # << >> => Len(map_array_msg) < Len(topic) /\ Len(topic) = published

LoopsOfArray ==
  /\ \A k \in 1 .. Len(loop_edges) :
       /\ loop_edges[k][1] \in Ids(map_array_msg)
       /\ loop_edges[k][2] \in Ids(map_array_msg)
       /\ is_map_array_updated => loop_edges[k][2] < Len(map_array_msg) - 1
  /\ is_map_array_updated => map_array_msg # << >>
  /\ initial_map_array_received <=> map_array_msg # << >>

BackendInv ==
  /\ TypeOK
  /\ StepsBounded
  /\ ArraysOfFrontend
  /\ LoopsOfArray
  /\ LoopsAreNew
  /\ EdgesJoinNodes

(* Every map array that is published, or a newer one, is searched for      *)
(* loops.                                                                  *)
MapIsSearched ==
  \A n \in 2 .. MaxSubmaps :
    published = n ~> searched >= n
==============================================================================

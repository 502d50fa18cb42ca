---------------------------- MODULE OctomapProofs -----------------------------
(***************************************************************************)
(* For every depth of the tree, every sensor model and every set of        *)
(* launches, clouds and layers: a listening server follows the tracking    *)
(* one, a saved map comes back as it was and, while the area of the tree   *)
(* has keys, the published maps are those of the tree, the incremental map *)
(* keeps what the scan does not touch and no handler strays.  For every    *)
(* tree and every setting of a display: the voxels on display are the      *)
(* surface of one message, the picture is that of the map in memory,       *)
(* covered by its swatches, and shows the obstacles of the tree.           *)
(***************************************************************************)
EXTENDS OctomapNodes, OctomapDisplays, FiniteSetTheorems, WellFoundedInduction, TLAPS

(* What the listener knows of voxel k once the message under way arrives.  *)
Told(k) == k \in DOMAIN wire \cup DOMAIN copy
Will(k) == IF k \in DOMAIN wire THEN wire[k] ELSE copy[k]

(* A voxel without a pending change is told as it is; one with a change    *)
(* that is not a creation is told as it is not; unless its change is lost. *)
Right(k) ==
  /\ k \notin DOMAIN changed =>
       /\ k \in DOMAIN tree <=> Told(k)
       /\ k \in DOMAIN tree => Will(k) = Occupied(tree[k])
  /\ (k \in DOMAIN changed /\ ~changed[k]) =>
       k \in DOMAIN tree /\ Told(k) /\ Will(k) = ~Occupied(tree[k])

Flags(f) == f \in [DOMAIN f -> BOOLEAN]
Known == DOMAIN tree \cup DOMAIN changed \cup DOMAIN wire \cup DOMAIN copy

TrackingInv ==
  /\ Flags(changed) /\ Flags(wire) /\ Flags(copy)
  /\ health = "down" => tree = NoTree
  /\ \A k \in Known \ missed : Right(k)

(* A map file holds the occupancy it was saved from, and is only written   *)
(* when there is a server that loads it.                                   *)
FileInv ==
  file.kind # "none" => /\ params.load
                        /\ OccupiedKeys(file.tree) = file.occupied

NodesInv == FileInv /\ (params.class = "tracking" => TrackingInv)
------------------------------------------------------------------------------
(* Facts about the tree.                                                   *)
LEMMA UpdatedDomain ==
  ASSUME NEW c, InsertCloud(c)
  PROVE  DOMAIN tree \subseteq DOMAIN tree'
<1>1. PICK from, ground : InsertScan(c.pose, ground,
                 {p \in InWorld(c, from) : p[3] \in PointZ} \ ground)
  BY DEF InsertCloud
<1>2. PICK F, O : tree' = Updated(tree, F, O)
  BY <1>1 DEF InsertScan
<1>. QED  BY <1>2 DEF Updated

LEMMA MaxLikelihoodKeeps ==
  ASSUME NEW t
  PROVE  /\ DOMAIN MaxLikelihood(t) = DOMAIN t
         /\ OccupiedKeys(MaxLikelihood(t)) = OccupiedKeys(t)
<1>1. \A k \in DOMAIN t : Occupied(MaxLikelihood(t)[k]) <=> Occupied(t[k])
  BY ClampAssumption DEF MaxLikelihood, Occupied
<1>2. DOMAIN MaxLikelihood(t) = DOMAIN t
  BY DEF MaxLikelihood
<1>. QED  BY <1>1, <1>2 DEF OccupiedKeys

(* Publishing ends the callback, not the process.                          *)
LEMMA PublishAllRuns ==
  ASSUME NEW astray, PublishAll(astray)
  PROVE  health' \in {"up", "aborted", "stray"}
<1>1. \A t, b, g, p, m, inc :
        PreTraversal(t, b, g, p, m, inc).health \in {"up", "aborted", "stray"}
  BY DEF PreTraversal, Resize
<1>. QED  BY <1>1 DEF PublishAll

LEMMA RightEverywhere ==
  ASSUME TrackingInv
  PROVE  \A k : k \notin missed => Right(k)
BY DEF TrackingInv, Right, Known, Told
------------------------------------------------------------------------------
(* The listener follows.                                                   *)
LEMMA TrackingInvInit == Off /\ TrackingInit => TrackingInv
BY DEF Off, TrackingInit, TrackingInv, NoVoxels, NoTree, Known, Flags

(* The change detection keeps every voxel right, before a message is sent. *)
LEMMA ChangesRight ==
  ASSUME TrackingInv, DOMAIN tree \subseteq DOMAIN tree',
         NEW ch, ch = Changes(changed, tree, tree')
  PROVE  /\ Flags(ch)
         /\ \A k : k \notin missed =>
              /\ k \notin DOMAIN ch =>
                   /\ k \in DOMAIN tree' <=> Told(k)
                   /\ k \in DOMAIN tree' => Will(k) = Occupied(tree'[k])
              /\ (k \in DOMAIN ch /\ ~ch[k]) =>
                   k \in DOMAIN tree' /\ Told(k) /\ Will(k) = ~Occupied(tree'[k])
<1>1. Flags(ch)
  BY DEF Flags, Changes, TrackingInv
<1>2. ASSUME NEW k, k \notin missed
      PROVE  /\ k \notin DOMAIN ch =>
                   /\ k \in DOMAIN tree' <=> Told(k)
                   /\ k \in DOMAIN tree' => Will(k) = Occupied(tree'[k])
             /\ (k \in DOMAIN ch /\ ~ch[k]) =>
                   k \in DOMAIN tree' /\ Told(k) /\ Will(k) = ~Occupied(tree'[k])
  <2>1. Right(k)
    BY <1>2, RightEverywhere
  <2>2. Told(k) => Will(k) \in BOOLEAN
    BY DEF Told, Will, TrackingInv, Flags
  <2>3. \A v : Occupied(v) \in BOOLEAN
    BY DEF Occupied
  <2>4. k \in Toggled(tree, tree') <=> k \in DOMAIN tree /\ Occupied(tree[k]) # Occupied(tree'[k])
    BY DEF Toggled
  <2>5. k \in DOMAIN changed => changed[k] \in BOOLEAN
    BY DEF TrackingInv, Flags
  <2>6. k \in DOMAIN ch <=>
          \/ k \in DOMAIN changed /\ ~(k \in Toggled(tree, tree') /\ ~changed[k])
          \/ k \in DOMAIN tree' /\ k \notin DOMAIN tree
          \/ k \in Toggled(tree, tree') /\ k \notin DOMAIN changed
          \/ k \in Toggled(tree, tree') /\ k \in DOMAIN changed /\ changed[k]
    BY <2>5 DEF Changes
  <2>7. k \in DOMAIN ch => ch[k] = (IF k \in DOMAIN changed THEN changed[k] ELSE k \notin DOMAIN tree)
    BY DEF Changes
  <2>. QED  BY <2>1, <2>2, <2>3, <2>4, <2>5, <2>6, <2>7 DEF Right
<1>. QED  BY <1>1, <1>2

(* A scan, whether a message is sent or not, and also when the server      *)
(* stops over a key that is left over.                                     *)
LEMMA CloudKeepsTracking ==
  ASSUME TrackingInv, NEW c, OnCloudTracked(c)
  PROVE  TrackingInv'
<1>. DEFINE ch == Changes(changed, tree, tree')
<1>1. DOMAIN tree \subseteq DOMAIN tree'
  BY UpdatedDomain DEF OnCloudTracked
<1>2. Flags(ch)
  BY <1>1, ChangesRight
<1>3. \A k : k \notin missed =>
        /\ k \notin DOMAIN ch =>
             /\ k \in DOMAIN tree' <=> Told(k)
             /\ k \in DOMAIN tree' => Will(k) = Occupied(tree'[k])
        /\ (k \in DOMAIN ch /\ ~ch[k]) =>
             k \in DOMAIN tree' /\ Told(k) /\ Will(k) = ~Occupied(tree'[k])
  BY <1>1, ChangesRight
<1>4. health' # "down"
  BY PublishAllRuns DEF OnCloudTracked
<1>. HIDE DEF ch
<1>5. CASE changed' = ch /\ UNCHANGED <<wire, copy, missed>>
  BY <1>2, <1>3, <1>4, <1>5 DEF TrackingInv, Right, Told, Will, Flags
<1>6. CASE DOMAIN ch \subseteq DOMAIN tree' /\ changed' = NoVoxels
             /\ wire' = Message(tree', ch)
             /\ missed' = (missed \cup DOMAIN wire) \ DOMAIN ch /\ UNCHANGED copy
  <2>1. DOMAIN wire' = DOMAIN ch /\ \A k \in DOMAIN ch : wire'[k] = Occupied(tree'[k])
    BY <1>6 DEF Message
  <2>2. Flags(changed') /\ Flags(wire') /\ Flags(copy')
    BY <1>6, <2>1 DEF Flags, NoVoxels, TrackingInv, Message, Occupied
  <2>3. ASSUME NEW k, k \notin missed' PROVE Right(k)'
    <3>1. k \notin DOMAIN changed'
      BY <1>6 DEF NoVoxels
    <3>2. CASE k \in DOMAIN ch
      BY <1>6, <2>1, <3>1, <3>2 DEF Right, Told, Will
    <3>3. CASE k \notin DOMAIN ch
      BY <1>3, <1>6, <2>1, <2>3, <3>1, <3>3 DEF Right, Told, Will
    <3>. QED  BY <3>2, <3>3
  <2>. QED  BY <1>4, <2>2, <2>3 DEF TrackingInv
<1>. QED  BY <1>5, <1>6 DEF OnCloudTracked, TrackChanges, ch

(* The other steps of a tracking server and its listener.                  *)
LEMMA NextKeepsTracking ==
  ASSUME TrackingInv, TrackingNext
  PROVE  TrackingInv'
<1>1. \A k : k \notin missed => Right(k)
  BY RightEverywhere
<1>2. CASE LaunchTracked
  <2>1. tree = NoTree /\ health' # "down"
    BY <1>2, PublishAllRuns DEF LaunchTracked, Launch, TrackingInv
  <2>2. ASSUME NEW k, k \notin missed' PROVE Right(k)'
    BY <1>1, <1>2, <2>1, <2>2 DEF LaunchTracked, Right, Told, Will, NoTree
  <2>. QED  BY <1>2, <2>1, <2>2 DEF LaunchTracked, TrackingInv, Flags
<1>3. ASSUME NEW m \in params.depths, SetParameterTracked(m) PROVE TrackingInv'
  <2>1. health' # "down"
    BY <1>3, PublishAllRuns DEF SetParameterTracked
  <2>. QED  BY <1>1, <1>3, <2>1 DEF SetParameterTracked, SetParameter, TrackingInv, Right,
               Told, Will, Known, Flags, tracking_vars
<1>4. ASSUME NEW c \in params.clouds, OnCloudTracked(c) PROVE TrackingInv'
  BY <1>4, CloudKeepsTracking
<1>5. ASSUME NEW b \in Boxes, ClearBBoxTracked(b) PROVE TrackingInv'
  <2>1. health' # "down"
    BY <1>5, PublishAllRuns DEF ClearBBoxTracked
  <2>2. DOMAIN tree' = DOMAIN tree
    BY <1>5 DEF ClearBBoxTracked, ClearBBox, Cleared
  <2>3. ASSUME NEW k, k \notin missed' PROVE Right(k)'
    <3>1. k \in DOMAIN tree => Occupied(tree'[k]) = Occupied(tree[k])
      BY <1>5, <2>3 DEF ClearBBoxTracked, Toggled
    <3>. QED  BY <1>1, <1>5, <2>2, <2>3, <3>1 DEF ClearBBoxTracked, Right, Told, Will
  <2>. QED  BY <1>5, <2>1, <2>3 DEF ClearBBoxTracked, TrackingInv, Flags
<1>6. CASE ResetTracked
  <2>1. ASSUME NEW k, k \notin missed' PROVE Right(k)'
    BY <1>1, <1>6, <2>1 DEF ResetTracked, Reset, Right, Told, Will, NoTree
  <2>. QED  BY <1>6, <2>1 DEF ResetTracked, Reset, TrackingInv, Flags
<1>7. CASE StopTracked
  <2>1. ASSUME NEW k, k \notin missed' PROVE Right(k)'
    BY <1>1, <1>7, <2>1 DEF StopTracked, Stop, Right, Told, Will, NoTree, NoVoxels
  <2>2. Flags(changed') /\ Flags(wire') /\ Flags(copy')
    BY <1>7 DEF StopTracked, NoVoxels, TrackingInv, Flags
  <2>. QED  BY <1>7, <2>1, <2>2 DEF StopTracked, Stop, TrackingInv
<1>8. CASE Deliver
  <2>1. DOMAIN copy' = DOMAIN copy \cup DOMAIN wire /\ DOMAIN wire' = {}
    BY <1>8 DEF Deliver, NoVoxels
  <2>2. \A k \in DOMAIN copy' : copy'[k] = Will(k)
    BY <1>8 DEF Deliver, Will
  <2>3. UNCHANGED <<tree, health, changed, missed>>
    BY <1>8 DEF Deliver, server_vars
  <2>4. ASSUME NEW k, k \notin missed' PROVE Right(k)'
    <3>1. Right(k)
      BY <1>1, <2>3, <2>4
    <3>2. (Told(k)' <=> Told(k)) /\ (Told(k) => Will(k)' = Will(k))
      BY <2>1, <2>2 DEF Told, Will
    <3>. QED  BY <2>3, <3>1, <3>2 DEF Right
  <2>5. Flags(changed') /\ Flags(wire') /\ Flags(copy')
    <3>1. Flags(wire')
      BY <1>8 DEF Deliver, NoVoxels, Flags
    <3>2. Flags(copy')
      BY <1>8 DEF Deliver, TrackingInv, Flags
    <3>. QED  BY <2>3, <3>1, <3>2 DEF TrackingInv
  <2>. QED  BY <2>3, <2>4, <2>5 DEF TrackingInv
<1>. QED  BY <1>2, <1>3, <1>4, <1>5, <1>6, <1>7, <1>8 DEF TrackingNext
------------------------------------------------------------------------------
(* A saved map returns.                                                    *)

(* The servers keep their launch parameters, and write the file with       *)
(* FileStep only, when they load it.                                       *)
LEMMA FileKept ==
  ASSUME NodesNext
  PROVE  /\ params' = params
         /\ file' = file \/ (params.load /\ FileStep)
<1>1. ASSUME PublishingHandler PROVE UNCHANGED <<params, file>>
  BY <1>1 DEF PublishingHandler, Launch, OnCloud, ClearBBox, SetParameter
<1>2. ASSUME Reset \/ Stop PROVE UNCHANGED <<params, file>>
  BY <1>2 DEF Reset, Stop
<1>3. ASSUME FileStep PROVE params' = params
  BY <1>3 DEF FileStep, SaveMap, SaveStatic
<1>4. ASSUME ServerNext PROVE params' = params /\ (file' = file \/ (params.load /\ FileStep))
  BY <1>1, <1>2, <1>3, <1>4 DEF ServerNext
<1>5. ASSUME MultilayerNext PROVE UNCHANGED <<params, file>>
  BY <1>1, <1>2, <1>5 DEF MultilayerNext, ProjectLayers
<1>6. ASSUME TrackingNext PROVE UNCHANGED <<params, file>>
  BY <1>2, <1>6 DEF TrackingNext, LaunchTracked, Launch, SetParameterTracked, SetParameter,
     OnCloudTracked, ClearBBoxTracked, ClearBBox, ResetTracked, StopTracked, Deliver, server_vars
<1>. QED  BY <1>4, <1>5, <1>6 DEF NodesNext

LEMMA OpenedKeeps ==
  ASSUME NEW f
  PROVE  /\ OccupiedKeys(Opened(f)) = OccupiedKeys(f.tree)
         /\ DOMAIN Opened(f) = DOMAIN f.tree
BY MaxLikelihoodKeeps DEF Opened

LEMMA FileStepKeeps ==
  ASSUME FileInv, NodesNext
  PROVE  FileInv'
<1>1. CASE file' = file
  BY <1>1, FileKept DEF FileInv
<1>2. ASSUME params.load, NEW full \in BOOLEAN, NEW suffix \in {"bt", "ot"},
             SaveMap(full, suffix)
      PROVE  FileInv'
  <2>1. OccupiedKeys(Written(Served(tree, full), suffix)) = OccupiedKeys(tree)
    BY MaxLikelihoodKeeps DEF Written, Served
  <2>. QED  BY <1>2, <2>1, FileKept DEF SaveMap, FileInv
<1>3. ASSUME params.load, NEW full \in BOOLEAN, NEW suffix \in {"bt", "ot"},
             SaveStatic(full, suffix)
      PROVE  FileInv'
  <2>1. OccupiedKeys(Written(Served(Opened(file), full), suffix)) = OccupiedKeys(file.tree)
    BY MaxLikelihoodKeeps, OpenedKeeps DEF Written, Served
  <2>. QED  BY <1>3, <2>1, FileKept DEF SaveStatic, FileInv
<1>. QED  BY <1>1, <1>2, <1>3, FileKept DEF FileStep
------------------------------------------------------------------------------
LEMMA NodesInvInit == NodesInit => NodesInv
BY TrackingInvInit DEF NodesInit, Init, NodesInv, FileInv, NoFile

LEMMA NodesInvStep == NodesInv /\ [NodesNext]_nvars => NodesInv'
<1>. SUFFICES ASSUME NodesInv, [NodesNext]_nvars PROVE NodesInv'
  OBVIOUS
<1>1. CASE UNCHANGED nvars
  BY <1>1 DEF nvars, server_vars, tracking_vars, NodesInv, FileInv, TrackingInv, Right,
     Told, Will, Known, Flags
<1>2. CASE NodesNext
  <2>1. FileInv'
    BY <1>2, FileStepKeeps DEF NodesInv
  <2>2. ASSUME params'.class = "tracking" PROVE TrackingInv'
    BY <1>2, <2>2, FileKept, NextKeepsTracking DEF NodesInv, NodesNext
  <2>. QED  BY <2>1, <2>2 DEF NodesInv
<1>. QED  BY <1>1, <1>2

LEMMA NodesInvAlways == NodesSpec => []NodesInv
BY NodesInvInit, NodesInvStep, PTL DEF NodesSpec

(* Whatever is scanned, cleared, reset, lost and started again: on every   *)
(* voxel whose change is not pending or lost the listener agrees with the  *)
(* tracking server.                                                        *)
THEOREM ListenerAlwaysFollows == NodesSpec => []ListenerFollows
<1>1. NodesInv => ListenerFollows
  <2>. SUFFICES ASSUME TrackingInv PROVE ListenerAgrees
    BY DEF NodesInv, ListenerFollows
  <2>1. ASSUME NEW k \in (DOMAIN tree \cup DOMAIN copy)
                             \ (DOMAIN changed \cup DOMAIN wire \cup missed)
        PROVE  k \in DOMAIN tree /\ k \in DOMAIN copy /\ copy[k] = Occupied(tree[k])
    BY <2>1, RightEverywhere DEF Right, Told, Will
  <2>. QED  BY <2>1 DEF ListenerAgrees
<1>. QED  BY <1>1, NodesInvAlways, PTL

(* A server that loads the map it saved has the occupancy that was saved,  *)
(* in whatever format and through whatever servers the file went.          *)
THEOREM SavedMapAlwaysReturns == NodesSpec => SavedMapReturns
<1>1. NodesInv /\ [NodesNext]_nvars =>
        [health = "down" /\ health' = "up" /\ file.kind # "none" =>
           OccupiedKeys(tree') = file.occupied /\ DOMAIN tree' = DOMAIN file.tree]_nvars
  <2>. SUFFICES ASSUME NodesInv, NodesNext,
                       health = "down", health' = "up", file.kind # "none"
                PROVE  OccupiedKeys(tree') = file.occupied /\ DOMAIN tree' = DOMAIN file.tree
    OBVIOUS
  <2>1. Launch
    <3>1. CASE ServerNext
      BY <3>1 DEF ServerNext, PublishingHandler, OnCloud, ClearBBox, SetParameter, Reset,
         Stop, FileStep, SaveMap, SaveStatic
    <3>2. CASE MultilayerNext
      BY <3>2 DEF MultilayerNext, ProjectLayers, PublishingHandler, OnCloud, ClearBBox,
         SetParameter, Reset, Stop
    <3>3. CASE TrackingNext
      BY <3>3 DEF TrackingNext, LaunchTracked, SetParameterTracked, SetParameter,
         OnCloudTracked, ClearBBoxTracked, ClearBBox, ResetTracked, Reset, StopTracked,
         Stop, Deliver, server_vars
    <3>. QED  BY <3>1, <3>2, <3>3 DEF NodesNext
  <2>2. params.load /\ OccupiedKeys(file.tree) = file.occupied
    BY DEF NodesInv, FileInv
  <2>. QED  BY <2>1, <2>2, OpenedKeeps DEF Launch
<1>. QED  BY <1>1, NodesInvAlways, PTL DEF NodesSpec, SavedMapReturns
------------------------------------------------------------------------------
(* Numbers: least elements, powers of two, and rounding down.              *)
LEMMA Least ==
  ASSUME NEW T \in SUBSET Nat, T # {}
  PROVE  \E m \in T : \A n \in T : m <= n
<1>. DEFINE R == OpToRel(<, Nat)
<1>1. PICK m \in T : \A n \in T : ~ (<<n, m>> \in R)
  <2>1. IsWellFoundedOn(R, Nat)
    BY NatLessThanWellFounded
  <2>. HIDE DEF R
  <2>. QED  BY <2>1, WFMin
<1>2. ASSUME NEW n \in T PROVE m <= n
  <2>1. m \in Nat /\ n \in Nat
    OBVIOUS
  <2>2. <<n, m>> \in R <=> n < m
    BY <2>1 DEF OpToRel
  <2>. HIDE DEF R
  <2>3. ~ (n < m)
    BY <1>1, <2>2
  <2>. QED  BY <2>1, <2>3
<1>. QED  BY <1>2

(* Integers between bounds have a least and a greatest one.                *)
LEMMA LeastAndGreatest ==
  ASSUME NEW T, NEW lo \in Int, NEW hi \in Int, T \subseteq lo .. hi, T # {}
  PROVE  /\ Min(T) \in T /\ \A n \in T : Min(T) <= n
         /\ Max(T) \in T /\ \A n \in T : Max(T) >= n
<1>1. \E m \in T : \A n \in T : m <= n
  <2>. DEFINE up == {n - lo : n \in T}
  <2>1. up \in SUBSET Nat /\ up # {}
    <3>1. \A n \in T : n - lo \in Nat
      OBVIOUS
    <3>. QED  BY <3>1
  <2>. HIDE DEF up
  <2>2. PICK m \in up : \A n \in up : m <= n
    BY <2>1, Least
  <2>3. PICK k \in T : m = k - lo
    BY DEF up
  <2>4. \A n \in T : m <= n - lo
    BY <2>2 DEF up
  <2>. QED  BY <2>3, <2>4
<1>2. \E m \in T : \A n \in T : m >= n
  <2>. DEFINE down == {hi - n : n \in T}
  <2>1. down \in SUBSET Nat /\ down # {}
    <3>1. \A n \in T : hi - n \in Nat
      OBVIOUS
    <3>. QED  BY <3>1
  <2>. HIDE DEF down
  <2>2. PICK m \in down : \A n \in down : m <= n
    BY <2>1, Least
  <2>3. PICK k \in T : m = hi - k
    BY DEF down
  <2>4. \A n \in T : m <= hi - n
    BY <2>2 DEF down
  <2>. QED  BY <2>3, <2>4
<1>. QED  BY <1>1, <1>2 DEF Min, Max

(* The blocks of the tree.                                                 *)
LEMMA PowerType ==
  ASSUME NEW n \in Nat
  PROVE  2 ^ n \in Nat \ {0}
<1>1. IsFiniteSet(1 .. n) /\ Cardinality(1 .. n) = n
  <2>1. 1 \in Int /\ n \in Int
    OBVIOUS
  <2>. QED  BY <2>1, FS_Interval
<1>2. /\ IsFiniteSet(SUBSET (1 .. n))
      /\ Cardinality(SUBSET (1 .. n)) = 2 ^ n
  BY <1>1, FS_SUBSET
<1>3. SUBSET (1 .. n) # {}
  OBVIOUS
<1>. QED  BY <1>2, <1>3, FS_CardinalityType, FS_EmptySet

(* The widths of the blocks, from a voxel to the whole space.              *)
LEMMA Widths ==
  /\ Depth \in Nat
  /\ \A d \in 0 .. Depth : WidthAt(d) \in Nat \ {0}
  /\ WidthAt(Depth) = 1
  /\ WidthAt(0) = Side
  /\ Side \in Nat \ {0} /\ Zero \in Nat
<1>1. Depth \in Nat
  BY DepthAssumption
<1>2. ASSUME NEW d \in 0 .. Depth PROVE WidthAt(d) \in Nat \ {0}
  <2>1. Depth - d \in Nat
    BY <1>1
  <2>. QED  BY <2>1, PowerType DEF WidthAt
<1>3. WidthAt(Depth) = 1
  <2>1. Depth - Depth = 0 /\ 2 ^ 0 = 1
    BY <1>1
  <2>. QED  BY <2>1 DEF WidthAt
<1>4. WidthAt(0) = Side
  <2>1. Depth - 0 = Depth
    BY <1>1
  <2>. QED  BY <2>1 DEF WidthAt, Side
<1>5. Side \in Nat \ {0}
  BY <1>1, PowerType DEF Side
<1>6. Zero \in Nat
  BY <1>5 DEF Zero
<1>. QED  BY <1>1, <1>2, <1>3, <1>4, <1>5, <1>6

(* Rounding down to a multiple of w.                                       *)
LEMMA RoundedDown ==
  ASSUME NEW w \in Nat \ {0}
  PROVE  /\ \A i \in Int : /\ (i \div w) * w \in Int
                           /\ (i \div w) * w <= i /\ i < (i \div w) * w + w
         /\ \A i \in Nat : (i \div w) * w \in Nat
         /\ \A i, j \in Int : (i \div w) * w <= j /\ j < (i \div w) * w + w => j \div w = i \div w
<1>1. ASSUME NEW i \in Int
      PROVE  /\ (i \div w) * w \in Int
             /\ (i \div w) * w <= i /\ i < (i \div w) * w + w
  <2>. DEFINE q == i \div w
              r == i % w
  <2>1. q \in Int /\ r \in 0 .. w - 1 /\ i = w * q + r
    OBVIOUS
  <2>. HIDE DEF q, r
  <2>2. q * w \in Int /\ q * w = w * q
    BY <2>1
  <2>3. q * w <= i /\ i < q * w + w
    <3>. DEFINE p == q * w
    <3>1. p \in Int /\ i = p + r
      BY <2>1, <2>2
    <3>. HIDE DEF p
    <3>2. p <= i /\ i < p + w
      BY <2>1, <3>1
    <3>. QED  BY <3>2 DEF p
  <2>. QED  BY <2>2, <2>3 DEF q
<1>2. ASSUME NEW i \in Nat PROVE (i \div w) * w \in Nat
  <2>1. i \div w \in Nat
    OBVIOUS
  <2>. DEFINE q == i \div w
  <2>. HIDE DEF q
  <2>2. q * w \in Nat
    BY <2>1 DEF q
  <2>. QED  BY <2>2 DEF q
<1>3. ASSUME NEW i \in Int, NEW j \in Int,
             (i \div w) * w <= j, j < (i \div w) * w + w
      PROVE  j \div w = i \div w
  <2>. DEFINE q == i \div w
              p == j \div w
  <2>1. q \in Int /\ p \in Int
    OBVIOUS
  <2>2. q * w <= j /\ j < q * w + w /\ p * w <= j /\ j < p * w + w
    BY <1>1, <1>3
  <2>. HIDE DEF p, q
  <2>3. ~ (p < q)
    <3>. SUFFICES ASSUME p + 1 <= q PROVE FALSE
      BY <2>1
    <3>1. q - (p + 1) \in Nat /\ (q - (p + 1)) * w \in Nat
      BY <2>1
    <3>2. (q - (p + 1)) * w = q * w - p * w - w /\ q * w \in Int /\ p * w \in Int
      BY <2>1
    <3>. QED  BY <2>2, <3>1, <3>2
  <2>4. ~ (q < p)
    <3>. SUFFICES ASSUME q + 1 <= p PROVE FALSE
      BY <2>1
    <3>1. p - (q + 1) \in Nat /\ (p - (q + 1)) * w \in Nat
      BY <2>1
    <3>2. (p - (q + 1)) * w = p * w - q * w - w /\ q * w \in Int /\ p * w \in Int
      BY <2>1
    <3>. QED  BY <2>2, <3>1, <3>2
  <2>5. p = q
    BY <2>1, <2>3, <2>4
  <2>. QED  BY <2>5 DEF p, q
<1>. QED  BY <1>1, <1>2, <1>3
------------------------------------------------------------------------------
Voxels == Int \X Int \X Int

(* Voxels, in and out of the space.                                        *)
LEMMA VoxelIs ==
  ASSUME NEW k \in Voxels
  PROVE  /\ k = <<k[1], k[2], k[3]>> /\ k[1] \in Int /\ k[2] \in Int /\ k[3] \in Int
BY DEF Voxels

LEMMA KeysAreVoxels ==
  /\ Key \subseteq Voxels
  /\ \A k \in Voxels : k \in Key <=> \A i \in 1 .. 3 : k[i] >= 0 /\ k[i] < Side
<1>1. Side \in Nat \ {0}
  BY Widths
<1>2. Key \subseteq Voxels
  BY <1>1 DEF Key, Voxels
<1>3. ASSUME NEW k \in Voxels
      PROVE  k \in Key <=> \A i \in 1 .. 3 : k[i] >= 0 /\ k[i] < Side
  <2>1. k = <<k[1], k[2], k[3]>> /\ k[1] \in Int /\ k[2] \in Int /\ k[3] \in Int
    BY VoxelIs
  <2>2. k \in Key <=> k[1] \in 0 .. Side - 1 /\ k[2] \in 0 .. Side - 1 /\ k[3] \in 0 .. Side - 1
    BY <2>1 DEF Key
  <2>. QED  BY <1>1, <2>1, <2>2
<1>. QED  BY <1>2, <1>3

(* The voxels of a block, and the corner of a voxel's block.               *)
LEMMA InBlock ==
  ASSUME NEW d \in 0 .. Depth, NEW c \in Voxels, NEW k \in Voxels
  PROVE  k \in Block(c, d) <=> \A i \in 1 .. 3 : c[i] <= k[i] /\ k[i] < c[i] + WidthAt(d)
<1>1. WidthAt(d) \in Nat \ {0}
  BY Widths
<1>2. /\ k = <<k[1], k[2], k[3]>> /\ k[1] \in Int /\ k[2] \in Int /\ k[3] \in Int
      /\ c[1] \in Int /\ c[2] \in Int /\ c[3] \in Int
  BY VoxelIs
<1>3. k \in Block(c, d) <=>
        /\ k[1] \in c[1] .. c[1] + WidthAt(d) - 1
        /\ k[2] \in c[2] .. c[2] + WidthAt(d) - 1
        /\ k[3] \in c[3] .. c[3] + WidthAt(d) - 1
  BY <1>2 DEF Block
<1>4. \A i \in 1 .. 3 : i = 1 \/ i = 2 \/ i = 3
  OBVIOUS
<1>. QED  BY <1>1, <1>2, <1>3, <1>4

LEMMA BlockInVoxels ==
  ASSUME NEW d \in 0 .. Depth, NEW c \in Voxels
  PROVE  Block(c, d) \subseteq Voxels
<1>1. WidthAt(d) \in Nat \ {0} /\ c[1] \in Int /\ c[2] \in Int /\ c[3] \in Int
  BY Widths, VoxelIs
<1>. QED  BY <1>1 DEF Block, Voxels

LEMMA Corners ==
  ASSUME NEW d \in 0 .. Depth, NEW k \in Voxels
  PROVE  /\ Corner(k, d) \in Voxels
         /\ \A i \in 1 .. 3 : /\ Corner(k, d)[i] = (k[i] \div WidthAt(d)) * WidthAt(d)
                              /\ Corner(k, d)[i] <= k[i]
                              /\ k[i] < Corner(k, d)[i] + WidthAt(d)
         /\ k \in Block(Corner(k, d), d)
         /\ \A j \in Block(Corner(k, d), d) : j \in Voxels /\ Corner(j, d) = Corner(k, d)
         /\ d = Depth => Corner(k, d) = k
<1>. DEFINE w == WidthAt(d)
            c == Corner(k, d)
<1>1. w \in Nat \ {0} /\ d = Depth => w = 1
  BY Widths
<1>2. w \in Nat \ {0}
  BY Widths
<1>3. \A i \in 1 .. 3 : k[i] \in Int
  BY VoxelIs
<1>. HIDE DEF w
<1>4. \A i \in 1 .. 3 : c[i] = (k[i] \div w) * w
  BY DEF Corner, w
<1>. HIDE DEF c
<1>5. \A i \in 1 .. 3 : c[i] \in Int /\ c[i] <= k[i] /\ k[i] < c[i] + w
  BY <1>2, <1>3, <1>4, RoundedDown
<1>6. c = <<c[1], c[2], c[3]>>
  BY DEF c, Corner
<1>7. c \in Voxels
  BY <1>5, <1>6 DEF Voxels
<1>8. k \in Block(c, d)
  BY <1>5, <1>7, InBlock DEF w
<1>9. ASSUME NEW j \in Block(c, d) PROVE j \in Voxels /\ Corner(j, d) = c
  <2>1. j \in Voxels
    BY <1>7, BlockInVoxels
  <2>2. \A i \in 1 .. 3 : j[i] \in Int /\ c[i] <= j[i] /\ j[i] < c[i] + w
    BY <1>7, <2>1, InBlock, VoxelIs DEF w
  <2>3. \A i \in 1 .. 3 : j[i] \div w = k[i] \div w
    BY <1>2, <1>3, <1>4, <2>2, RoundedDown
  <2>4. Corner(j, d) = [i \in 1 .. 3 |-> (j[i] \div w) * w]
    BY DEF Corner, w
  <2>5. c = [i \in 1 .. 3 |-> (k[i] \div w) * w]
    BY DEF c, Corner, w
  <2>. QED  BY <2>1, <2>3, <2>4, <2>5
<1>10. ASSUME d = Depth PROVE c = k
  <2>1. w = 1
    BY <1>10, Widths DEF w
  <2>2. \A i \in 1 .. 3 : c[i] = k[i]
    BY <1>3, <1>5, <2>1
  <2>. QED  BY <1>6, <2>2, VoxelIs
<1>. QED  BY <1>4, <1>5, <1>7, <1>8, <1>9, <1>10 DEF c, w
------------------------------------------------------------------------------
TreeOK(t) == t \in [DOMAIN t -> LogOdds] /\ DOMAIN t \subseteq Key

(* The leaf n of voxel k in a traversal that stops at depth m.             *)
LeafOf(n, t, m, k) ==
  /\ k \in DOMAIN t
  /\ n.depth \in 0 .. m
  /\ n.corner = Corner(k, n.depth)
  /\ n.depth = m \/ Pruned(t, k, n.depth)

(* Every voxel has one leaf, whose value is the largest in its block.      *)
LEMMA LeafDepthIs ==
  ASSUME NEW t, TreeOK(t), NEW k \in DOMAIN t
  PROVE  LeafDepth(t, k) \in 0 .. Depth /\ Pruned(t, k, LeafDepth(t, k))
<1>. DEFINE D == {d \in 0 .. Depth : Pruned(t, k, d)}
<1>1. k \in Voxels /\ Depth \in 0 .. Depth /\ Depth \in Int
  BY KeysAreVoxels, Widths DEF TreeOK
<1>2. \A j \in Block(Corner(k, Depth), Depth) : j = k
  <2>1. \A j \in Block(Corner(k, Depth), Depth) :
           j \in Voxels /\ Corner(j, Depth) = Corner(k, Depth)
    BY <1>1, Corners
  <2>. QED  BY <1>1, <2>1, Corners
<1>3. Pruned(t, k, Depth)
  BY <1>2 DEF Pruned
<1>4. D # {} /\ D \subseteq 0 .. Depth
  BY <1>1, <1>3
<1>. HIDE DEF D
<1>5. Min(D) \in D
  <2>1. 0 \in Int /\ Depth \in Int
    BY <1>1
  <2>. QED  BY <1>4, <2>1, LeastAndGreatest, Zenon
<1>. QED  BY <1>5 DEF D, LeafDepth

LEMMA LeastOfTwo ==
  ASSUME NEW a \in Int, NEW b \in Int
  PROVE  /\ Min({a, b}) = IF a <= b THEN a ELSE b
         /\ Max({a, b}) = IF a <= b THEN b ELSE a
<1>. DEFINE lo == IF a <= b THEN a ELSE b
            hi == IF a <= b THEN b ELSE a
<1>1. {a, b} \subseteq lo .. hi /\ {a, b} # {} /\ lo \in Int /\ hi \in Int
  OBVIOUS
<1>2. /\ Min({a, b}) \in {a, b} /\ \A n \in {a, b} : Min({a, b}) <= n
      /\ Max({a, b}) \in {a, b} /\ \A n \in {a, b} : Max({a, b}) >= n
  <2>. HIDE DEF lo, hi
  <2>. QED  BY <1>1, LeastAndGreatest
<1>. QED  BY <1>2

LEMMA LeavesAre ==
  ASSUME NEW t, TreeOK(t), NEW m \in 0 .. Depth
  PROVE  /\ \A n \in Leaves(t, m) : \E k \in DOMAIN t : LeafOf(n, t, m, k)
         /\ \A k \in DOMAIN t : \E n \in Leaves(t, m) : LeafOf(n, t, m, k)
<1>1. ASSUME NEW k \in DOMAIN t
      PROVE  LeafDepth(t, k) \in 0 .. Depth /\ Pruned(t, k, LeafDepth(t, k))
  BY LeafDepthIs
<1>2. ASSUME NEW k \in DOMAIN t
      PROVE  \E d : /\ d = Min({m, LeafDepth(t, k)})
                    /\ LeafOf([depth |-> d, corner |-> Corner(k, d)], t, m, k)
  <2>. DEFINE e == LeafDepth(t, k)
              d == Min({m, e})
  <2>1. e \in 0 .. Depth /\ Pruned(t, k, e) /\ Depth \in Int
    BY <1>1, Widths
  <2>. HIDE DEF e
  <2>2. d \in {m, e} /\ d <= m /\ d <= e
    <3>1. {m, e} \subseteq 0 .. Depth /\ {m, e} # {}
      BY <2>1
    <3>. QED  BY <2>1, <3>1, LeastAndGreatest
  <2>. HIDE DEF d
  <2>3. d \in 0 .. m /\ (d = m \/ Pruned(t, k, d))
    BY <2>1, <2>2
  <2>4. LeafOf([depth |-> d, corner |-> Corner(k, d)], t, m, k)
    BY <2>3 DEF LeafOf
  <2>. QED  BY <2>4 DEF d, e
<1>3. ASSUME NEW n \in Leaves(t, m) PROVE \E k \in DOMAIN t : LeafOf(n, t, m, k)
  BY <1>2 DEF Leaves
<1>4. ASSUME NEW k \in DOMAIN t PROVE \E n \in Leaves(t, m) : LeafOf(n, t, m, k)
  BY <1>2 DEF Leaves
<1>. QED  BY <1>3, <1>4

(* A leaf has the value of its greatest voxel.                             *)
LEMMA LeafValueIs ==
  ASSUME NEW t, TreeOK(t), NEW m \in 0 .. Depth, NEW n, NEW k, LeafOf(n, t, m, k)
  PROVE  /\ n.depth \in 0 .. Depth /\ n.corner \in Voxels /\ k \in Voxels
         /\ k \in Block(n.corner, n.depth)
         /\ LeafValue(t, n) \in LogOdds
         /\ \E j \in Block(n.corner, n.depth) \cap DOMAIN t : t[j] = LeafValue(t, n)
         /\ \A j \in Block(n.corner, n.depth) \cap DOMAIN t : t[j] <= LeafValue(t, n)
         /\ Occupied(LeafValue(t, n)) <=>
              \E j \in Block(n.corner, n.depth) \cap DOMAIN t : Occupied(t[j])
<1>. DEFINE B == Block(n.corner, n.depth) \cap DOMAIN t
            V == {t[j] : j \in B}
<1>1. Depth \in Nat /\ n.depth \in 0 .. Depth /\ k \in Voxels /\ k \in DOMAIN t
  BY Widths, KeysAreVoxels DEF LeafOf, TreeOK
<1>2. n.corner \in Voxels /\ k \in B
  BY <1>1, Corners DEF LeafOf
<1>3. \A j \in B : t[j] \in LogOdds
  BY DEF TreeOK
<1>4. V \subseteq ClampMin .. ClampMax /\ V # {}
  BY <1>2, <1>3 DEF LogOdds
<1>5. Max(V) \in V /\ \A v \in V : Max(V) >= v
  <2>. HIDE DEF V
  <2>. QED  BY <1>4, ClampAssumption, LeastAndGreatest
<1>6. LeafValue(t, n) = Max(V)
  BY DEF LeafValue
<1>. DEFINE top == Max(V)
<1>. HIDE DEF top
<1>7. top \in LogOdds /\ (\E j \in B : t[j] = top) /\ \A j \in B : t[j] <= top
  BY <1>3, <1>5, ClampAssumption DEF top, LogOdds
<1>8. Occupied(top) <=> \E j \in B : Occupied(t[j])
  BY <1>3, <1>7, ClampAssumption DEF Occupied, LogOdds
<1>. QED  BY <1>1, <1>2, <1>6, <1>7, <1>8 DEF top

(* What the occupied leaves show: each voxel of theirs is in the block of  *)
(* an occupied one.                                                        *)
LEMMA OccupiedLeavesShow ==
  ASSUME NEW t, TreeOK(t), NEW m \in 0 .. Depth,
         NEW n \in Leaves(t, m), Occupied(LeafValue(t, n)),
         NEW j \in Block(n.corner, n.depth) \cap DOMAIN t
  PROVE  \E k \in OccupiedKeys(t) : j \in Block(Corner(k, m), m)
<1>1. PICK k \in DOMAIN t : LeafOf(n, t, m, k)
  BY LeavesAre
<1>2. /\ n.depth \in 0 .. Depth /\ n.corner \in Voxels /\ k \in Voxels
      /\ \E i \in Block(n.corner, n.depth) \cap DOMAIN t : Occupied(t[i])
  BY <1>1, LeafValueIs
<1>3. PICK i \in Block(n.corner, n.depth) \cap DOMAIN t : Occupied(t[i])
  BY <1>2
<1>4. i \in OccupiedKeys(t) /\ i \in Voxels /\ j \in Voxels
  BY <1>3, KeysAreVoxels DEF OccupiedKeys, TreeOK
<1>5. CASE n.depth = m
  <2>1. n.corner = Corner(k, m) /\ Corner(i, m) = Corner(k, m)
    BY <1>1, <1>2, <1>3, <1>5, Corners DEF LeafOf
  <2>. QED  BY <1>4, <1>5, <2>1
<1>6. CASE Pruned(t, k, n.depth)
  <2>1. t[j] = t[k] /\ t[i] = t[k]
    BY <1>1, <1>3, <1>6 DEF Pruned, LeafOf
  <2>2. j \in OccupiedKeys(t)
    BY <1>3, <2>1 DEF OccupiedKeys
  <2>. QED  BY <1>4, <2>2, Corners
<1>. QED  BY <1>1, <1>5, <1>6 DEF LeafOf

(* A ray between two voxels of the space stays in it.                      *)
On(a, b, i, n) == a + ((b - a) * i) \div n

LEMMA Between ==
  ASSUME NEW a \in Int, NEW b \in Int, NEW s \in Int, a >= 0, a < s, b >= 0, b < s,
         NEW n \in Nat \ {0}, NEW i \in 0 .. n - 1
  PROVE  On(a, b, i, n) \in 0 .. s - 1
<1>. DEFINE d == b - a
            p == d * i
            q == p \div n
<1>1. d \in Int /\ i \in Nat /\ n \in Nat \ {0} /\ i < n
  OBVIOUS
<1>. HIDE DEF d
<1>2. p \in Int
  BY <1>1
<1>3. q \in Int /\ q * n <= p /\ p < q * n + n /\ q * n \in Int
  <2>. HIDE DEF p
  <2>. QED  BY <1>1, <1>2, RoundedDown
<1>4. CASE d >= 0
  <2>1. 0 <= p /\ p <= d * n /\ d * n \in Int
    <3>1. d \in Nat /\ d * i \in Nat /\ n - i \in Nat /\ d * (n - i) \in Nat
      BY <1>1, <1>4
    <3>2. d * (n - i) = d * n - d * i /\ d * n \in Int
      BY <1>1
    <3>. QED  BY <3>1, <3>2
  <2>. HIDE DEF p, q
  <2>2. q >= 0
    <3>. SUFFICES ASSUME q + 1 <= 0 PROVE FALSE
      BY <1>3
    <3>1. -(q + 1) \in Nat /\ (-(q + 1)) * n \in Nat
      BY <1>1, <1>3
    <3>2. (-(q + 1)) * n = -(q * n) - n
      BY <1>1, <1>3
    <3>. QED  BY <1>2, <1>3, <2>1, <3>1, <3>2, <1>1
  <2>3. q <= d
    <3>. SUFFICES ASSUME q - (d + 1) \in Nat PROVE FALSE
      BY <1>1, <1>3
    <3>1. (q - (d + 1)) * n \in Nat
      BY <1>1
    <3>2. (q - (d + 1)) * n = q * n - d * n - n
      BY <1>1, <1>3
    <3>. QED  BY <1>1, <1>2, <1>3, <2>1, <3>1, <3>2
  <2>. QED  BY <1>1, <1>3, <2>2, <2>3 DEF d, p, q, On
<1>5. CASE d < 0
  <2>1. p <= 0 /\ d * n <= p /\ d * n \in Int
    <3>1. -d \in Nat /\ (-d) * i \in Nat /\ n - i \in Nat /\ (-d) * (n - i) \in Nat
      BY <1>1, <1>5
    <3>2. (-d) * (n - i) = d * i - d * n /\ d * n \in Int /\ (-d) * i = -(d * i)
      BY <1>1
    <3>. QED  BY <1>2, <3>1, <3>2
  <2>. HIDE DEF p, q
  <2>2. q <= 0
    <3>. SUFFICES ASSUME q - 1 \in Nat PROVE FALSE
      BY <1>3
    <3>1. (q - 1) * n \in Nat
      BY <1>1
    <3>2. (q - 1) * n = q * n - n
      BY <1>1, <1>3
    <3>. QED  BY <1>1, <1>2, <1>3, <2>1, <3>1, <3>2
  <2>3. d <= q
    <3>. SUFFICES ASSUME d - (q + 1) \in Nat PROVE FALSE
      BY <1>1, <1>3
    <3>1. (d - (q + 1)) * n \in Nat
      BY <1>1
    <3>2. (d - (q + 1)) * n = d * n - q * n - n
      BY <1>1, <1>3
    <3>. QED  BY <1>1, <1>2, <1>3, <2>1, <3>1, <3>2
  <2>. QED  BY <1>1, <1>3, <2>2, <2>3 DEF d, p, q, On
<1>. QED  BY <1>1, <1>4, <1>5

(* Rays, scans, boxes and files leave a tree of log-odds within the space. *)
LEMMA RayInKey ==
  ASSUME NEW o, NEW p
  PROVE  Ray(o, p) \subseteq Key
<1>. SUFFICES ASSUME o \in Key, p \in Key,
                     NEW i \in 0 .. Distance(o, p) - 1
              PROVE  Toward(o, p, i, Distance(o, p)) \in Key
  BY DEF Ray
<1>. DEFINE n == Distance(o, p)
            D == {Abs(p[j] - o[j]) : j \in 1 .. 3}
<1>1. /\ \A j \in 1 .. 3 : /\ p[j] \in Int /\ o[j] \in Int
                           /\ p[j] >= 0 /\ p[j] < Side /\ o[j] >= 0 /\ o[j] < Side
      /\ Side \in Nat \ {0}
  BY KeysAreVoxels, VoxelIs, Widths
<1>2. D \subseteq 0 .. Side /\ D # {}
  <2>1. \A j \in 1 .. 3 : Abs(p[j] - o[j]) \in 0 .. Side
    BY <1>1 DEF Abs
  <2>2. Abs(p[1] - o[1]) \in D
    OBVIOUS
  <2>. QED  BY <2>1, <2>2
<1>3. n \in 0 .. Side
  <2>1. 0 \in Int /\ Side \in Int
    BY <1>1
  <2>2. Max(D) \in D
    <3>. HIDE DEF D
    <3>. QED  BY <1>2, <2>1, LeastAndGreatest, Zenon
  <2>. QED  BY <1>2, <2>2 DEF Distance
<1>4. n \in Nat \ {0} /\ i \in 0 .. n - 1
  BY <1>1, <1>3
<1>. HIDE DEF n
<1>5. ASSUME NEW j \in 1 .. 3 PROVE On(o[j], p[j], i, n) \in 0 .. Side - 1
  <2>. DEFINE a == o[j]
              b == p[j]
  <2>1. a \in Int /\ b \in Int /\ a >= 0 /\ a < Side /\ b >= 0 /\ b < Side /\ Side \in Int
    BY <1>1
  <2>. HIDE DEF a, b
  <2>2. On(a, b, i, n) \in 0 .. Side - 1
    BY <1>4, <2>1, Between
  <2>. QED  BY <2>2 DEF a, b
<1>6. Toward(o, p, i, n) = <<On(o[1], p[1], i, n), On(o[2], p[2], i, n), On(o[3], p[3], i, n)>>
  BY DEF Toward, On
<1>. QED  BY <1>5, <1>6 DEF Key, n

(* What changes the tree keeps its voxels in the space and their log-odds  *)
(* between the bounds.                                                     *)
LEMMA NoTreeOK == TreeOK(NoTree)
BY DEF TreeOK, NoTree

LEMMA UpdatedOK ==
  ASSUME NEW t, TreeOK(t), NEW F \in SUBSET Key, NEW O \in SUBSET Key
  PROVE  TreeOK(Updated(t, F, O))
<1>. DEFINE u == Updated(t, F, O)
            K == DOMAIN t \cup F \cup O
<1>1. K \subseteq Key /\ DOMAIN u = K
  BY DEF TreeOK, Updated
<1>2. ASSUME NEW k \in K PROVE u[k] \in LogOdds
  <2>. DEFINE v == IF k \in DOMAIN t THEN t[k] ELSE 0
  <2>1. v \in LogOdds
    BY ClampAssumption DEF TreeOK, LogOdds
  <2>. HIDE DEF v
  <2>2. u[k] = IF k \in O THEN Clamp(v + Hit) ELSE IF k \in F THEN Clamp(v - Miss) ELSE v
    BY DEF Updated, v
  <2>3. \A i \in Int : Clamp(i) \in LogOdds
    BY ClampAssumption DEF Clamp, LogOdds
  <2>4. v + Hit \in Int /\ v - Miss \in Int
    BY <2>1, SensorModel DEF LogOdds
  <2>. HIDE DEF u
  <2>. QED  BY <2>1, <2>2, <2>3, <2>4
<1>3. u = [k \in K |-> u[k]]
  BY DEF Updated
<1>. HIDE DEF u, K
<1>4. u \in [K -> LogOdds]
  BY <1>2, <1>3
<1>. QED  BY <1>1, <1>4 DEF TreeOK, u

LEMMA FreeInKey ==
  ASSUME NEW o, NEW ground, NEW rest
  PROVE  FreeCells(o, ground, rest) \in SUBSET Key
<1>. SUFFICES ASSUME NEW x \in FreeCells(o, ground, rest) PROVE x \in Key
  OBVIOUS
<1>1. \/ x \in FarEnds(o, rest) \cap Key
      \/ \E p : x \in Ray(o, p)
  BY DEF FreeCells
<1>. QED  BY <1>1, RayInKey

LEMMA CloudOK ==
  ASSUME TreeOK(tree), NEW c, InsertCloud(c)
  PROVE  TreeOK(tree')
<1>1. PICK from, ground : InsertScan(c.pose, ground,
                 {p \in InWorld(c, from) : p[3] \in PointZ} \ ground)
  BY DEF InsertCloud
<1>. DEFINE rest == {p \in InWorld(c, from) : p[3] \in PointZ} \ ground
            occ == OccupiedCells(c.pose, rest)
            free == FreeCells(c.pose, ground, rest)
<1>2. tree' = Updated(tree, free \ occ, occ)
  BY <1>1 DEF InsertScan
<1>. HIDE DEF rest
<1>3. occ \in SUBSET Key
  BY DEF OccupiedCells, Hits
<1>4. free \in SUBSET Key
  BY FreeInKey
<1>. HIDE DEF occ, free
<1>. QED  BY <1>2, <1>3, <1>4, UpdatedOK

LEMMA MaxLikelihoodOK ==
  ASSUME NEW t, TreeOK(t)
  PROVE  TreeOK(MaxLikelihood(t))
BY ClampAssumption DEF MaxLikelihood, TreeOK, LogOdds

LEMMA ClearedOK ==
  ASSUME NEW t, TreeOK(t), NEW b
  PROVE  TreeOK(Cleared(t, b))
BY ClampAssumption DEF Cleared, TreeOK, LogOdds
------------------------------------------------------------------------------
(* Every step of a node: a handler that ends in publishing, a scan that    *)
(* strays before it, or a step that leaves the server alone or starts it   *)
(* over.                                                                   *)
Strayed ==
  /\ health = "up" /\ health' = "stray"
  /\ \E c \in params.clouds : InsertCloud(c)
  /\ params.class = "tracking"
  /\ ~(DOMAIN Changes(changed, tree, tree') \subseteq DOMAIN tree')
  /\ UNCHANGED <<params, depth, incremental, file, grid, proj, out>>

MapFields == {"x0", "y0", "width", "height", "res", "data"}

ServerTypes ==
  /\ params \in Launches
  /\ DOMAIN grid = MapFields
  /\ depth \in 0 .. Depth
  /\ incremental \in {params.incremental, FALSE}
  /\ TreeOK(tree) /\ TreeOK(file.tree)
  /\ health \in {"down", "up", "aborted", "stray"}
  /\ health = "down" => tree = NoTree /\ out = NothingPublished /\ incremental = FALSE

LEMMA NodeSteps ==
  ASSUME NodesNext, incremental \in {params.incremental, FALSE}
  PROVE  \/ /\ PublishingHandler /\ \E astray \in BOOLEAN : PublishAll(astray)
            /\ params.class = "plain" => PublishAll(FALSE) /\ UNCHANGED <<tracking_vars, layers>>
            /\ params.class = "tracking" => PublishAll(FALSE) /\ TrackingNext /\ UNCHANGED layers
            /\ params.class = "multilayer" => ProjectLayers /\ UNCHANGED tracking_vars
            /\ params.class \in {"plain", "tracking", "multilayer"}
         \/ Strayed
         \/ Reset
         \/ Stop
         \/ FileStep
         \/ UNCHANGED server_vars
<1>1. CASE params.class = "plain"
  BY <1>1 DEF NodesNext, ServerNext
<1>2. CASE params.class = "tracking" /\ TrackingNext /\ UNCHANGED layers
  <2>1. CASE LaunchTracked
    BY <1>2, <2>1 DEF LaunchTracked, PublishingHandler
  <2>2. ASSUME NEW m \in params.depths, SetParameterTracked(m) PROVE PublishingHandler /\ PublishAll(FALSE)
    BY <2>2 DEF SetParameterTracked, PublishingHandler
  <2>3. ASSUME NEW c \in params.clouds, OnCloudTracked(c)
        PROVE  (PublishingHandler /\ PublishAll(FALSE)) \/ Strayed
    <3>1. CASE PublishAll(FALSE)
      BY <2>3, <3>1 DEF OnCloudTracked, OnCloud, PublishingHandler
    <3>2. CASE ~PublishAll(FALSE)
      BY <1>2, <2>3, <3>2 DEF OnCloudTracked, Strayed
    <3>. QED  BY <3>1, <3>2
  <2>4. ASSUME NEW b \in Boxes, ClearBBoxTracked(b) PROVE PublishingHandler /\ PublishAll(FALSE)
    BY <2>4 DEF ClearBBoxTracked, PublishingHandler
  <2>5. CASE ResetTracked
    BY <2>5 DEF ResetTracked
  <2>6. CASE StopTracked
    BY <2>6 DEF StopTracked
  <2>7. CASE Deliver
    BY <2>7 DEF Deliver
  <2>. QED  BY <1>2, <2>1, <2>2, <2>3, <2>4, <2>5, <2>6, <2>7 DEF TrackingNext
<1>3. CASE params.class = "multilayer" /\ MultilayerNext /\ UNCHANGED tracking_vars
  <2>1. ASSUME ProjectLayers PROVE PublishingHandler /\ \E astray \in BOOLEAN : PublishAll(astray)
    <3>1. PublishingHandler
      BY <2>1 DEF ProjectLayers
    <3>2. \E astray \in BOOLEAN : PublishAll(astray)
      <4>1. CASE NothingToPublish(tree')
        BY <2>1, <4>1 DEF ProjectLayers
      <4>2. CASE ~NothingToPublish(tree')
        <5>. DEFINE pre == PreTraversal(tree', box', grid, proj, depth', incremental')
        <5>1. PICK ready : PublishAll(\E l \in DOMAIN ready :
                              LayerAstray(pre.proj, pre.grid, tree', depth', ready[l]))
          BY <2>1, <4>2 DEF ProjectLayers
        <5>. DEFINE a == \E l \in DOMAIN ready :
                           LayerAstray(pre.proj, pre.grid, tree', depth', ready[l])
        <5>2. a \in BOOLEAN
          OBVIOUS
        <5>. QED  BY <5>1, <5>2
      <4>. QED  BY <4>1, <4>2
    <3>. QED  BY <3>1, <3>2
  <2>. QED  BY <1>3, <2>1 DEF MultilayerNext
<1>. QED  BY <1>1, <1>2, <1>3 DEF NodesNext

(* What a handler does to the tree and the parameters before it publishes. *)
LEMMA Handled ==
  ASSUME ServerTypes, PublishingHandler
  PROVE  /\ UNCHANGED <<params, file>>
         /\ health \in {"down", "up"}
         /\ depth' \in 0 .. Depth
         /\ incremental' \in {params.incremental, FALSE}
         /\ TreeOK(tree')
         /\ tree' = NoTree /\ health = "up" => tree = NoTree
<1>1. CASE Launch
  <2>1. TreeOK(Opened(file))
    BY MaxLikelihoodOK DEF Opened, ServerTypes
  <2>2. Depth \in 0 .. Depth /\ \A m \in params.depths : m \in 0 .. Depth
    BY Widths, LaunchAssumption DEF ServerTypes
  <2>. QED  BY <1>1, <2>1, <2>2, NoTreeOK DEF Launch, ServerTypes
<1>2. ASSUME NEW c \in params.clouds, OnCloud(c)
      PROVE  /\ UNCHANGED <<params, file, depth, incremental>>
             /\ health = "up" /\ TreeOK(tree')
             /\ tree' = NoTree => tree = NoTree
  <2>1. TreeOK(tree') /\ DOMAIN tree \subseteq DOMAIN tree'
    BY <1>2, CloudOK, UpdatedDomain DEF OnCloud, ServerTypes
  <2>2. tree' = NoTree => tree = NoTree
    BY <2>1 DEF NoTree, ServerTypes, TreeOK
  <2>. QED  BY <1>2, <2>1, <2>2 DEF OnCloud
<1>3. ASSUME NEW b \in Boxes, ClearBBox(b)
      PROVE  /\ UNCHANGED <<params, file, depth, incremental>>
             /\ health = "up" /\ TreeOK(tree')
             /\ tree' = NoTree => tree = NoTree
  <2>1. TreeOK(tree') /\ DOMAIN tree = DOMAIN tree'
    BY <1>3, ClearedOK DEF ClearBBox, Cleared, ServerTypes
  <2>2. tree' = NoTree => tree = NoTree
    BY <2>1 DEF NoTree, ServerTypes, TreeOK
  <2>. QED  BY <1>3, <2>1, <2>2 DEF ClearBBox
<1>4. ASSUME NEW m \in params.depths, NEW inc \in {params.incremental, FALSE}, SetParameter(m, inc)
      PROVE  /\ UNCHANGED <<params, file, tree>> /\ health = "up"
             /\ depth' = m /\ m \in 0 .. Depth /\ incremental' = inc
  BY <1>4, Widths, LaunchAssumption DEF SetParameter, ServerTypes
<1>5. CASE \E c \in params.clouds : OnCloud(c)
  BY <1>2, <1>5 DEF ServerTypes
<1>6. CASE \E b \in Boxes : ClearBBox(b)
  BY <1>3, <1>6 DEF ServerTypes
<1>7. CASE \E m \in params.depths, inc \in {params.incremental, FALSE} : SetParameter(m, inc)
  BY <1>4, <1>7 DEF ServerTypes
<1>. QED  BY <1>1, <1>5, <1>6, <1>7 DEF PublishingHandler

(* What publishing does to the topics, and that the map keeps its form.    *)
LEMMA PublishedOrNot ==
  ASSUME NEW astray, PublishAll(astray)
  PROVE  /\ health' \in {"up", "aborted", "stray"}
         /\ NothingToPublish(tree') => UNCHANGED out
         /\ ~NothingToPublish(tree') /\ health' = "up" => \E g : out' = Published(tree', g)
         /\ DOMAIN grid = MapFields => DOMAIN grid' = MapFields
<1>1. /\ health' \in {"up", "aborted", "stray"}
      /\ NothingToPublish(tree') => UNCHANGED out
  BY PublishAllRuns DEF PublishAll
<1>. DEFINE pre == PreTraversal(tree', box', grid, proj, depth', incremental')
            shown == {n \in Leaves(tree', depth') : InMapZ(n)}
<1>2. \A p, g, t, m, L : DOMAIN Projected(p, g, t, m, L) = DOMAIN g
  BY DEF Projected
<1>3. pre.grid = grid \/ DOMAIN pre.grid = MapFields
  <2>1. CASE HasKeys(tree')
    <3>. DEFINE q == pre.grid
    <3>1. q = [x0 |-> q.x0, y0 |-> q.y0, width |-> q.width, height |-> q.height,
               res |-> q.res, data |-> q.data]
      BY <2>1 DEF PreTraversal, Resize
    <3>. HIDE DEF q
    <3>. QED  BY <3>1 DEF MapFields, q
  <2>2. CASE ~HasKeys(tree')
    BY <2>2 DEF PreTraversal
  <2>. QED  BY <2>1, <2>2
<1>4. \/ grid' = grid
      \/ grid' = pre.grid
      \/ grid' = Projected(pre.proj, pre.grid, tree', depth', shown)
  BY DEF PublishAll
<1>. HIDE DEF pre, shown
<1>5. DOMAIN grid = MapFields => DOMAIN grid' = MapFields
  BY <1>2, <1>3, <1>4
<1>6. ~NothingToPublish(tree') /\ health' = "up" => \E g : out' = Published(tree', g)
  <2>1. \/ ~ProjectsMap /\ out' = Published(tree', grid)
        \/ NothingToPublish(tree')
        \/ out' = Published(tree', grid')
        \/ health' # "up"
    BY DEF PublishAll
  <2>. QED  BY <2>1
<1>. QED  BY <1>1, <1>5, <1>6

(* The type invariant.                                                     *)
LEMMA ServerTypesInit == NodesInit => ServerTypes
<1>. SUFFICES ASSUME NodesInit PROVE ServerTypes
  OBVIOUS
<1>1. /\ params \in Launches /\ depth = Depth /\ incremental = FALSE /\ tree = NoTree
      /\ file.tree = NoTree /\ health = "down" /\ out = NothingPublished
      /\ DOMAIN grid = MapFields
  BY DEF NodesInit, Init, Off, NoFile, FreshGrid, ClearedGrid, MapFields
<1>2. Depth \in 0 .. Depth
  BY Widths
<1>. QED  BY <1>1, <1>2, NoTreeOK DEF ServerTypes

LEMMA ServerTypesKept == ServerTypes /\ [NodesNext]_nvars => ServerTypes'
<1>. SUFFICES ASSUME ServerTypes, [NodesNext]_nvars PROVE ServerTypes'
  OBVIOUS
<1>1. CASE UNCHANGED server_vars
  BY <1>1 DEF server_vars, ServerTypes
<1>2. CASE PublishingHandler /\ \E astray \in BOOLEAN : PublishAll(astray)
  BY <1>2, Handled, PublishedOrNot DEF ServerTypes
<1>3. CASE Strayed
  <2>1. TreeOK(tree')
    BY <1>3, CloudOK DEF Strayed, ServerTypes
  <2>. QED  BY <1>3, <2>1 DEF Strayed, ServerTypes
<1>4. CASE Reset
  BY <1>4, NoTreeOK DEF Reset, ServerTypes, ClearedGrid, MapFields
<1>5. CASE Stop
  <2>1. /\ UNCHANGED <<params, file>> /\ depth' = Depth /\ incremental' = FALSE /\ tree' = NoTree
        /\ health' = "down" /\ out' = NothingPublished /\ DOMAIN grid' = MapFields
    BY <1>5 DEF Stop, FreshGrid, ClearedGrid, MapFields
  <2>2. Depth \in 0 .. Depth
    BY Widths
  <2>. QED  BY <2>1, <2>2, NoTreeOK DEF ServerTypes
<1>6. CASE FileStep
  <2>1. UNCHANGED <<params, health, tree, grid, depth, incremental, out>>
    BY <1>6 DEF FileStep, SaveMap, SaveStatic
  <2>2. TreeOK(file'.tree)
    <3>1. \A t : TreeOK(t) => TreeOK(MaxLikelihood(t))
      BY MaxLikelihoodOK
    <3>2. \A t, full, suffix : TreeOK(t) => TreeOK(Written(Served(t, full), suffix))
      BY <3>1 DEF Written, Served
    <3>3. TreeOK(tree) /\ TreeOK(Opened(file))
      BY <3>1 DEF Opened, ServerTypes
    <3>4. ASSUME NEW full \in BOOLEAN, NEW suffix \in {"bt", "ot"}, SaveMap(full, suffix)
          PROVE  TreeOK(file'.tree)
      BY <3>2, <3>3, <3>4 DEF SaveMap
    <3>5. ASSUME NEW full \in BOOLEAN, NEW suffix \in {"bt", "ot"}, SaveStatic(full, suffix)
          PROVE  TreeOK(file'.tree)
      <4>1. PICK u : u = Written(Served(Opened(file), full), suffix) /\ TreeOK(u)
        BY <3>2, <3>3
      <4>2. file' = [file EXCEPT !.kind = suffix, !.tree = u]
        BY <3>5, <4>1 DEF SaveStatic
      <4>. QED  BY <4>1, <4>2
    <3>. QED  BY <1>6, <3>4, <3>5 DEF FileStep
  <2>. QED  BY <2>1, <2>2 DEF ServerTypes
<1>7. CASE NodesNext
  BY <1>1, <1>2, <1>3, <1>4, <1>5, <1>6, <1>7, NodeSteps DEF ServerTypes
<1>. QED  BY <1>1, <1>7 DEF nvars
------------------------------------------------------------------------------
Shown(t, m) == {n \in Leaves(t, m) : InMapZ(n)}

(* The binary map and the markers, when there was something to publish.    *)
OutInv ==
  health = "up" =>
    /\ tree = NoTree /\ "binary" \in params.topics => out.binary = NoTree
    /\ ~NothingToPublish(tree) =>
         /\ "binary" \in params.topics => out.binary = MaxLikelihood(tree)
         /\ "full" \in params.topics => out.full = tree
         /\ "markers" \in params.topics =>
              out.occupied = {n \in Shown(tree, depth) : Occupied(LeafValue(tree, n))}

LEMMA OutInvKept == ServerTypes /\ OutInv /\ [NodesNext]_nvars => OutInv'
<1>. SUFFICES ASSUME ServerTypes, OutInv, [NodesNext]_nvars PROVE OutInv'
  OBVIOUS
<1>1. CASE UNCHANGED server_vars
  BY <1>1 DEF server_vars, OutInv
<1>2. CASE PublishingHandler /\ \E astray \in BOOLEAN : PublishAll(astray)
  <2>. SUFFICES ASSUME health' = "up" PROVE OutInv'
    BY DEF OutInv
  <2>1. CASE NothingToPublish(tree')
    <3>1. UNCHANGED out
      BY <1>2, <2>1, PublishedOrNot
    <3>2. ASSUME tree' = NoTree, "binary" \in params.topics PROVE out.binary = NoTree
      <4>1. health = "down" \/ (health = "up" /\ tree = NoTree)
        BY <1>2, <3>2, Handled
      <4>. QED  BY <3>2, <4>1 DEF OutInv, ServerTypes, NothingPublished
    <3>3. UNCHANGED params
      BY <1>2, Handled
    <3>. QED  BY <2>1, <3>1, <3>2, <3>3 DEF OutInv
  <2>2. CASE ~NothingToPublish(tree')
    <3>1. PICK g : out' = Published(tree', g)
      BY <1>2, <2>2, PublishedOrNot
    <3>2. /\ "binary" \in params.topics => out'.binary = MaxLikelihood(tree')
          /\ "full" \in params.topics => out'.full = tree'
      BY <3>1 DEF Published
    <3>3. "markers" \in params.topics =>
            out'.occupied = {n \in {l \in Leaves(tree', depth') : InMapZ(l)} :
                               Occupied(LeafValue(tree', n))}
      BY <3>1 DEF Published
    <3>4. tree' # NoTree
      BY <2>2 DEF NothingToPublish, NoTree
    <3>5. UNCHANGED params
      BY <1>2, Handled
    <3>. QED  BY <3>2, <3>3, <3>4, <3>5 DEF OutInv, Shown
  <2>. QED  BY <2>1, <2>2
<1>3. CASE Strayed \/ Stop
  BY <1>3 DEF Strayed, Stop, OutInv
<1>4. CASE Reset
  BY <1>4 DEF Reset, OutInv, NothingToPublish, NoTree
<1>6. CASE FileStep
  <2>1. UNCHANGED <<params, health, tree, depth, incremental, out>>
    BY <1>6 DEF FileStep, SaveMap, SaveStatic
  <2>. QED  BY <2>1 DEF OutInv
<1>7. CASE NodesNext
  BY <1>1, <1>2, <1>3, <1>4, <1>6, <1>7, NodeSteps DEF ServerTypes
<1>. QED  BY <1>1, <1>7 DEF nvars

LEMMA ServerInvAlways == NodesSpec => [](ServerTypes /\ OutInv)
<1>1. NodesInit => OutInv
  BY DEF NodesInit, Init, Off, OutInv
<1>. QED  BY <1>1, ServerTypesInit, ServerTypesKept, OutInvKept, PTL DEF NodesSpec

(* The binary map, the full map and the markers are those of the tree,     *)
(* after every callback, on the topics that are latched or subscribed to.  *)
THEOREM BinaryMapIsCurrent == NodesSpec => []BinaryMapCurrent
<1>1. ServerTypes /\ OutInv => BinaryMapCurrent
  <2>. SUFFICES ASSUME ServerTypes, OutInv, health = "up",
                       NothingToPublish(tree) => tree = NoTree
                PROVE  /\ "binary" \in params.topics => out.binary = MaxLikelihood(tree)
                       /\ "full" \in params.topics /\ tree # NoTree => out.full = tree
                       /\ "markers" \in params.topics =>
                          (UNION {Block(n.corner, n.depth) : n \in out.occupied}) \cap DOMAIN tree
                            \subseteq UNION {Block(Corner(k, depth), depth) : k \in OccupiedKeys(tree)}
    BY DEF BinaryMapCurrent
  <2>1. CASE tree = NoTree
    <3>1. ("binary" \in params.topics => out.binary = NoTree) /\ DOMAIN tree = {}
      BY <2>1 DEF OutInv, NoTree
    <3>2. MaxLikelihood(tree) = NoTree
      BY <2>1 DEF MaxLikelihood, NoTree
    <3>. QED  BY <2>1, <3>1, <3>2
  <2>2. CASE ~NothingToPublish(tree)
    <3>1. /\ "binary" \in params.topics => out.binary = MaxLikelihood(tree)
          /\ "full" \in params.topics => out.full = tree
          /\ "markers" \in params.topics =>
               out.occupied = {n \in Shown(tree, depth) : Occupied(LeafValue(tree, n))}
      BY <2>2 DEF OutInv
    <3>2. ASSUME "markers" \in params.topics, NEW n \in out.occupied, NEW j \in Block(n.corner, n.depth) \cap DOMAIN tree
          PROVE  \E k \in OccupiedKeys(tree) : j \in Block(Corner(k, depth), depth)
      <4>1. n \in Leaves(tree, depth) /\ Occupied(LeafValue(tree, n))
        BY <3>1, <3>2 DEF Shown
      <4>2. TreeOK(tree) /\ depth \in 0 .. Depth
        BY DEF ServerTypes
      <4>. QED  BY <4>1, <4>2, OccupiedLeavesShow
    <3>. QED  BY <3>1, <3>2
  <2>. QED  BY <2>1, <2>2
<1>. QED  BY <1>1, ServerInvAlways, PTL
------------------------------------------------------------------------------
(* The cells of the projected map.  Along an axis the map spans the cells  *)
(* of width w from First to Last.                                          *)
First(S, w) == Min({Min(S), Zero - params.half}) \div w
Last(S, w) == Max({Max(S) + 1, Zero + params.half}) \div w

(* Quotients of coordinates, and rows and columns of an index.             *)
LEMMA Quotients ==
  ASSUME NEW w \in Nat \ {0}
  PROVE  /\ \A i \in Int : i \div w \in Int
         /\ \A i, j \in Int : i <= j => i \div w <= j \div w
         /\ \A a, b \in Int : (a * w - b * w) \div w = a - b
         /\ \A a, b \in Int : a * w = b * w => a = b
<1>1. \A i \in Int : i \div w \in Int
  OBVIOUS
<1>2. ASSUME NEW i \in Int, NEW j \in Int, i <= j PROVE i \div w <= j \div w
  <2>. DEFINE q == i \div w
              p == j \div w
  <2>1. q \in Int /\ p \in Int /\ q * w <= i /\ j < p * w + w
    BY RoundedDown
  <2>. HIDE DEF p, q
  <2>2. ~ (p + 1 <= q)
    <3>. SUFFICES ASSUME p + 1 <= q PROVE FALSE
      OBVIOUS
    <3>1. q - (p + 1) \in Nat /\ (q - (p + 1)) * w \in Nat
      BY <2>1
    <3>2. (q - (p + 1)) * w = q * w - p * w - w /\ q * w \in Int /\ p * w \in Int
      BY <2>1
    <3>. QED  BY <1>2, <2>1, <3>1, <3>2
  <2>3. q <= p
    BY <2>1, <2>2
  <2>. QED  BY <2>3 DEF p, q
<1>3. ASSUME NEW a \in Int, NEW b \in Int PROVE (a * w - b * w) \div w = a - b
  <2>. DEFINE i == a * w - b * w
              d == a - b
              q == i \div w
              r == i % w
  <2>1. i = d * w /\ i \in Int /\ d \in Int /\ d * w \in Int
    OBVIOUS
  <2>2. q \in Int /\ r \in 0 .. w - 1 /\ i = w * q + r
    <3>. HIDE DEF i
    <3>. QED  BY <2>1
  <2>. HIDE DEF i, d, q, r
  <2>3. q * w \in Int /\ i = q * w + r
    BY <2>2
  <2>4. ~ (q + 1 <= d)
    <3>. SUFFICES ASSUME q + 1 <= d PROVE FALSE
      OBVIOUS
    <3>1. d - (q + 1) \in Nat /\ (d - (q + 1)) * w \in Nat
      BY <2>1, <2>2
    <3>2. (d - (q + 1)) * w = d * w - q * w - w
      BY <2>1, <2>2
    <3>. QED  BY <2>1, <2>2, <2>3, <3>1, <3>2
  <2>5. ~ (d + 1 <= q)
    <3>. SUFFICES ASSUME d + 1 <= q PROVE FALSE
      OBVIOUS
    <3>1. q - (d + 1) \in Nat /\ (q - (d + 1)) * w \in Nat
      BY <2>1, <2>2
    <3>2. (q - (d + 1)) * w = q * w - d * w - w
      BY <2>1, <2>2
    <3>. QED  BY <2>1, <2>2, <2>3, <3>1, <3>2
  <2>6. q = d
    BY <2>1, <2>2, <2>4, <2>5
  <2>. QED  BY <2>6 DEF i, d, q
<1>4. ASSUME NEW a \in Int, NEW b \in Int, a * w = b * w PROVE a = b
  <2>. DEFINE x == a * w
              y == b * w
  <2>1. (x - y) \div w = a - b
    BY <1>3
  <2>2. x = y /\ x \in Int /\ y \in Int
    BY <1>4
  <2>. HIDE DEF x, y
  <2>3. x - y = 0
    BY <2>2
  <2>4. 0 \div w = 0
    OBVIOUS
  <2>. QED  BY <2>1, <2>3, <2>4
<1>. QED  BY <1>1, <1>2, <1>3, <1>4

LEMMA Indexed ==
  ASSUME NEW w \in Nat \ {0}
  PROVE  /\ \A i \in 0 .. w - 1, j \in Int :
              (w * j + i) \in Int /\ (w * j + i) % w = i /\ (w * j + i) \div w = j
         /\ \A c \in Int : c % w \in 0 .. w - 1 /\ c \div w \in Int /\ c = w * (c \div w) + (c % w)
<1>1. ASSUME NEW i \in 0 .. w - 1, NEW j \in Int
      PROVE  (w * j + i) \in Int /\ (w * j + i) % w = i /\ (w * j + i) \div w = j
  <2>. DEFINE c == w * j + i
              q == c \div w
              r == c % w
  <2>1. c \in Int /\ i \in Int /\ 0 <= i /\ i < w /\ w * j \in Int
    OBVIOUS
  <2>2. q \in Int /\ r \in 0 .. w - 1 /\ c = w * q + r
    <3>. HIDE DEF c
    <3>. QED  BY <2>1
  <2>3. c = w * j + i
    OBVIOUS
  <2>. HIDE DEF c, q, r
  <2>4. w * q \in Int
    BY <2>2
  <2>5. ~ (q + 1 <= j)
    <3>. SUFFICES ASSUME q + 1 <= j PROVE FALSE
      OBVIOUS
    <3>1. j - (q + 1) \in Nat /\ w * (j - (q + 1)) \in Nat
      BY <2>2
    <3>2. w * (j - (q + 1)) = w * j - w * q - w
      BY <2>2
    <3>. QED  BY <2>1, <2>2, <2>3, <2>4, <3>1, <3>2
  <2>6. ~ (j + 1 <= q)
    <3>. SUFFICES ASSUME j + 1 <= q PROVE FALSE
      OBVIOUS
    <3>1. q - (j + 1) \in Nat /\ w * (q - (j + 1)) \in Nat
      BY <2>2
    <3>2. w * (q - (j + 1)) = w * q - w * j - w
      BY <2>2
    <3>. QED  BY <2>1, <2>2, <2>3, <2>4, <3>1, <3>2
  <2>7. q = j
    BY <2>2, <2>5, <2>6
  <2>8. r = i
    BY <2>1, <2>2, <2>3, <2>4, <2>7
  <2>. QED  BY <2>1, <2>7, <2>8 DEF c, q, r
<1>2. ASSUME NEW c \in Int
      PROVE  c % w \in 0 .. w - 1 /\ c \div w \in Int /\ c = w * (c \div w) + (c % w)
  OBVIOUS
<1>. QED  BY <1>1, <1>2

(* The columns of the voxels lie between the first and the last.           *)
LEMMA Spans ==
  ASSUME params \in Launches, NEW w \in Nat \ {0}, NEW S, S \subseteq 0 .. Side - 1, S # {}
  PROVE  /\ First(S, w) \in Int /\ Last(S, w) \in Int
         /\ \A i \in S : First(S, w) <= i \div w /\ i \div w <= Last(S, w)
         /\ First(S, w) <= Last(S, w)
<1>1. Side \in Nat \ {0} /\ Zero \in Nat /\ params.half \in Nat
  BY Widths, LaunchAssumption
<1>2. Min(S) \in S /\ Max(S) \in S /\ \A i \in S : Min(S) <= i /\ Max(S) >= i
  <2>1. 0 \in Int /\ Side - 1 \in Int
    BY <1>1
  <2>. QED  BY <2>1, LeastAndGreatest
<1>. DEFINE lo == Min(S)
            hi == Max(S)
            e == Zero - params.half
            f == Zero + params.half
            A == {lo, e}
            B == {hi + 1, f}
<1>3. lo \in Int /\ hi \in Int /\ e \in Int /\ f \in Int
  <2>1. \A i \in 0 .. Side - 1 : i \in Int
    BY <1>1
  <2>2. lo \in S /\ hi \in S
    BY <1>2
  <2>. HIDE DEF lo, hi
  <2>. QED  BY <1>1, <2>1, <2>2
<1>4. Min(A) \in Int /\ Min(A) <= lo /\ Max(B) \in Int /\ Max(B) >= hi + 1
  <2>. HIDE DEF lo, hi, e, f
  <2>1. \A a, b \in Int : {a, b} \subseteq (IF a <= b THEN a ELSE b) .. (IF a <= b THEN b ELSE a)
    OBVIOUS
  <2>2. A # {} /\ B # {} /\ lo \in A /\ hi + 1 \in B /\ A \subseteq Int /\ B \subseteq Int
    BY <1>3
  <2>3. \E x, y \in Int : A \subseteq x .. y
    BY <1>3, <2>1
  <2>4. \E x, y \in Int : B \subseteq x .. y
    <3>1. hi + 1 \in Int
      BY <1>3
    <3>. QED  BY <1>3, <2>1, <3>1
  <2>. HIDE DEF A, B
  <2>. QED  BY <2>2, <2>3, <2>4, LeastAndGreatest
<1>5. First(S, w) = Min(A) \div w /\ Last(S, w) = Max(B) \div w
  BY DEF First, Last
<1>. DEFINE a == Min(A)
            b == Max(B)
<1>. HIDE DEF a, b
<1>6. ASSUME NEW i \in S PROVE a \div w <= i \div w /\ i \div w <= b \div w
  <2>1. i \in Int /\ a <= i /\ i <= b /\ a \in Int /\ b \in Int
    BY <1>1, <1>2, <1>3, <1>4 DEF a, b
  <2>. QED  BY <2>1, Quotients
<1>7. a \div w \in Int /\ b \div w \in Int
  BY <1>4, Quotients DEF a, b
<1>8. \A i \in S : i \div w \in Int
  BY <1>1, Quotients
<1>9. a \div w <= b \div w
  <2>. DEFINE x == a \div w
              y == b \div w
  <2>1. PICK i \in S : TRUE
    OBVIOUS
  <2>. DEFINE z == i \div w
  <2>2. x <= z /\ z <= y /\ x \in Int /\ y \in Int /\ z \in Int
    BY <1>6, <1>7, <1>8
  <2>. HIDE DEF x, y, z
  <2>3. x <= y
    BY <2>2
  <2>. QED  BY <2>3 DEF x, y
<1>. QED  BY <1>5, <1>6, <1>7, <1>9 DEF a, b

(* The map of tree t in cells of depth m before the leaves are drawn, and  *)
(* the cell of a voxel in it.                                              *)
BlankMap(t, m) ==
  [x0 |-> GridInfo(t, m).x0, y0 |-> GridInfo(t, m).y0,
   width |-> GridInfo(t, m).width, height |-> GridInfo(t, m).height,
   res |-> GridInfo(t, m).res,
   data |-> Blank(GridInfo(t, m).width, GridInfo(t, m).height)]

West(t, m) == First({k[1] : k \in DOMAIN t}, WidthAt(m))
South(t, m) == First({k[2] : k \in DOMAIN t}, WidthAt(m))
Column(t, m, k) == (k[1] \div WidthAt(m)) - West(t, m)
Row(t, m, k) == (k[2] \div WidthAt(m)) - South(t, m)
Index(t, m, k) == BlankMap(t, m).width * Row(t, m, k) + Column(t, m, k)

(* Every voxel has a column and a row in the map.                          *)
LEMMA MapArea ==
  ASSUME params \in Launches, NEW t, TreeOK(t), DOMAIN t # {}, NEW m \in 0 .. Depth
  PROVE  /\ WidthAt(m) \in Nat \ {0} /\ BlankMap(t, m).res = WidthAt(m)
         /\ West(t, m) \in Int /\ South(t, m) \in Int
         /\ BlankMap(t, m).x0 = West(t, m) * WidthAt(m)
         /\ BlankMap(t, m).y0 = South(t, m) * WidthAt(m)
         /\ BlankMap(t, m).width \in Nat \ {0} /\ BlankMap(t, m).height \in Nat \ {0}
         /\ \A k \in DOMAIN t : /\ Column(t, m, k) \in 0 .. BlankMap(t, m).width - 1
                                /\ Row(t, m, k) \in 0 .. BlankMap(t, m).height - 1
<1>. DEFINE w == WidthAt(m)
            xs == {k[1] : k \in DOMAIN t}
            ys == {k[2] : k \in DOMAIN t}
<1>1. w \in Nat \ {0}
  BY Widths
<1>2. \A k \in DOMAIN t : k[1] \in 0 .. Side - 1 /\ k[2] \in 0 .. Side - 1
  BY KeysAreVoxels, VoxelIs, Widths DEF TreeOK
<1>3. xs \subseteq 0 .. Side - 1 /\ xs # {} /\ ys \subseteq 0 .. Side - 1 /\ ys # {}
  BY <1>2
<1>4. /\ BlankMap(t, m).x0 = First(xs, w) * w /\ BlankMap(t, m).y0 = First(ys, w) * w
      /\ BlankMap(t, m).width = (Last(xs, w) - First(xs, w)) + 1
      /\ BlankMap(t, m).height = (Last(ys, w) - First(ys, w)) + 1
      /\ BlankMap(t, m).res = w
  BY DEF BlankMap, GridInfo, First, Last
<1>5. West(t, m) = First(xs, w) /\ South(t, m) = First(ys, w)
  BY DEF West, South
<1>6. \A k \in DOMAIN t : k[1] \in xs /\ k[2] \in ys
  OBVIOUS
<1>. HIDE DEF xs, ys, w
<1>7. /\ First(xs, w) \in Int /\ Last(xs, w) \in Int /\ First(xs, w) <= Last(xs, w)
      /\ \A i \in xs : First(xs, w) <= i \div w /\ i \div w <= Last(xs, w)
  BY <1>1, <1>3, Spans
<1>8. /\ First(ys, w) \in Int /\ Last(ys, w) \in Int /\ First(ys, w) <= Last(ys, w)
      /\ \A i \in ys : First(ys, w) <= i \div w /\ i \div w <= Last(ys, w)
  BY <1>1, <1>3, Spans
<1>9. BlankMap(t, m).width \in Nat \ {0} /\ BlankMap(t, m).height \in Nat \ {0}
  BY <1>4, <1>7, <1>8
<1>10. ASSUME NEW k \in DOMAIN t
       PROVE  /\ Column(t, m, k) \in 0 .. BlankMap(t, m).width - 1
              /\ Row(t, m, k) \in 0 .. BlankMap(t, m).height - 1
  <2>. DEFINE p == k[1] \div w
              q == k[2] \div w
  <2>1. p \in Int /\ q \in Int
    BY <1>1, <1>2, Quotients, KeysAreVoxels, VoxelIs DEF TreeOK
  <2>2. /\ First(xs, w) <= p /\ p <= Last(xs, w)
        /\ First(ys, w) <= q /\ q <= Last(ys, w)
    BY <1>6, <1>7, <1>8
  <2>3. Column(t, m, k) = p - First(xs, w) /\ Row(t, m, k) = q - First(ys, w)
    BY <1>5 DEF Column, Row, w
  <2>. HIDE DEF p, q
  <2>. QED  BY <1>4, <1>7, <1>8, <2>1, <2>2, <2>3
<1>. QED  BY <1>1, <1>4, <1>5, <1>7, <1>8, <1>9, <1>10 DEF w

LEMMA IndexInMap ==
  ASSUME params \in Launches, NEW t, TreeOK(t), NEW m \in 0 .. Depth, NEW k \in DOMAIN t
  PROVE  Index(t, m, k) \in DOMAIN BlankMap(t, m).data
<1>. DEFINE W == BlankMap(t, m).width
            H == BlankMap(t, m).height
            i == Column(t, m, k)
            j == Row(t, m, k)
<1>1. W \in Nat \ {0} /\ H \in Nat \ {0} /\ i \in 0 .. W - 1 /\ j \in 0 .. H - 1
  BY MapArea
<1>2. DOMAIN BlankMap(t, m).data = 0 .. W * H - 1 /\ Index(t, m, k) = W * j + i
  BY DEF BlankMap, Blank, Index
<1>. HIDE DEF W, H, i, j
<1>3. i \in Nat /\ i < W /\ j \in Nat /\ (H - j) - 1 \in Nat
  BY <1>1
<1>4. W * j \in Nat /\ W * ((H - j) - 1) \in Nat /\ W * H \in Int
  BY <1>1, <1>3
<1>5. W * ((H - j) - 1) = W * H - W * j - W
  BY <1>1, <1>3
<1>6. W * j + i \in 0 .. W * H - 1
  BY <1>1, <1>3, <1>4, <1>5
<1>. QED  BY <1>2, <1>6

(* A voxel is above one cell of the map, the one its index names.          *)
LEMMA MapIndex ==
  ASSUME params \in Launches, TreeOK(tree), DOMAIN tree # {}, depth \in 0 .. Depth
  PROVE  /\ \A k \in DOMAIN tree : Index(tree, depth, k) \in DOMAIN BlankMap(tree, depth).data
         /\ \A c \in DOMAIN BlankMap(tree, depth).data :
              Above(BlankMap(tree, depth), c) = {k \in DOMAIN tree : c = Index(tree, depth, k)}
<1>. DEFINE g == BlankMap(tree, depth)
            w == WidthAt(depth)
            W == g.width
            H == g.height
            X == West(tree, depth)
            Y == South(tree, depth)
<1>1. /\ w \in Nat \ {0} /\ W \in Nat \ {0} /\ H \in Nat \ {0} /\ X \in Int /\ Y \in Int
      /\ g.x0 = X * w /\ g.y0 = Y * w /\ g.res = w
      /\ \A k \in DOMAIN tree : Column(tree, depth, k) \in 0 .. W - 1 /\ Row(tree, depth, k) \in 0 .. H - 1
  BY MapArea
<1>2. /\ DOMAIN g.data = 0 .. W * H - 1
      /\ \A k : Index(tree, depth, k) = W * Row(tree, depth, k) + Column(tree, depth, k)
  BY DEF BlankMap, Blank, Index
<1>3. \A k \in DOMAIN tree : /\ k[1] \div w \in Int /\ k[2] \div w \in Int
                             /\ Column(tree, depth, k) = (k[1] \div w) - X
                             /\ Row(tree, depth, k) = (k[2] \div w) - Y
                             /\ Corner(k, depth)[1] = (k[1] \div w) * w
                             /\ Corner(k, depth)[2] = (k[2] \div w) * w
  <2>. TAKE k \in DOMAIN tree
  <2>1. k[1] \in Int /\ k[2] \in Int
    BY KeysAreVoxels, VoxelIs DEF TreeOK
  <2>2. k[1] \div w \in Int /\ k[2] \div w \in Int
    <3>. DEFINE a == k[1]
                b == k[2]
    <3>. HIDE DEF a, b, w
    <3>1. a \in Int /\ b \in Int
      BY <2>1 DEF a, b
    <3>2. a \div w \in Int /\ b \div w \in Int
      BY <1>1, <3>1, Quotients
    <3>. QED  BY <3>2 DEF a, b
  <2>3. /\ Column(tree, depth, k) = (k[1] \div w) - X
        /\ Row(tree, depth, k) = (k[2] \div w) - Y
    BY DEF Column, Row
  <2>4. /\ Corner(k, depth)[1] = (k[1] \div w) * w
        /\ Corner(k, depth)[2] = (k[2] \div w) * w
    BY DEF Corner
  <2>. QED  BY <2>2, <2>3, <2>4
<1>. HIDE DEF g, w, W, H, X, Y
<1>4. ASSUME NEW k \in DOMAIN tree PROVE Index(tree, depth, k) \in 0 .. W * H - 1
  <2>1. Index(tree, depth, k) \in DOMAIN BlankMap(tree, depth).data
    BY IndexInMap
  <2>. QED  BY <1>2, <2>1 DEF g
<1>5. ASSUME NEW c \in 0 .. W * H - 1, NEW k \in DOMAIN tree
      PROVE  (X * w + (c % W) * w = (k[1] \div w) * w /\ Y * w + (c \div W) * w = (k[2] \div w) * w)
               <=> c = Index(tree, depth, k)
  <2>. DEFINE p == k[1] \div w
              q == k[2] \div w
              i == c % W
              j == c \div W
  <2>1. c \in Int /\ p \in Int /\ q \in Int
    BY <1>1, <1>3
  <2>2. i \in Int /\ j \in Int /\ i \in 0 .. W - 1 /\ c = W * j + i
    <3>1. i \in 0 .. W - 1 /\ j \in Int /\ c = W * j + i
      BY <1>1, <2>1, Indexed
    <3>2. \A a \in 0 .. W - 1 : a \in Int
      BY <1>1
    <3>. HIDE DEF i, j
    <3>. QED  BY <3>1, <3>2
  <2>3. Index(tree, depth, k) = W * (q - Y) + (p - X) /\ p - X \in 0 .. W - 1 /\ q - Y \in Int
    BY <1>1, <1>2, <1>3, <2>1
  <2>4. c = Index(tree, depth, k) => i = p - X /\ j = q - Y
    <3>. DEFINE a == p - X
                b == q - Y
    <3>1. a \in 0 .. W - 1 /\ b \in Int /\ Index(tree, depth, k) = W * b + a
      BY <2>3
    <3>. HIDE DEF a, b
    <3>2. (W * b + a) % W = a /\ (W * b + a) \div W = b
      BY <1>1, <3>1, Indexed
    <3>. QED  BY <3>1, <3>2 DEF a, b
  <2>. HIDE DEF p, q, i, j
  <2>5. i = p - X /\ j = q - Y => c = Index(tree, depth, k)
    BY <2>2, <2>3
  <2>6. X * w + i * w = p * w <=> i = p - X
    <3>1. X * w + i * w = (X + i) * w /\ X + i \in Int
      BY <1>1, <2>2
    <3>. DEFINE s == X + i
    <3>2. s \in Int /\ X * w + i * w = s * w
      BY <3>1
    <3>. HIDE DEF s
    <3>3. s * w = p * w <=> s = p
      BY <1>1, <2>1, <3>2, Quotients
    <3>4. s = p <=> i = p - X
      BY <1>1, <2>1, <2>2 DEF s
    <3>. QED  BY <3>2, <3>3, <3>4
  <2>7. Y * w + j * w = q * w <=> j = q - Y
    <3>1. Y * w + j * w = (Y + j) * w /\ Y + j \in Int
      BY <1>1, <2>2
    <3>. DEFINE s == Y + j
    <3>2. s \in Int /\ Y * w + j * w = s * w
      BY <3>1
    <3>. HIDE DEF s
    <3>3. s * w = q * w <=> s = q
      BY <1>1, <2>1, <3>2, Quotients
    <3>4. s = q <=> j = q - Y
      BY <1>1, <2>1, <2>2 DEF s
    <3>. QED  BY <3>2, <3>3, <3>4
  <2>8. (X * w + i * w = p * w /\ Y * w + j * w = q * w) <=> c = Index(tree, depth, k)
    BY <2>4, <2>5, <2>6, <2>7
  <2>. QED  BY <2>8 DEF p, q, i, j
<1>6. ASSUME NEW c \in 0 .. W * H - 1, NEW k \in DOMAIN tree
      PROVE  k \in Above(g, c) <=> c = Index(tree, depth, k)
  <2>1. k \in Above(g, c) <=> /\ g.x0 + (c % g.width) * g.res = Corner(k, depth)[1]
                              /\ g.y0 + (c \div g.width) * g.res = Corner(k, depth)[2]
    BY DEF Above
  <2>2. g.width = W
    BY DEF W
  <2>3. /\ g.x0 + (c % g.width) * g.res = X * w + (c % W) * w
        /\ g.y0 + (c \div g.width) * g.res = Y * w + (c \div W) * w
    BY <1>1, <2>2
  <2>4. /\ Corner(k, depth)[1] = (k[1] \div w) * w
        /\ Corner(k, depth)[2] = (k[2] \div w) * w
    BY <1>3
  <2>. QED  BY <1>5, <2>1, <2>3, <2>4, Zenon
<1>7. \A c : Above(g, c) \subseteq DOMAIN tree
  BY DEF Above
<1>8. \A k \in DOMAIN tree : Index(tree, depth, k) \in DOMAIN g.data
  BY <1>2, <1>4
<1>9. \A c \in DOMAIN g.data : Above(g, c) = {k \in DOMAIN tree : c = Index(tree, depth, k)}
  BY <1>2, <1>6, <1>7
<1>. QED  BY <1>8, <1>9 DEF g

(* How the leaves are drawn on a map that was just made whole: from its    *)
(* own origin, in steps of its own cells.                                  *)
Own(g, m) == [x0 |-> g.x0, y0 |-> g.y0, scale |-> WidthAt(m), complete |-> TRUE]
AxisCell(g, n, i, m) == Cell(Own(g, m), g, n, i, m)
CellsIn(g, n, m) == CellsOf(Own(g, m), g, n, m)
Painting(g, t, m, L) == Projected(Own(g, m), g, t, m, L)
HoldsLeaves(g, m, L) == InData(Own(g, m), g, m, L)
PaintedLayer(g, t, m, l) == WrittenLayer(Own(g, m), g, t, m, l)
Outside(g, t, m, l) == LayerAstray(Own(g, m), g, t, m, l)

(* The cells of a leaf of full resolution, along an axis.                  *)
Start(g, i) == IF i = 1 THEN g.x0 ELSE g.y0

LEMMA FineCell ==
  ASSUME NEW g, NEW n, NEW i, n.depth \in 0 .. Depth, n.corner[i] \in Int,
         Start(g, i) \in Int, Start(g, i) <= n.corner[i]
  PROVE  AxisCell(g, n, i, Depth)
           = {x - Start(g, i) : x \in n.corner[i] .. (n.corner[i] + WidthAt(n.depth)) - 1}
<1>. DEFINE first == Start(g, i)
            c == n.corner[i]
            w == WidthAt(n.depth)
<1>1. WidthAt(Depth) = 1 /\ w \in Nat \ {0} /\ Reach(n, Depth) = w
  BY Widths DEF Reach, WidthAt
<1>2. \A x \in Int : x \div 1 = x
  OBVIOUS
<1>3. AxisCell(g, n, i, Depth) =
        {IF e < 0 /\ 1 > 1 THEN g.width * g.height ELSE e \div 1 :
           e \in IF n.depth = Depth THEN {c - first} ELSE {(c + d) - first : d \in 0 .. w - 1}}
  BY <1>1 DEF AxisCell, Cell, Own, Start
<1>4. first \in Int /\ c \in Int
  OBVIOUS
<1>. HIDE DEF first, c
<1>5. CASE n.depth = Depth
  <2>1. w = 1
    BY <1>1, <1>5
  <2>. HIDE DEF w
  <2>2. AxisCell(g, n, i, Depth) = {c - first}
    BY <1>2, <1>3, <1>4, <1>5
  <2>3. c .. (c + w) - 1 = {c}
    BY <1>4, <2>1
  <2>. QED  BY <2>2, <2>3 DEF first, c, w
<1>6. CASE n.depth # Depth
  <2>. HIDE DEF w
  <2>. DEFINE T == {(c + d) - first : d \in 0 .. w - 1}
  <2>1. AxisCell(g, n, i, Depth)
          = {IF e < 0 /\ 1 > 1 THEN g.width * g.height ELSE e \div 1 : e \in T}
    BY <1>3, <1>6
  <2>2. \A e \in T : (IF e < 0 /\ 1 > 1 THEN g.width * g.height ELSE e \div 1) = e
    BY <1>1, <1>2, <1>4
  <2>3. AxisCell(g, n, i, Depth) = T
    <3>. HIDE DEF T
    <3>. QED  BY <2>1, <2>2
  <2>4. T = {x - first : x \in c .. (c + w) - 1}
    <3>1. \A d \in 0 .. w - 1 : c + d \in c .. (c + w) - 1
      BY <1>1, <1>4
    <3>2. \A x \in c .. (c + w) - 1 : x - c \in 0 .. w - 1 /\ x = c + (x - c)
      BY <1>1, <1>4
    <3>. QED  BY <3>1, <3>2
  <2>. QED  BY <2>3, <2>4 DEF first, c, w
<1>. QED  BY <1>5, <1>6

(* A leaf of the resolution of the map is drawn on one cell.               *)
LEMMA OneCell ==
  ASSUME params \in Launches, NEW t, TreeOK(t), NEW m \in 0 .. Depth,
         NEW n, NEW k, LeafOf(n, t, m, k), n.depth = m
  PROVE  /\ CellsIn(BlankMap(t, m), n, m) = {Index(t, m, k)}
         /\ \A j \in Block(n.corner, n.depth) \cap DOMAIN t : Index(t, m, j) = Index(t, m, k)
<1>. DEFINE g == BlankMap(t, m)
            w == WidthAt(m)
            X == West(t, m)
            Y == South(t, m)
<1>1. k \in DOMAIN t /\ n.corner = Corner(k, m) /\ k \in Voxels
  BY KeysAreVoxels DEF LeafOf, TreeOK
<1>2. w \in Nat \ {0} /\ g.x0 = X * w /\ g.y0 = Y * w /\ X \in Int /\ Y \in Int
  BY <1>1, MapArea
<1>. DEFINE p == k[1] \div w
            q == k[2] \div w
<1>3. p \in Int /\ q \in Int
  <2>. DEFINE a == k[1]
              b == k[2]
  <2>1. a \in Int /\ b \in Int
    BY <1>1, VoxelIs
  <2>. HIDE DEF a, b, w
  <2>2. a \div w \in Int /\ b \div w \in Int
    BY <1>2, <2>1, Quotients
  <2>. QED  BY <2>2 DEF a, b
<1>4. n.corner[1] = p * w /\ n.corner[2] = q * w
  BY <1>1 DEF Corner
<1>5. Column(t, m, k) = p - X /\ Row(t, m, k) = q - Y
  BY DEF Column, Row
<1>6. /\ ~(n.corner[1] - g.x0 < 0) => AxisCell(g, n, 1, m) = {(n.corner[1] - g.x0) \div w}
      /\ ~(n.corner[2] - g.y0 < 0) => AxisCell(g, n, 2, m) = {(n.corner[2] - g.y0) \div w}
  BY DEF AxisCell, Cell, Own
<1>11. X <= p /\ Y <= q
  <2>1. Column(t, m, k) >= 0 /\ Row(t, m, k) >= 0
    <3>1. /\ Column(t, m, k) \in 0 .. g.width - 1 /\ Row(t, m, k) \in 0 .. g.height - 1
          /\ g.width \in Nat /\ g.height \in Nat
      BY <1>1, MapArea
    <3>. HIDE DEF g
    <3>. QED  BY <3>1
  <2>. HIDE DEF p, q, X, Y
  <2>. QED  BY <1>2, <1>3, <1>5, <2>1
<1>. HIDE DEF g, w, X, Y, p, q
<1>12. ~(p * w - X * w < 0) /\ ~(q * w - Y * w < 0)
  <2>1. ASSUME NEW i \in Int, NEW j \in Int, j <= i PROVE ~(i * w - j * w < 0)
    <3>1. (i - j) * w \in Nat /\ (i - j) * w = i * w - j * w
      BY <1>2, <2>1
    <3>. QED  BY <3>1
  <2>. QED  BY <1>2, <1>3, <1>11, <2>1
<1>7. (p * w - X * w) \div w = p - X /\ (q * w - Y * w) \div w = q - Y
  BY <1>2, <1>3, Quotients
<1>8. AxisCell(g, n, 1, m) = {Column(t, m, k)} /\ AxisCell(g, n, 2, m) = {Row(t, m, k)}
  BY <1>2, <1>4, <1>5, <1>6, <1>7, <1>12
<1>9. CellsIn(g, n, m) = {Index(t, m, k)}
  BY <1>8 DEF CellsIn, CellsOf, AxisCell, Index, g
<1>10. ASSUME NEW j \in Block(n.corner, n.depth) \cap DOMAIN t PROVE Index(t, m, j) = Index(t, m, k)
  <2>1. j \in Voxels /\ Corner(j, m) = Corner(k, m)
    BY <1>1, Corners
  <2>. DEFINE a == j[1] \div w
              b == j[2] \div w
  <2>2. a * w = p * w /\ b * w = q * w
    BY <2>1 DEF Corner, p, q, w
  <2>3. a \in Int /\ b \in Int
    <3>. DEFINE x == j[1]
                y == j[2]
    <3>1. x \in Int /\ y \in Int
      BY <2>1, VoxelIs
    <3>. HIDE DEF x, y
    <3>2. x \div w \in Int /\ y \div w \in Int
      BY <1>2, <3>1, Quotients
    <3>. QED  BY <3>2 DEF x, y
  <2>4. Column(t, m, j) = a - X /\ Row(t, m, j) = b - Y
    BY DEF Column, Row, X, Y, w
  <2>. HIDE DEF a, b
  <2>5. a = p /\ b = q
    BY <1>2, <1>3, <2>2, <2>3, Quotients
  <2>. QED  BY <1>5, <2>4, <2>5 DEF Index
<1>. QED  BY <1>9, <1>10 DEF g

(* In a map of full resolution a leaf is drawn on the cells of its voxels, *)
(* at each of its heights.                                                 *)
LEMMA FineCells ==
  ASSUME params \in Launches, NEW t, TreeOK(t), NEW n, NEW k, LeafOf(n, t, Depth, k)
  PROVE  /\ \A c \in CellsIn(BlankMap(t, Depth), n, Depth),
               z \in n.corner[3] .. n.corner[3] + WidthAt(n.depth) - 1 :
              \E j \in Block(n.corner, n.depth) \cap DOMAIN t :
                j[3] = z /\ t[j] = t[k] /\ c = Index(t, Depth, j)
         /\ \A j \in Block(n.corner, n.depth) \cap DOMAIN t :
              Index(t, Depth, j) \in CellsIn(BlankMap(t, Depth), n, Depth)
<1>. DEFINE g == BlankMap(t, Depth)
            X == West(t, Depth)
            Y == South(t, Depth)
            w == WidthAt(n.depth)
            B == Block(n.corner, n.depth)
<1>1. /\ k \in DOMAIN t /\ k \in Voxels /\ n.depth \in 0 .. Depth /\ n.corner = Corner(k, n.depth)
      /\ Depth \in 0 .. Depth /\ n.corner \in Voxels
  BY KeysAreVoxels, Widths, Corners DEF LeafOf, TreeOK
<1>2. WidthAt(Depth) = 1 /\ w \in Nat \ {0}
  BY <1>1, Widths
<1>3. /\ g.x0 = X * 1 /\ g.y0 = Y * 1 /\ X \in Int /\ Y \in Int
      /\ \A j \in DOMAIN t : /\ Column(t, Depth, j) \in 0 .. g.width - 1
                             /\ Row(t, Depth, j) \in 0 .. g.height - 1
  BY <1>1, <1>2, MapArea
<1>4. g.width \in Nat \ {0} /\ g.height \in Nat \ {0}
  BY <1>1, MapArea
<1>5. \A j \in B : j \in DOMAIN t /\ t[j] = t[k]
  <2>1. CASE n.depth = Depth
    <3>1. \A j \in B : j = k
      BY <1>1, <2>1, Corners
    <3>. QED  BY <1>1, <3>1
  <2>2. CASE Pruned(t, k, n.depth)
    BY <1>1, <2>2 DEF Pruned
  <2>. QED  BY <2>1, <2>2 DEF LeafOf
<1>6. \A j \in DOMAIN t : /\ j[1] \in Int /\ j[2] \in Int
                          /\ Column(t, Depth, j) = j[1] - X /\ Row(t, Depth, j) = j[2] - Y
                          /\ X <= j[1] /\ Y <= j[2]
  <2>. TAKE j \in DOMAIN t
  <2>. DEFINE a == j[1]
              b == j[2]
  <2>1. a \in Int /\ b \in Int
    BY KeysAreVoxels, VoxelIs DEF TreeOK
  <2>2. Column(t, Depth, j) = (a \div 1) - X /\ Row(t, Depth, j) = (b \div 1) - Y
    BY <1>2 DEF Column, Row
  <2>3. Column(t, Depth, j) >= 0 /\ Row(t, Depth, j) >= 0
    BY <1>3, <1>4
  <2>. HIDE DEF a, b, X, Y
  <2>4. a \div 1 = a /\ b \div 1 = b
    BY <2>1
  <2>. QED  BY <1>3, <2>1, <2>2, <2>3, <2>4 DEF a, b
<1>7. n.corner \in B
  <2>1. \A i \in 1 .. 3 : n.corner[i] \in Int
    BY <1>1, VoxelIs
  <2>. QED  BY <1>1, <1>2, <2>1, InBlock
<1>8. /\ n.corner[1] \in Int /\ n.corner[2] \in Int /\ n.corner[3] \in Int
      /\ X <= n.corner[1] /\ Y <= n.corner[2]
  BY <1>1, <1>5, <1>6, <1>7, VoxelIs
<1>. HIDE DEF g, X, Y
<1>9. /\ AxisCell(g, n, 1, Depth) = {x - X : x \in n.corner[1] .. (n.corner[1] + w) - 1}
      /\ AxisCell(g, n, 2, Depth) = {y - Y : y \in n.corner[2] .. (n.corner[2] + w) - 1}
  <2>1. Start(g, 1) = X /\ Start(g, 2) = Y
    BY <1>3 DEF Start
  <2>. QED  BY <1>1, <1>3, <1>8, <2>1, FineCell
<1>. HIDE DEF w
<1>10. ASSUME NEW c \in CellsIn(g, n, Depth), NEW z \in n.corner[3] .. n.corner[3] + w - 1
       PROVE  \E j \in B \cap DOMAIN t : j[3] = z /\ t[j] = t[k] /\ c = Index(t, Depth, j)
  <2>1. PICK i \in AxisCell(g, n, 1, Depth), l \in AxisCell(g, n, 2, Depth) : c = g.width * l + i
    BY DEF CellsIn, CellsOf, AxisCell
  <2>2. PICK x \in n.corner[1] .. (n.corner[1] + w) - 1 : i = x - X
    BY <1>9, <2>1
  <2>3. PICK y \in n.corner[2] .. (n.corner[2] + w) - 1 : l = y - Y
    BY <1>9, <2>1
  <2>. DEFINE j == <<x, y, z>>
  <2>4. j \in B
    BY <1>2, <1>8, <2>2, <2>3 DEF Block, w
  <2>5. j[1] = x /\ j[2] = y /\ j[3] = z
    OBVIOUS
  <2>. HIDE DEF j, B
  <2>6. Column(t, Depth, j) = x - X /\ Row(t, Depth, j) = y - Y
    BY <1>5, <1>6, <2>4, <2>5
  <2>7. c = Index(t, Depth, j)
    BY <2>1, <2>2, <2>3, <2>6 DEF Index, g
  <2>. QED  BY <1>5, <2>4, <2>5, <2>7
<1>11. ASSUME NEW j \in B \cap DOMAIN t PROVE Index(t, Depth, j) \in CellsIn(g, n, Depth)
  <2>1. j \in Voxels
    BY KeysAreVoxels DEF TreeOK
  <2>2. \A i \in 1 .. 3 : n.corner[i] <= j[i] /\ j[i] < n.corner[i] + w
    BY <1>1, <2>1, InBlock DEF w
  <2>. HIDE DEF B
  <2>3. j[1] \in n.corner[1] .. (n.corner[1] + w) - 1 /\ j[2] \in n.corner[2] .. (n.corner[2] + w) - 1
    BY <1>2, <1>6, <1>8, <2>2
  <2>4. Column(t, Depth, j) \in AxisCell(g, n, 1, Depth) /\ Row(t, Depth, j) \in AxisCell(g, n, 2, Depth)
    BY <1>6, <1>9, <2>3
  <2>. QED  BY <2>4 DEF CellsIn, CellsOf, AxisCell, Index, g
<1>. QED  BY <1>10, <1>11 DEF g, w
------------------------------------------------------------------------------
(* What the leaves L draw on the map g is what the voxels S are to show.   *)
Tells(g, L, S) ==
  /\ \A n \in L : \A c \in CellsIn(g, n, depth) :
       \E k \in S : /\ k \in Above(g, c)
                    /\ Occupied(LeafValue(tree, n)) => Occupied(tree[k])
  /\ \A k \in S : \A c \in DOMAIN g.data :
       k \in Above(g, c) =>
         \E n \in L : /\ c \in CellsIn(g, n, depth)
                      /\ Occupied(tree[k]) => Occupied(LeafValue(tree, n))
  /\ \A k \in S : \E c \in DOMAIN g.data : k \in Above(g, c)

(* Occupied leaves override free ones, as in the projection.               *)
LEMMA Painted ==
  ASSUME NEW L, NEW S, Tells(BlankMap(tree, depth), L, S)
  PROVE  Shows(Painting(BlankMap(tree, depth), tree, depth, L), S)
<1>. DEFINE b == BlankMap(tree, depth)
            occ == UNION {CellsIn(b, n, depth) : n \in {l \in L : Occupied(LeafValue(tree, l))}}
            free == UNION {CellsIn(b, n, depth) : n \in {l \in L : ~Occupied(LeafValue(tree, l))}}
            g == Painting(b, tree, depth, L)
<1>1. g = [b EXCEPT !.data = [n \in DOMAIN b.data |->
              IF n \in occ THEN 100 ELSE IF n \in free /\ b.data[n] = -1 THEN 0 ELSE b.data[n]]]
  BY DEF Painting, Projected, CellsIn
<1>2. \A n \in DOMAIN b.data : b.data[n] = -1
  BY DEF BlankMap, Blank
<1>3. \A c : /\ c \in occ <=> \E n \in L : c \in CellsIn(b, n, depth) /\ Occupied(LeafValue(tree, n))
             /\ c \in free <=> \E n \in L : c \in CellsIn(b, n, depth) /\ ~Occupied(LeafValue(tree, n))
  OBVIOUS
<1>. HIDE DEF occ, free
<1>4. /\ g.x0 = b.x0 /\ g.y0 = b.y0 /\ g.width = b.width /\ g.res = b.res
      /\ DOMAIN g.data = DOMAIN b.data
      /\ \A c \in DOMAIN b.data : g.data[c] = IF c \in occ THEN 100 ELSE IF c \in free THEN 0 ELSE -1
  <2>. DEFINE e == [n \in DOMAIN b.data |->
              IF n \in occ THEN 100 ELSE IF n \in free /\ b.data[n] = -1 THEN 0 ELSE b.data[n]]
  <2>1. \A c \in DOMAIN b.data : e[c] = IF c \in occ THEN 100 ELSE IF c \in free THEN 0 ELSE -1
    BY <1>2
  <2>2. DOMAIN e = DOMAIN b.data /\ g = [b EXCEPT !.data = e]
    BY <1>1
  <2>. HIDE DEF e
  <2>3. /\ g.x0 = b.x0 /\ g.y0 = b.y0 /\ g.width = b.width /\ g.res = b.res /\ g.data = e
    BY <2>2 DEF BlankMap
  <2>. QED  BY <2>1, <2>2, <2>3
<1>5. \A c : Above(g, c) = Above(b, c)
  BY <1>4 DEF Above
<1>. HIDE DEF g, b
<1>6. ASSUME NEW c \in DOMAIN b.data PROVE g.data[c] = Projection(Above(g, c) \cap S)
  <2>1. CASE c \in occ
    <3>1. PICK n \in L : c \in CellsIn(b, n, depth) /\ Occupied(LeafValue(tree, n))
      BY <1>3, <2>1
    <3>2. PICK k \in S : k \in Above(b, c) /\ Occupied(tree[k])
      BY <3>1 DEF Tells, b
    <3>3. g.data[c] = 100
      BY <1>4, <2>1
    <3>. QED  BY <1>5, <3>2, <3>3 DEF Projection
  <2>2. CASE c \notin occ
    <3>1. \A k \in Above(b, c) \cap S : ~Occupied(tree[k])
      BY <1>3, <2>2 DEF Tells, b
    <3>2. c \in free <=> Above(b, c) \cap S # {}
      <4>1. ASSUME c \in free PROVE Above(b, c) \cap S # {}
        BY <1>3, <4>1 DEF Tells, b
      <4>2. ASSUME NEW k \in Above(b, c) \cap S PROVE c \in free
        BY <1>3, <2>2 DEF Tells, b
      <4>. QED  BY <4>1, <4>2
    <3>3. g.data[c] = IF c \in free THEN 0 ELSE -1
      BY <1>4, <2>2
    <3>. QED  BY <1>5, <3>1, <3>2, <3>3 DEF Projection
  <2>. QED  BY <2>1, <2>2
<1>7. S \subseteq UNION {Above(g, c) : c \in DOMAIN b.data}
  BY <1>5 DEF Tells, b
<1>. QED  BY <1>4, <1>6, <1>7 DEF Shows, g, b

(* When no leaf is larger than a cell, the leaves are the blocks of the    *)
(* depth of the map.                                                       *)
LEMMA CoarseLeaves ==
  ASSUME NEW t, TreeOK(t), NEW m \in 0 .. Depth, \A n \in Leaves(t, Depth) : n.depth >= m
  PROVE  Leaves(t, m) = {[depth |-> m, corner |-> Corner(k, m)] : k \in DOMAIN t}
<1>1. ASSUME NEW k \in DOMAIN t PROVE Min({m, LeafDepth(t, k)}) = m
  <2>. DEFINE e == LeafDepth(t, k)
              d == Min({Depth, e})
              n == [depth |-> d, corner |-> Corner(k, d)]
  <2>1. e \in 0 .. Depth /\ Depth \in Nat
    BY LeafDepthIs, Widths
  <2>2. n \in Leaves(t, Depth)
    BY DEF Leaves
  <2>3. d >= m
    BY <2>2
  <2>. HIDE DEF e
  <2>4. d = IF Depth <= e THEN Depth ELSE e
    BY <2>1, LeastOfTwo
  <2>5. Min({m, e}) = IF m <= e THEN m ELSE e
    BY <2>1, LeastOfTwo
  <2>. QED  BY <2>1, <2>3, <2>4, <2>5 DEF e
<1>. QED  BY <1>1 DEF Leaves

(* Leaves not larger than a cell, and leaves of full resolution.           *)
LEMMA CoarseTells ==
  ASSUME params \in Launches, TreeOK(tree), DOMAIN tree # {}, depth \in 0 .. Depth,
         LeavesInCells, NEW L \in SUBSET Leaves(tree, depth), NEW S \in SUBSET DOMAIN tree,
         \A k \in DOMAIN tree :
           k \in S <=> [depth |-> depth, corner |-> Corner(k, depth)] \in L
  PROVE  Tells(BlankMap(tree, depth), L, S)
<1>. DEFINE b == BlankMap(tree, depth)
            N(k) == [depth |-> depth, corner |-> Corner(k, depth)]
<1>1. ASSUME NEW k \in DOMAIN tree
      PROVE  /\ LeafOf(N(k), tree, depth, k)
             /\ N(k).depth = depth /\ N(k).corner = Corner(k, depth)
  BY DEF LeafOf
<1>2. \A n \in L : \E k \in DOMAIN tree : n = N(k)
  BY CoarseLeaves DEF LeavesInCells
<1>3. /\ \A k \in DOMAIN tree : Index(tree, depth, k) \in DOMAIN b.data
      /\ \A c \in DOMAIN b.data : Above(b, c) = {k \in DOMAIN tree : c = Index(tree, depth, k)}
  BY MapIndex
<1>4. ASSUME NEW k \in DOMAIN tree
      PROVE  /\ CellsIn(b, N(k), depth) = {Index(tree, depth, k)}
             /\ \A j \in Block(Corner(k, depth), depth) \cap DOMAIN tree :
                  Index(tree, depth, j) = Index(tree, depth, k) /\ N(j) = N(k)
             /\ Occupied(LeafValue(tree, N(k))) <=>
                  \E j \in Block(Corner(k, depth), depth) \cap DOMAIN tree : Occupied(tree[j])
             /\ k \in Block(Corner(k, depth), depth)
  <2>. DEFINE n == N(k)
  <2>1. LeafOf(n, tree, depth, k) /\ n.depth = depth /\ n.corner = Corner(k, depth)
    BY <1>1
  <2>. HIDE DEF n
  <2>2. /\ CellsIn(b, n, depth) = {Index(tree, depth, k)}
        /\ \A j \in Block(n.corner, n.depth) \cap DOMAIN tree :
             Index(tree, depth, j) = Index(tree, depth, k)
    BY <2>1, OneCell
  <2>3. /\ Occupied(LeafValue(tree, n)) <=>
             \E j \in Block(n.corner, n.depth) \cap DOMAIN tree : Occupied(tree[j])
        /\ k \in Block(n.corner, n.depth) /\ k \in Voxels
    BY <2>1, LeafValueIs
  <2>4. \A j \in Block(Corner(k, depth), depth) : Corner(j, depth) = Corner(k, depth)
    BY <2>3, Corners
  <2>. QED  BY <2>1, <2>2, <2>3, <2>4 DEF n
<1>8. \A j \in DOMAIN tree : j \in S <=> N(j) \in L
  OBVIOUS
<1>. HIDE DEF N, b
<1>5. ASSUME NEW n \in L, NEW c \in CellsIn(b, n, depth)
      PROVE  \E k \in S : k \in Above(b, c) /\ (Occupied(LeafValue(tree, n)) => Occupied(tree[k]))
  <2>1. PICK k \in DOMAIN tree : n = N(k)
    BY <1>2
  <2>2. c = Index(tree, depth, k) /\ c \in DOMAIN b.data
    BY <1>3, <1>4, <2>1
  <2>3. \A j \in Block(Corner(k, depth), depth) \cap DOMAIN tree : j \in S /\ j \in Above(b, c)
    BY <1>3, <1>4, <1>8, <2>1, <2>2
  <2>4. CASE Occupied(LeafValue(tree, n))
    BY <1>4, <2>1, <2>3, <2>4
  <2>5. CASE ~Occupied(LeafValue(tree, n))
    BY <1>4, <2>3, <2>5
  <2>. QED  BY <2>4, <2>5
<1>6. ASSUME NEW k \in S, NEW c \in DOMAIN b.data, k \in Above(b, c)
      PROVE  \E n \in L : /\ c \in CellsIn(b, n, depth)
                          /\ Occupied(tree[k]) => Occupied(LeafValue(tree, n))
  <2>1. N(k) \in L /\ c = Index(tree, depth, k)
    BY <1>3, <1>6, <1>8
  <2>. QED  BY <1>4, <2>1
<1>7. \A k \in S : \E c \in DOMAIN b.data : k \in Above(b, c)
  BY <1>3
<1>. QED  BY <1>5, <1>6, <1>7 DEF Tells, b

LEMMA FineTells ==
  ASSUME params \in Launches, TreeOK(tree), DOMAIN tree # {}, depth = Depth,
         NEW S, S = {k \in DOMAIN tree : InMapZ([depth |-> depth, corner |-> Corner(k, depth)])}
  PROVE  Tells(BlankMap(tree, depth), Shown(tree, depth), S)
<1>. DEFINE b == BlankMap(tree, Depth)
            L == Shown(tree, Depth)
<1>1. Depth \in 0 .. Depth
  BY Widths
<1>2. /\ \A k \in DOMAIN tree : Index(tree, Depth, k) \in DOMAIN b.data
      /\ \A c \in DOMAIN b.data : Above(b, c) = {k \in DOMAIN tree : c = Index(tree, Depth, k)}
  BY <1>1, MapIndex
<1>3. \A k \in DOMAIN tree : k \in S <=> k[3] \in MapZ
  <2>. TAKE k \in DOMAIN tree
  <2>1. k \in Voxels /\ k[3] \in Int
    BY KeysAreVoxels, VoxelIs DEF TreeOK
  <2>2. Corner(k, Depth) = k /\ WidthAt(Depth) = 1
    BY <1>1, <2>1, Corners, Widths
  <2>. DEFINE n == [depth |-> Depth, corner |-> Corner(k, Depth)]
  <2>3. k \in S <=> InMapZ(n)
    OBVIOUS
  <2>4. n.corner = k /\ n.depth = Depth
    BY <2>2
  <2>. HIDE DEF n
  <2>5. \A z : z \in k[3] .. k[3] + 1 - 1 <=> z = k[3]
    BY <2>1
  <2>6. InMapZ(n) <=> \E z \in MapZ : z \in k[3] .. k[3] + 1 - 1
    BY <2>2, <2>4 DEF InMapZ
  <2>. QED  BY <2>3, <2>5, <2>6
<1>4. ASSUME NEW n \in Leaves(tree, Depth)
      PROVE  \E k \in DOMAIN tree :
               /\ \A c \in CellsIn(b, n, Depth),
                     z \in n.corner[3] .. n.corner[3] + WidthAt(n.depth) - 1 :
                    \E j \in Block(n.corner, n.depth) \cap DOMAIN tree :
                      j[3] = z /\ tree[j] = tree[k] /\ c = Index(tree, Depth, j)
               /\ Occupied(LeafValue(tree, n)) => Occupied(tree[k])
  <2>1. PICK k \in DOMAIN tree : LeafOf(n, tree, Depth, k)
    BY <1>1, LeavesAre
  <2>2. PICK i \in Block(n.corner, n.depth) \cap DOMAIN tree : tree[i] = LeafValue(tree, n)
    BY <1>1, <2>1, LeafValueIs
  <2>3. k \in Voxels /\ n.depth \in 0 .. Depth /\ n.corner = Corner(k, n.depth)
    BY <2>1, KeysAreVoxels DEF LeafOf, TreeOK
  <2>4. tree[i] = tree[k]
    <3>1. CASE n.depth = Depth
      BY <2>2, <2>3, <3>1, Corners
    <3>2. CASE Pruned(tree, k, n.depth)
      BY <2>2, <2>3, <3>2 DEF Pruned
    <3>. QED  BY <2>1, <3>1, <3>2 DEF LeafOf
  <2>5. \A c \in CellsIn(b, n, Depth),
            z \in n.corner[3] .. n.corner[3] + WidthAt(n.depth) - 1 :
           \E j \in Block(n.corner, n.depth) \cap DOMAIN tree :
             j[3] = z /\ tree[j] = tree[k] /\ c = Index(tree, Depth, j)
    BY <2>1, FineCells
  <2>. QED  BY <2>2, <2>4, <2>5
<1>5. ASSUME NEW k \in DOMAIN tree
      PROVE  \E n \in Leaves(tree, Depth) :
               /\ k \in Block(n.corner, n.depth)
               /\ Index(tree, Depth, k) \in CellsIn(b, n, Depth)
               /\ Occupied(tree[k]) => Occupied(LeafValue(tree, n))
               /\ k[3] \in n.corner[3] .. n.corner[3] + WidthAt(n.depth) - 1
  <2>1. PICK n \in Leaves(tree, Depth) : LeafOf(n, tree, Depth, k)
    BY <1>1, LeavesAre
  <2>2. /\ k \in Block(n.corner, n.depth) /\ k \in Voxels
        /\ n.corner \in Voxels /\ n.depth \in 0 .. Depth
        /\ Occupied(tree[k]) => Occupied(LeafValue(tree, n))
    BY <1>1, <2>1, LeafValueIs
  <2>3. Index(tree, Depth, k) \in CellsIn(b, n, Depth)
    BY <2>1, <2>2, FineCells
  <2>4. k[3] \in n.corner[3] .. n.corner[3] + WidthAt(n.depth) - 1
    <3>1. n.corner[3] <= k[3] /\ k[3] < n.corner[3] + WidthAt(n.depth)
      BY <2>2, InBlock
    <3>2. n.corner[3] \in Int /\ k[3] \in Int /\ WidthAt(n.depth) \in Int
      BY <2>2, VoxelIs, Widths
    <3>. QED  BY <3>1, <3>2
  <2>. QED  BY <2>2, <2>3, <2>4
<1>. HIDE DEF b
<1>6. ASSUME NEW n \in L, NEW c \in CellsIn(b, n, Depth)
      PROVE  \E k \in S : k \in Above(b, c) /\ (Occupied(LeafValue(tree, n)) => Occupied(tree[k]))
  <2>1. n \in Leaves(tree, Depth) /\ InMapZ(n)
    BY DEF Shown
  <2>2. PICK z \in MapZ : z \in n.corner[3] .. n.corner[3] + WidthAt(n.depth) - 1
    BY <2>1 DEF InMapZ
  <2>3. PICK j \in DOMAIN tree : /\ j[3] = z /\ c = Index(tree, Depth, j)
                                 /\ Occupied(LeafValue(tree, n)) => Occupied(tree[j])
    BY <1>4, <2>1, <2>2
  <2>. QED  BY <1>2, <1>3, <2>3
<1>7. ASSUME NEW k \in S, NEW c \in DOMAIN b.data, k \in Above(b, c)
      PROVE  \E n \in L : /\ c \in CellsIn(b, n, Depth)
                          /\ Occupied(tree[k]) => Occupied(LeafValue(tree, n))
  <2>1. k \in DOMAIN tree /\ c = Index(tree, Depth, k) /\ k[3] \in MapZ
    BY <1>2, <1>3, <1>7
  <2>2. PICK n \in Leaves(tree, Depth) :
               /\ Index(tree, Depth, k) \in CellsIn(b, n, Depth)
               /\ Occupied(tree[k]) => Occupied(LeafValue(tree, n))
               /\ k[3] \in n.corner[3] .. n.corner[3] + WidthAt(n.depth) - 1
    BY <1>5, <2>1
  <2>3. n \in L
    BY <2>1, <2>2 DEF Shown, InMapZ
  <2>. QED  BY <2>1, <2>2, <2>3
<1>8. \A k \in S : \E c \in DOMAIN b.data : k \in Above(b, c)
  BY <1>2
<1>. QED  BY <1>6, <1>7, <1>8 DEF Tells, b
------------------------------------------------------------------------------
(* The projected map and the layers, when there was something to publish   *)
(* and the whole map was drawn.                                            *)
Drawn ==
  health = "up" /\ ProjectsMap /\ HasKeys(tree) /\ ~incremental /\ ~NothingToPublish(tree)
MapInv ==
  Drawn => out.map = Painting(BlankMap(tree, depth), tree, depth, Shown(tree, depth))
LayersInv ==
  /\ ArmHeights = {} => layers = NoLayers
  /\ Drawn /\ params.class = "multilayer" =>
       \A l \in DOMAIN layers :
         /\ ~Outside(BlankMap(tree, depth), tree, depth, layers[l])
         /\ ArmHeights # {} =>
              layers[l].grid = Painting(BlankMap(tree, depth), tree, depth,
                                         LayerLeaves(tree, depth, layers[l]))

(* A map whose area has keys is drawn as a whole, unless it is incremental *)
(* and keeps the cells it has.                                             *)
Whole(t, g, m, inc) == ~inc \/ GridInfo(t, m).res # g.res \/ m < Depth

LEMMA WholeMap ==
  ASSUME NEW t, NEW b, NEW g, NEW p, NEW m, NEW inc, Whole(t, g, m, inc), HasKeys(t)
  PROVE  /\ PreTraversal(t, b, g, p, m, inc).grid = BlankMap(t, m)
         /\ PreTraversal(t, b, g, p, m, inc).proj = Own(BlankMap(t, m), m)
         /\ PreTraversal(t, b, g, p, m, inc).proj.complete
         /\ PreTraversal(t, b, g, p, m, inc).health = "up"
<1>. DEFINE pre == PreTraversal(t, b, g, p, m, inc)
            all == ~inc \/ GridInfo(t, m).res # g.res \/ m < Depth
<1>1. all = TRUE
  BY DEF Whole
<1>2. /\ pre.proj = [x0 |-> GridInfo(t, m).x0, y0 |-> GridInfo(t, m).y0,
                     scale |-> WidthAt(m), complete |-> all]
      /\ pre.health = "up" \/ ~all
      /\ pre.grid.data = Blank(GridInfo(t, m).width, GridInfo(t, m).height) \/ ~all
      /\ pre.grid = [x0 |-> GridInfo(t, m).x0, y0 |-> GridInfo(t, m).y0,
                     width |-> GridInfo(t, m).width, height |-> GridInfo(t, m).height,
                     res |-> GridInfo(t, m).res, data |-> pre.grid.data]
  BY DEF PreTraversal, Resize
<1>. HIDE DEF pre, all
<1>3. pre.grid = BlankMap(t, m) /\ pre.health = "up"
  BY <1>1, <1>2 DEF BlankMap
<1>4. pre.proj = Own(BlankMap(t, m), m) /\ pre.proj.complete
  BY <1>1, <1>2 DEF BlankMap, Own
<1>. QED  BY <1>3, <1>4 DEF pre

LEMMA WholeMapPublished ==
  ASSUME NEW astray \in BOOLEAN, PublishAll(astray), Drawn', UNCHANGED params
  PROVE  /\ ~astray
         /\ out'.map = Painting(BlankMap(tree', depth'), tree', depth', Shown(tree', depth'))
         /\ HoldsLeaves(BlankMap(tree', depth'), depth', Shown(tree', depth'))
<1>. DEFINE shown == {n \in Leaves(tree', depth') : InMapZ(n)}
            pre == PreTraversal(tree', box', grid, proj, depth', incremental')
            bad == pre.proj.complete /\ (astray \/ ~InData(pre.proj, pre.grid, depth', shown))
            drawn == Projected(pre.proj, pre.grid, tree', depth', shown)
            whole == BlankMap(tree', depth')
<1>2. /\ ~NothingToPublish(tree') /\ health' = "up" /\ ProjectsMap /\ HasKeys(tree')
      /\ ~incremental'
  BY DEF Drawn, ProjectsMap, HasKeys
<1>1. pre.grid = whole /\ pre.proj = Own(whole, depth') /\ pre.proj.complete /\ pre.health = "up"
  BY <1>2, WholeMap DEF Whole
<1>3. shown = Shown(tree', depth')
  BY DEF Shown
<1>5. /\ ~NothingToPublish(tree') /\ ProjectsMap /\ (pre.health # "up" \/ bad) =>
           health' = IF bad THEN "stray" ELSE pre.health
      /\ ~NothingToPublish(tree') /\ ProjectsMap /\ ~(pre.health # "up" \/ bad) =>
           /\ grid' = IF pre.proj.complete THEN drawn ELSE pre.grid
           /\ out' = Published(tree', grid')
  BY DEF PublishAll
<1>6. \A g : Published(tree', g).map = IF ProjectsMap THEN g ELSE out.map
  BY DEF Published
<1>9. /\ drawn = Painting(pre.grid, tree', depth', shown) \/ pre.proj # Own(pre.grid, depth')
      /\ InData(pre.proj, pre.grid, depth', shown) => HoldsLeaves(pre.grid, depth', shown)
                                                     \/ pre.proj # Own(pre.grid, depth')
  BY DEF Painting, HoldsLeaves
<1>. HIDE DEF pre, shown, drawn, whole
<1>7. ~bad
  BY <1>1, <1>2, <1>5
<1>8. grid' = drawn /\ out' = Published(tree', grid')
  BY <1>1, <1>2, <1>5, <1>7
<1>. QED  BY <1>1, <1>2, <1>3, <1>6, <1>7, <1>8, <1>9 DEF whole

(* The launch parameters are all that these depend on.                     *)
LEMMA ParamsKept ==
  ASSUME UNCHANGED params
  PROVE  /\ \A t, m : BlankMap(t, m)' = BlankMap(t, m)
         /\ \A g, n, m : CellsIn(g, n, m)' = CellsIn(g, n, m)
         /\ \A g, t, m, L : Painting(g, t, m, L)' = Painting(g, t, m, L)
         /\ \A g, t, m, l : Outside(g, t, m, l)' <=> Outside(g, t, m, l)
         /\ \A g, m, L : HoldsLeaves(g, m, L)' <=> HoldsLeaves(g, m, L)
         /\ \A t : HasKeys(t)' <=> HasKeys(t)
         /\ ProjectsMap' <=> ProjectsMap
<1>1. \A t, m : BlankMap(t, m)' = BlankMap(t, m)
  BY DEF BlankMap, GridInfo
<1>2. \A p, g, n, m : CellsOf(p, g, n, m)' = CellsOf(p, g, n, m)
  <2>1. \A p, g, n, i, m : Cell(p, g, n, i, m)' = Cell(p, g, n, i, m)
    BY DEF Cell, Reach
  <2>. QED  BY <2>1 DEF CellsOf
<1>3. \A p, g, t, m, L : Projected(p, g, t, m, L)' = Projected(p, g, t, m, L)
  BY <1>2 DEF Projected
<1>4. \A p, g, t, m, l : LayerAstray(p, g, t, m, l)' <=> LayerAstray(p, g, t, m, l)
  BY <1>2 DEF LayerAstray
<1>5. \A p, g, m, L : InData(p, g, m, L)' <=> InData(p, g, m, L)
  BY <1>2 DEF InData
<1>6. (\A t : HasKeys(t)' <=> HasKeys(t)) /\ (ProjectsMap' <=> ProjectsMap)
  BY DEF HasKeys, ProjectsMap
<1>. QED  BY <1>1, <1>2, <1>3, <1>4, <1>5, <1>6 DEF CellsIn, Painting, Outside, HoldsLeaves

LEMMA MapInvKept == ServerTypes /\ MapInv /\ [NodesNext]_nvars => MapInv'
<1>. SUFFICES ASSUME ServerTypes, MapInv, [NodesNext]_nvars PROVE MapInv'
  OBVIOUS
<1>1. CASE UNCHANGED server_vars
  BY <1>1, ParamsKept DEF server_vars, MapInv, Drawn
<1>2. CASE PublishingHandler /\ \E astray \in BOOLEAN : PublishAll(astray)
  <2>. SUFFICES ASSUME Drawn' 
                PROVE  out'.map = Painting(BlankMap(tree, depth), tree, depth, Shown(tree, depth))'
    BY DEF MapInv
  <2>1. UNCHANGED params
    BY <1>2, Handled
  <2>2. out'.map = Painting(BlankMap(tree', depth'), tree', depth', Shown(tree', depth'))
    BY <1>2, <2>1, WholeMapPublished
  <2>. QED  BY <2>1, <2>2, ParamsKept
<1>3. CASE Strayed \/ Stop
  BY <1>3 DEF Strayed, Stop, MapInv, Drawn
<1>4. CASE Reset
  BY <1>4 DEF Reset, MapInv, Drawn, NothingToPublish, NoTree
<1>6. CASE FileStep
  <2>1. UNCHANGED <<params, health, tree, depth, incremental, out>>
    BY <1>6 DEF FileStep, SaveMap, SaveStatic
  <2>. QED  BY <2>1, ParamsKept DEF MapInv, Drawn
<1>7. CASE NodesNext
  BY <1>1, <1>2, <1>3, <1>4, <1>6, <1>7, NodeSteps DEF ServerTypes
<1>. QED  BY <1>1, <1>7 DEF nvars

(* Drawing changes the data of a layer, not its size.                      *)
LEMMA LayerWritten ==
  ASSUME NEW t, NEW m, NEW z, NEW l, l = [z |-> z, grid |-> BlankMap(t, m)]
  PROVE  /\ PaintedLayer(BlankMap(t, m), t, m, l)
              = [z |-> z, grid |-> Painting(BlankMap(t, m), t, m, LayerLeaves(t, m, l))]
         /\ Outside(BlankMap(t, m), t, m, PaintedLayer(BlankMap(t, m), t, m, l))
              <=> Outside(BlankMap(t, m), t, m, l)
<1>. DEFINE g == BlankMap(t, m)
            L == LayerLeaves(t, m, l)
            p == Painting(g, t, m, L)
            u == PaintedLayer(g, t, m, l)
            occ == UNION {CellsIn(g, n, m) : n \in {i \in L : Occupied(LeafValue(t, i))}}
            free == UNION {CellsIn(g, n, m) : n \in {i \in L : ~Occupied(LeafValue(t, i))}}
            D == [n \in DOMAIN g.data |->
                    IF n \in occ THEN 100
                    ELSE IF n \in free /\ g.data[n] = -1 THEN 0 ELSE g.data[n]]
<1>1. p = [g EXCEPT !.data = D]
  BY DEF Painting, Projected, CellsIn
<1>2. DOMAIN D = DOMAIN g.data
  OBVIOUS
<1>3. l.grid = g /\ l.z = z
  OBVIOUS
<1>4. [g EXCEPT !.data = g.data] = g
  BY DEF BlankMap
<1>5. u = [l EXCEPT !.grid.data = p.data]
  BY <1>3, <1>4 DEF PaintedLayer, WrittenLayer, Painting, Own
<1>. HIDE DEF u, L, p, D
<1>6. p.data = D
  <2>. HIDE DEF D
  <2>. QED  BY <1>1 DEF BlankMap
<1>7. u = [z |-> z, grid |-> [g EXCEPT !.data = D]]
  <2>1. u = [l EXCEPT !.grid = [g EXCEPT !.data = D]]
    BY <1>3, <1>5, <1>6
  <2>. QED  BY <2>1
<1>8. u.z = l.z /\ DOMAIN u.grid.data = DOMAIN l.grid.data
  <2>1. u.z = z /\ u.grid = [g EXCEPT !.data = D]
    BY <1>7
  <2>2. u.grid.data = D
    BY <2>1 DEF BlankMap
  <2>. QED  BY <1>2, <1>3, <2>1, <2>2
<1>9. LayerLeaves(t, m, u) = LayerLeaves(t, m, l)
  BY <1>8 DEF LayerLeaves
<1>10. Outside(g, t, m, u) <=> Outside(g, t, m, l)
  BY <1>8, <1>9 DEF Outside, LayerAstray, CellsIn
<1>. QED  BY <1>1, <1>7, <1>10 DEF u, p, L

(* A layer without cells is left as it is.                                 *)
LEMMA NoLayerWritten ==
  ASSUME NEW p, NEW g, NEW t, NEW m, NEW l \in DOMAIN Heights, "data" \in DOMAIN g
  PROVE  WrittenLayer(p, g, t, m, NoLayers[l]) = NoLayers[l]
<1>. DEFINE e == [i \in {} |-> -1]
            n == NoLayers[l]
            L == LayerLeaves(t, m, n)
            h == [g EXCEPT !.data = e]
<1>1. n = [z |-> Heights[l], grid |-> ClearedGrid]
  BY DEF NoLayers
<1>2. ClearedGrid.data = e
  BY DEF ClearedGrid
<1>3. h.data = e /\ "data" \in DOMAIN h
  OBVIOUS
<1>4. WrittenLayer(p, g, t, m, n) = [n EXCEPT !.grid.data = Projected(p, h, t, m, L).data]
  BY <1>1, <1>2 DEF WrittenLayer
<1>. DEFINE occ == UNION {CellsOf(p, h, i, m) : i \in {j \in L : Occupied(LeafValue(t, j))}}
            free == UNION {CellsOf(p, h, i, m) : i \in {j \in L : ~Occupied(LeafValue(t, j))}}
            D == [i \in DOMAIN h.data |->
                    IF i \in occ THEN 100
                    ELSE IF i \in free /\ h.data[i] = -1 THEN 0 ELSE h.data[i]]
<1>5. Projected(p, h, t, m, L) = [h EXCEPT !.data = D]
  BY DEF Projected
<1>6. D = e
  BY <1>3
<1>. HIDE DEF D, L, e, h
<1>7. Projected(p, h, t, m, L).data = e
  BY <1>3, <1>5, <1>6
<1>8. [n EXCEPT !.grid.data = e] = n
  <2>. HIDE DEF n
  <2>1. n.grid = ClearedGrid
    BY <1>1
  <2>2. [ClearedGrid EXCEPT !.data = e] = ClearedGrid
    BY <1>2 DEF ClearedGrid
  <2>3. [n EXCEPT !.grid.data = e] = [n EXCEPT !.grid = ClearedGrid]
    BY <2>1, <2>2
  <2>. QED  BY <1>1, <2>3
<1>. QED  BY <1>4, <1>7, <1>8

(* The layers after a handler.                                             *)
LEMMA LayersProjected ==
  ASSUME ServerTypes, LayersInv, ProjectLayers, UNCHANGED params
  PROVE  /\ ArmHeights = {} => layers' = NoLayers
         /\ Drawn' =>
              \A l \in DOMAIN layers' :
                /\ ~Outside(BlankMap(tree', depth'), tree', depth', layers'[l])
                /\ ArmHeights # {} =>
                     layers'[l].grid = Painting(BlankMap(tree', depth'), tree', depth',
                                                 LayerLeaves(tree', depth', layers'[l]))
<1>. DEFINE pre == PreTraversal(tree', box', grid, proj, depth', incremental')
<1>1. CASE NothingToPublish(tree')
  <2>1. UNCHANGED layers
    BY <1>1 DEF ProjectLayers
  <2>. QED  BY <1>1, <2>1 DEF LayersInv, Drawn
<1>2. CASE ~NothingToPublish(tree')
  <2>1. PICK ready \in LayersReady(pre.grid, pre.proj.complete) :
              /\ PublishAll(\E l \in DOMAIN ready :
                              LayerAstray(pre.proj, pre.grid, tree', depth', ready[l]))
              /\ layers' = IF health' = "up" /\ pre.proj.complete
                             THEN [l \in DOMAIN ready |->
                                     WrittenLayer(pre.proj, pre.grid, tree', depth', ready[l])]
                             ELSE ready
    BY <1>2 DEF ProjectLayers
  <2>. DEFINE astray == \E l \in DOMAIN ready : LayerAstray(pre.proj, pre.grid, tree', depth', ready[l])
  <2>2. astray \in BOOLEAN
    OBVIOUS
  <2>4. "data" \in DOMAIN pre.grid
    <3>1. CASE HasKeys(tree')
      <4>. DEFINE q == pre.grid
      <4>1. q = [x0 |-> q.x0, y0 |-> q.y0, width |-> q.width, height |-> q.height,
                 res |-> q.res, data |-> q.data]
        BY <3>1 DEF PreTraversal, Resize
      <4>. HIDE DEF q
      <4>. QED  BY <4>1 DEF q
    <3>2. CASE ~HasKeys(tree')
      BY <3>2 DEF PreTraversal, ServerTypes, MapFields
    <3>. QED  BY <3>1, <3>2
  <2>. DEFINE b == BlankMap(tree', depth')
  <2>5. Drawn' => /\ ~astray /\ health' = "up"
                  /\ pre.grid = b /\ pre.proj.complete
                  /\ pre.proj = Own(b, depth')
    <3>. SUFFICES ASSUME Drawn'
                  PROVE  /\ ~astray /\ health' = "up"
                         /\ pre.grid = b /\ pre.proj.complete
                         /\ pre.proj = Own(b, depth')
      OBVIOUS
    <3>1. PublishAll(astray)
      BY <2>1
    <3>2. /\ pre.grid = b /\ pre.proj.complete
          /\ pre.proj = Own(b, depth')
      <4>1. HasKeys(tree') /\ ~incremental'
        BY ParamsKept DEF Drawn
      <4>. QED  BY <4>1, WholeMap DEF Whole
    <3>. HIDE DEF astray, pre, b
    <3>3. ~astray /\ health' = "up"
      BY <2>2, <3>1, WholeMapPublished DEF Drawn
    <3>. QED  BY <3>2, <3>3
  <2>. HIDE DEF pre
  <2>6. ASSUME ArmHeights = {} PROVE layers' = NoLayers
    <3>1. ready = NoLayers
      BY <2>6 DEF LayersReady, LayersInv
    <3>2. DOMAIN ready = DOMAIN Heights
      BY <3>1 DEF NoLayers
    <3>3. \A l \in DOMAIN ready : WrittenLayer(pre.proj, pre.grid, tree', depth', ready[l]) = ready[l]
      BY <2>4, <3>1, <3>2, NoLayerWritten
    <3>4. [l \in DOMAIN ready |-> WrittenLayer(pre.proj, pre.grid, tree', depth', ready[l])]
            = [l \in DOMAIN ready |-> ready[l]]
      BY <3>3
    <3>5. [l \in DOMAIN ready |-> ready[l]] = ready
      BY <3>1 DEF NoLayers
    <3>. QED  BY <2>1, <3>1, <3>4, <3>5
  <2>7. ASSUME Drawn', NEW l \in DOMAIN layers'
        PROVE  /\ ~Outside(BlankMap(tree', depth'), tree', depth', layers'[l])
               /\ ArmHeights # {} =>
                    layers'[l].grid = Painting(BlankMap(tree', depth'), tree', depth',
                                                LayerLeaves(tree', depth', layers'[l]))
    <3>1. /\ l \in DOMAIN ready
          /\ layers'[l] = PaintedLayer(BlankMap(tree', depth'), tree', depth', ready[l])
          /\ ~Outside(BlankMap(tree', depth'), tree', depth', ready[l])
      <4>1. pre.grid = b /\ pre.proj = Own(b, depth') /\ pre.proj.complete /\ health' = "up" /\ ~astray
        BY <2>5, <2>7
      <4>2. layers' = [k \in DOMAIN ready |-> WrittenLayer(pre.proj, pre.grid, tree', depth', ready[k])]
        BY <2>1, <4>1
      <4>3. l \in DOMAIN ready
        BY <2>7, <4>2
      <4>. HIDE DEF b
      <4>. QED  BY <4>1, <4>2, <4>3 DEF PaintedLayer, Outside, b
    <3>2. CASE ArmHeights = {}
      <4>1. ready = NoLayers /\ layers' = NoLayers
        BY <2>6, <3>2 DEF LayersReady, LayersInv
      <4>. QED  BY <3>1, <3>2, <4>1
    <3>3. CASE ArmHeights # {}
      <4>1. PICK arms \in ArmHeights :
               ready = [i \in DOMAIN layers |->
                         [z |-> IF i = ArmLayer THEN arms ELSE layers[i].z,
                          grid |-> Resized(layers[i], grid, pre.grid, pre.proj.complete)]]
        BY <3>3 DEF LayersReady
      <4>. DEFINE z == IF l = ArmLayer THEN arms ELSE layers[l].z
      <4>2. ready[l] = [z |-> z, grid |-> Resized(layers[l], grid, pre.grid, pre.proj.complete)]
        BY <3>1, <4>1
      <4>3. Resized(layers[l], grid, pre.grid, pre.proj.complete) = BlankMap(tree', depth')
        BY <2>5, <2>7 DEF Resized, BlankMap
      <4>. HIDE DEF z
      <4>4. ready[l] = [z |-> z, grid |-> BlankMap(tree', depth')]
        BY <4>2, <4>3
      <4>. DEFINE t == tree'
                  m == depth'
                  r == ready[l]
                  u == layers'[l]
      <4>5. /\ PaintedLayer(BlankMap(t, m), t, m, r)
                 = [z |-> z, grid |-> Painting(BlankMap(t, m), t, m, LayerLeaves(t, m, r))]
            /\ Outside(BlankMap(t, m), t, m, PaintedLayer(BlankMap(t, m), t, m, r))
                 <=> Outside(BlankMap(t, m), t, m, r)
        BY <4>4, LayerWritten
      <4>6. u = PaintedLayer(BlankMap(t, m), t, m, r) /\ ~Outside(BlankMap(t, m), t, m, r)
            /\ r.z = z
        BY <3>1, <4>4
      <4>. HIDE DEF t, m, r, u
      <4>7. u.grid = Painting(BlankMap(t, m), t, m, LayerLeaves(t, m, r)) /\ u.z = r.z
        BY <4>5, <4>6
      <4>8. LayerLeaves(t, m, u) = LayerLeaves(t, m, r)
        BY <4>7 DEF LayerLeaves
      <4>9. ~Outside(BlankMap(t, m), t, m, u)
            /\ u.grid = Painting(BlankMap(t, m), t, m, LayerLeaves(t, m, u))
        BY <4>5, <4>6, <4>7, <4>8
      <4>. QED  BY <4>9 DEF t, m, u
    <3>. QED  BY <3>2, <3>3
  <2>. QED  BY <2>6, <2>7
<1>. QED  BY <1>1, <1>2

LEMMA LayersInvKept == ServerTypes /\ LayersInv /\ [NodesNext]_nvars => LayersInv'
<1>. SUFFICES ASSUME ServerTypes, LayersInv, [NodesNext]_nvars PROVE LayersInv'
  OBVIOUS
<1>1. CASE UNCHANGED nvars
  BY <1>1, ParamsKept DEF nvars, server_vars, LayersInv, Drawn
<1>2. CASE NodesNext /\ params.class # "multilayer"
  <2>1. UNCHANGED <<params, layers>>
    BY <1>2, FileKept DEF NodesNext
  <2>. QED  BY <1>2, <2>1 DEF LayersInv
<1>3. CASE NodesNext /\ params.class = "multilayer"
  <2>1. UNCHANGED params /\ MultilayerNext
    BY <1>3, FileKept DEF NodesNext
  <2>2. CASE ProjectLayers
    <3>1. /\ ArmHeights = {} => layers' = NoLayers
          /\ Drawn' =>
               \A l \in DOMAIN layers' :
                 /\ ~Outside(BlankMap(tree', depth'), tree', depth', layers'[l])
                 /\ ArmHeights # {} =>
                      layers'[l].grid = Painting(BlankMap(tree', depth'), tree', depth',
                                                  LayerLeaves(tree', depth', layers'[l]))
      BY <2>1, <2>2, LayersProjected
    <3>. QED  BY <2>1, <3>1, ParamsKept DEF LayersInv
  <2>3. CASE Reset /\ UNCHANGED layers
    BY <2>3 DEF Reset, LayersInv, Drawn, NothingToPublish, NoTree
  <2>4. CASE Stop /\ layers' = NoLayers
    BY <2>4 DEF Stop, LayersInv, Drawn
  <2>. QED  BY <2>1, <2>2, <2>3, <2>4 DEF MultilayerNext
<1>. QED  BY <1>1, <1>2, <1>3

LEMMA MapsInvAlways == NodesSpec => [](ServerTypes /\ MapInv /\ LayersInv)
<1>1. NodesInit => MapInv /\ LayersInv
  BY DEF NodesInit, Init, Off, LayersInit, MapInv, LayersInv, Drawn
<1>. QED  BY <1>1, ServerTypesInit, ServerTypesKept, MapInvKept, LayersInvKept, PTL DEF NodesSpec

(* Whatever was scanned, cleared, reset and set in whatever order: a       *)
(* consumer finds in the projected map, and in each layer, the projection  *)
(* of the tree, for every tree whose area has keys (the code keeps its old *)
(* map for any other), every depth and every minimal size.                 *)
THEOREM MapsAlwaysShowTree == NodesSpec => []MapsShowTree
<1>1. ServerTypes /\ MapInv /\ LayersInv => MapsShowTree
  <2>. SUFFICES ASSUME ServerTypes, MapInv, LayersInv, Drawn PROVE MapsShowTree
    BY DEF MapsShowTree, Drawn
  <2>. DEFINE S == {k \in DOMAIN tree : InMapZ([depth |-> depth, corner |-> Corner(k, depth)])}
              Z(z) == {k \in DOMAIN tree : LET n == [depth |-> depth, corner |-> Corner(k, depth)]
                                           IN InMapZ(n) /\ InLayer(n, z)}
              N(k) == [depth |-> depth, corner |-> Corner(k, depth)]
              b == BlankMap(tree, depth)
  <2>1. params \in Launches /\ TreeOK(tree) /\ DOMAIN tree # {} /\ depth \in 0 .. Depth
    BY DEF ServerTypes, Drawn, NothingToPublish
  <2>2. ASSUME LeavesInCells PROVE Tells(b, Shown(tree, depth), S)
    <3>1. \A k \in DOMAIN tree : N(k) \in Leaves(tree, depth)
      BY <2>1, <2>2, CoarseLeaves DEF LeavesInCells
    <3>2. \A k \in DOMAIN tree : k \in S <=> N(k) \in Shown(tree, depth)
      BY <3>1 DEF Shown
    <3>3. Shown(tree, depth) \in SUBSET Leaves(tree, depth) /\ S \in SUBSET DOMAIN tree
      BY DEF Shown
    <3>. HIDE DEF S
    <3>. QED  BY <2>1, <2>2, <3>2, <3>3, CoarseTells
  <2>3. ASSUME CellsHoldLeaves PROVE Tells(b, Shown(tree, depth), S)
    BY <2>1, <2>2, <2>3, FineTells DEF CellsHoldLeaves
  <2>4. ASSUME CellsHoldLeaves PROVE Shows(out.map, S)
    BY <2>3, <2>4, Painted DEF MapInv
  <2>5. ASSUME params.class = "multilayer", LeavesInCells, NEW l \in DOMAIN layers
        PROVE  Shows(layers[l].grid, Z(layers[l].z))
    <3>. DEFINE z == layers[l].z
                L == LayerLeaves(tree, depth, layers[l])
    <3>1. \A k \in DOMAIN tree : N(k) \in Leaves(tree, depth)
      BY <2>1, <2>5, CoarseLeaves DEF LeavesInCells
    <3>2. \A k \in DOMAIN tree : k \in Z(z) <=> N(k) \in L
      BY <3>1 DEF LayerLeaves
    <3>3. L \in SUBSET Leaves(tree, depth) /\ Z(z) \in SUBSET DOMAIN tree
      BY DEF LayerLeaves
    <3>. HIDE DEF Z, z, L
    <3>4. Tells(b, L, Z(z))
      BY <2>1, <2>5, <3>2, <3>3, CoarseTells
    <3>5. CASE ArmHeights # {}
      BY <2>5, <3>4, <3>5, Painted DEF LayersInv, L, z
    <3>6. CASE ArmHeights = {}
      <4>1. layers = NoLayers
        BY <3>6 DEF LayersInv
      <4>2. layers[l].grid = ClearedGrid /\ DOMAIN ClearedGrid.data = {}
        BY <4>1 DEF NoLayers, ClearedGrid
      <4>3. \A n \in L : CellsIn(b, n, depth) = {}
        BY <2>5, <4>2 DEF LayersInv, Outside, LayerAstray, CellsIn, L
      <4>4. ASSUME NEW k \in Z(z) PROVE FALSE
        <5>1. k \in DOMAIN tree /\ N(k) \in L
          BY <3>2, <3>3
        <5>2. LeafOf(N(k), tree, depth, k) /\ N(k).depth = depth
          BY <2>1, <5>1 DEF LeafOf
        <5>3. CellsIn(b, N(k), depth) = {Index(tree, depth, k)}
          <6>. DEFINE n == N(k)
          <6>. HIDE DEF n
          <6>. QED  BY <2>1, <5>2, OneCell DEF n
        <5>. QED  BY <4>3, <5>1, <5>3
      <4>5. Z(z) = {}
        BY <4>4
      <4>6. Shows(ClearedGrid, {})
        BY <4>2 DEF Shows
      <4>. QED  BY <4>2, <4>5, <4>6 DEF z
    <3>. QED  BY <3>5, <3>6
  <2>. QED  BY <2>4, <2>5 DEF MapsShowTree
<1>. QED  BY <1>1, MapsInvAlways, PTL
------------------------------------------------------------------------------
(* A map that spans the tree has the cells of its leaves.                  *)
LEMMA KeyIsFinite == IsFiniteSet(Key)
<1>. DEFINE A == 0 .. Side - 1
            f == [p \in (A \X A) \X A |-> <<p[1][1], p[1][2], p[2]>>]
<1>1. IsFiniteSet(A)
  <2>1. 0 \in Int /\ Side - 1 \in Int
    BY Widths
  <2>. QED  BY <2>1, FS_Interval
<1>. HIDE DEF A
<1>2. IsFiniteSet(A \X A)
  BY <1>1, FS_Product
<1>3. IsFiniteSet((A \X A) \X A)
  BY <1>1, <1>2, FS_Product
<1>4. f \in Surjection((A \X A) \X A, A \X A \X A)
  <2>1. f \in [(A \X A) \X A -> A \X A \X A]
    OBVIOUS
  <2>2. ASSUME NEW k \in A \X A \X A PROVE \E p \in (A \X A) \X A : f[p] = k
    <3>1. k = <<k[1], k[2], k[3]>> /\ k[1] \in A /\ k[2] \in A /\ k[3] \in A
      OBVIOUS
    <3>. DEFINE p == << <<k[1], k[2]>>, k[3] >>
    <3>2. p \in (A \X A) \X A /\ p[1][1] = k[1] /\ p[1][2] = k[2] /\ p[2] = k[3]
      BY <3>1
    <3>. HIDE DEF p
    <3>3. f[p] = k
      BY <3>1, <3>2
    <3>. QED  BY <3>2, <3>3
  <2>. HIDE DEF f
  <2>. QED  BY <2>1, <2>2 DEF Surjection
<1>. HIDE DEF f
<1>5. IsFiniteSet(A \X A \X A)
  BY <1>3, <1>4, FS_Surjection
<1>. QED  BY <1>5 DEF Key, A

(* When the leaves fit the cells, they are drawn inside of the map.        *)
LEMMA LeavesInMap ==
  ASSUME params \in Launches, NEW t, TreeOK(t), NEW m \in 0 .. Depth,
         m = Depth \/ \A n \in Leaves(t, Depth) : n.depth >= m,
         NEW n \in Leaves(t, m)
  PROVE  CellsIn(BlankMap(t, m), n, m) \subseteq DOMAIN BlankMap(t, m).data
<1>1. CASE m = Depth
  <2>1. PICK k \in DOMAIN t : LeafOf(n, t, m, k)
    BY LeavesAre
  <2>2. n.corner[3] \in n.corner[3] .. n.corner[3] + WidthAt(n.depth) - 1
    <3>1. n.depth \in 0 .. Depth /\ n.corner \in Voxels
      BY <2>1, LeafValueIs
    <3>2. n.corner[3] \in Int /\ WidthAt(n.depth) \in Nat \ {0}
      BY <3>1, VoxelIs, Widths
    <3>. QED  BY <3>2
  <2>3. ASSUME NEW c \in CellsIn(BlankMap(t, m), n, m) PROVE \E j \in DOMAIN t : c = Index(t, m, j)
    BY <1>1, <2>1, <2>2, FineCells
  <2>. QED  BY <2>3, IndexInMap
<1>2. CASE \A l \in Leaves(t, Depth) : l.depth >= m
  <2>1. PICK k \in DOMAIN t : n = [depth |-> m, corner |-> Corner(k, m)]
    BY <1>2, CoarseLeaves
  <2>2. LeafOf(n, t, m, k) /\ n.depth = m
    BY <2>1 DEF LeafOf
  <2>3. CellsIn(BlankMap(t, m), n, m) = {Index(t, m, k)}
    BY <2>2, OneCell
  <2>. QED  BY <2>3, IndexInMap
<1>. QED  BY <1>1, <1>2

(* A tracking server that keeps no changes back has none left over.        *)
QuietInv ==
  params.class = "tracking" /\ params.minChange = 0 => changed = NoVoxels

(* A server that tells every change keeps none back.                       *)
LEMMA QuietChanges ==
  ASSUME NEW t, NEW u, DOMAIN t \subseteq DOMAIN u
  PROVE  DOMAIN Changes(NoVoxels, t, u) \subseteq DOMAIN u
BY DEF Changes, NoVoxels, Toggled

LEMMA QuietInvKept == ServerTypes /\ QuietInv /\ [NodesNext]_nvars => QuietInv'
<1>. SUFFICES ASSUME ServerTypes, QuietInv, [NodesNext]_nvars,
                     params.class = "tracking", params.minChange = 0, UNCHANGED params
              PROVE  changed' = NoVoxels
  BY FileKept DEF QuietInv, nvars, server_vars
<1>1. changed = NoVoxels
  BY DEF QuietInv
<1>2. CASE UNCHANGED nvars
  BY <1>1, <1>2 DEF nvars, tracking_vars
<1>3. ASSUME NEW c \in params.clouds, OnCloudTracked(c) PROVE changed' = NoVoxels
  <2>. DEFINE ch == Changes(changed, tree, tree')
  <2>1. DOMAIN tree \subseteq DOMAIN tree' /\ TreeOK(tree')
    BY <1>3, CloudOK, UpdatedDomain DEF OnCloudTracked, ServerTypes
  <2>2. DOMAIN ch \subseteq DOMAIN tree'
    BY <1>1, <2>1, QuietChanges
  <2>3. TrackChanges(ch)
    BY <1>3, <2>2 DEF OnCloudTracked
  <2>4. ch = [k \in DOMAIN ch |-> ch[k]]
    BY DEF Changes
  <2>. HIDE DEF ch
  <2>5. CASE ~(Cardinality(DOMAIN ch) > 0)
    <3>1. DOMAIN ch \in SUBSET Key
      BY <2>1, <2>2 DEF TreeOK
    <3>2. IsFiniteSet(DOMAIN ch)
      BY <3>1, KeyIsFinite, FS_Subset
    <3>3. DOMAIN ch = {}
      <4>. DEFINE D == DOMAIN ch
      <4>1. IsFiniteSet(D) /\ ~(Cardinality(D) > 0)
        BY <2>5, <3>2
      <4>. HIDE DEF D
      <4>2. Cardinality(D) \in Nat
        BY <4>1, FS_CardinalityType
      <4>3. Cardinality(D) = 0
        BY <4>1, <4>2
      <4>4. D = {}
        BY <4>1, <4>3, FS_EmptySet
      <4>. QED  BY <4>4 DEF D
    <3>4. ch = NoVoxels
      BY <2>4, <3>3 DEF NoVoxels
    <3>. QED  BY <2>3, <2>5, <3>4 DEF TrackChanges
  <2>6. CASE Cardinality(DOMAIN ch) > 0
    BY <2>3, <2>6 DEF TrackChanges
  <2>. QED  BY <2>5, <2>6
<1>4. CASE NodesNext
  <2>1. TrackingNext
    BY <1>4 DEF NodesNext
  <2>. QED  BY <1>1, <1>3, <2>1 DEF TrackingNext, LaunchTracked, SetParameterTracked,
       ClearBBoxTracked, ResetTracked, StopTracked, Deliver, tracking_vars
<1>. QED  BY <1>2, <1>4

------------------------------------------------------------------------------
(* The area of the map grows with the tree.                                *)
Within(g, h) ==
  /\ h.x0 <= g.x0 /\ g.x0 + g.width <= h.x0 + h.width
  /\ h.y0 <= g.y0 /\ g.y0 + g.height <= h.y0 + h.height
AreaOK(g) == g.x0 \in Int /\ g.y0 \in Int /\ g.width \in Nat \ {0} /\ g.height \in Nat \ {0}

(* Where a map of full resolution begins and ends.                         *)
LEMMA SpanIs ==
  ASSUME params \in Launches, NEW U, U \subseteq 0 .. Side - 1, U # {}
  PROVE  /\ Min(U) \in U /\ Max(U) \in U /\ Min(U) \in Int /\ Max(U) \in Int
         /\ \A i \in U : Min(U) <= i /\ Max(U) >= i
         /\ First(U, 1) = IF Min(U) <= Zero - params.half THEN Min(U) ELSE Zero - params.half
         /\ Last(U, 1) = IF Max(U) + 1 <= Zero + params.half THEN Zero + params.half
                         ELSE Max(U) + 1
<1>. DEFINE e == Zero - params.half
            f == Zero + params.half
<1>0. Side \in Nat \ {0} /\ Zero \in Nat /\ params.half \in Nat /\ 0 \in Int /\ Side - 1 \in Int
  BY Widths, LaunchAssumption
<1>1. Min(U) \in U /\ Max(U) \in U /\ \A i \in U : Min(U) <= i /\ Max(U) >= i
  BY <1>0, LeastAndGreatest
<1>. DEFINE a == Min(U)
            b == Max(U)
<1>2. a \in Int /\ b \in Int
  <2>1. \A i \in 0 .. Side - 1 : i \in Int
    BY <1>0
  <2>. HIDE DEF a, b
  <2>. QED  BY <1>1, <2>1 DEF a, b
<1>3. First(U, 1) = Min({a, e}) \div 1 /\ Last(U, 1) = Max({b + 1, f}) \div 1
  BY DEF First, Last
<1>. HIDE DEF a, b
<1>4. e \in Int /\ f \in Int /\ b + 1 \in Int
  BY <1>0, <1>2
<1>. HIDE DEF e, f
<1>5. Min({a, e}) = (IF a <= e THEN a ELSE e) /\ Max({b + 1, f}) = (IF b + 1 <= f THEN f ELSE b + 1)
  BY <1>2, <1>4, LeastOfTwo
<1>6. \A i \in Int : i \div 1 = i
  OBVIOUS
<1>. QED  BY <1>1, <1>2, <1>3, <1>4, <1>5, <1>6 DEF a, b, e, f

(* A tree that grows spans more.                                           *)
LEMMA SpansGrow ==
  ASSUME params \in Launches, NEW S, NEW T, S \subseteq T, T \subseteq 0 .. Side - 1, S # {}
  PROVE  First(T, 1) <= First(S, 1) /\ Last(S, 1) <= Last(T, 1)
<1>. DEFINE e == Zero - params.half
            f == Zero + params.half
<1>1. Side \in Nat \ {0} /\ Zero \in Nat /\ params.half \in Nat /\ 0 \in Int /\ Side - 1 \in Int
  BY Widths, LaunchAssumption
<1>2. ASSUME NEW U, U \subseteq 0 .. Side - 1, U # {}
      PROVE  /\ Min(U) \in U /\ Max(U) \in U /\ Min(U) \in Int /\ Max(U) \in Int
             /\ \A i \in U : Min(U) <= i /\ Max(U) >= i
             /\ First(U, 1) = IF Min(U) <= e THEN Min(U) ELSE e
             /\ Last(U, 1) = IF Max(U) + 1 <= f THEN f ELSE Max(U) + 1
  BY <1>2, SpanIs
<1>3. /\ Min(S) \in T /\ Max(S) \in T
      /\ Min(S) \in Int /\ Max(S) \in Int /\ Min(T) \in Int /\ Max(T) \in Int
      /\ Min(T) <= Min(S) /\ Max(S) <= Max(T)
      /\ First(S, 1) = (IF Min(S) <= e THEN Min(S) ELSE e)
      /\ First(T, 1) = (IF Min(T) <= e THEN Min(T) ELSE e)
      /\ Last(S, 1) = (IF Max(S) + 1 <= f THEN f ELSE Max(S) + 1)
      /\ Last(T, 1) = (IF Max(T) + 1 <= f THEN f ELSE Max(T) + 1)
  BY <1>2
<1>4. e \in Int /\ f \in Int
  BY <1>1
<1>. HIDE DEF e, f
<1>. QED  BY <1>3, <1>4

Xs(t) == {k[1] : k \in DOMAIN t}
Ys(t) == {k[2] : k \in DOMAIN t}

(* The area of a map of full resolution.                                   *)
LEMMA AreaIs ==
  ASSUME params \in Launches, NEW v, TreeOK(v), DOMAIN v # {}
  PROVE  /\ Xs(v) \subseteq 0 .. Side - 1 /\ Ys(v) \subseteq 0 .. Side - 1
         /\ Xs(v) # {} /\ Ys(v) # {}
         /\ First(Xs(v), 1) \in Int /\ Last(Xs(v), 1) \in Int
         /\ First(Ys(v), 1) \in Int /\ Last(Ys(v), 1) \in Int
         /\ GridInfo(v, Depth).x0 = First(Xs(v), 1)
         /\ GridInfo(v, Depth).y0 = First(Ys(v), 1)
         /\ GridInfo(v, Depth).width = (Last(Xs(v), 1) - First(Xs(v), 1)) + 1
         /\ GridInfo(v, Depth).height = (Last(Ys(v), 1) - First(Ys(v), 1)) + 1
<1>0. WidthAt(Depth) = 1 /\ Side \in Nat
  BY Widths
<1>1. \A k \in DOMAIN v : k[1] \in 0 .. Side - 1 /\ k[2] \in 0 .. Side - 1
  BY <1>0, KeysAreVoxels, VoxelIs DEF TreeOK
<1>2. Xs(v) \subseteq 0 .. Side - 1 /\ Ys(v) \subseteq 0 .. Side - 1 /\ Xs(v) # {} /\ Ys(v) # {}
  BY <1>1 DEF Xs, Ys
<1>. DEFINE A == Xs(v)
            B == Ys(v)
<1>3. /\ GridInfo(v, Depth).x0 = First(A, 1) * 1
      /\ GridInfo(v, Depth).y0 = First(B, 1) * 1
      /\ GridInfo(v, Depth).width = (Last(A, 1) - First(A, 1)) + 1
      /\ GridInfo(v, Depth).height = (Last(B, 1) - First(B, 1)) + 1
  BY <1>0 DEF GridInfo, First, Last, Xs, Ys
<1>. HIDE DEF A, B
<1>4. /\ First(A, 1) \in Int /\ Last(A, 1) \in Int
      /\ First(B, 1) \in Int /\ Last(B, 1) \in Int
  <2>1. 1 \in Nat \ {0}
    OBVIOUS
  <2>. QED  BY <1>2, <2>1, Spans DEF A, B
<1>. QED  BY <1>2, <1>3, <1>4 DEF A, B

LEMMA AreaGrows ==
  ASSUME params \in Launches, NEW t, NEW u, TreeOK(t), TreeOK(u),
         DOMAIN t \subseteq DOMAIN u, DOMAIN t # {}
  PROVE  Within(GridInfo(t, Depth), GridInfo(u, Depth))
<1>3. DOMAIN u # {} /\ Xs(t) \subseteq Xs(u) /\ Ys(t) \subseteq Ys(u)
  BY DEF Xs, Ys
<1>4. /\ First(Xs(u), 1) <= First(Xs(t), 1) /\ Last(Xs(t), 1) <= Last(Xs(u), 1)
      /\ First(Ys(u), 1) <= First(Ys(t), 1) /\ Last(Ys(t), 1) <= Last(Ys(u), 1)
  BY <1>3, AreaIs, SpansGrow
<1>. QED  BY <1>3, <1>4, AreaIs DEF Within

(* The box of a scan.                                                      *)
BoxInv == /\ box.x0 \in Int /\ box.x1 \in Int /\ box.y0 \in Int /\ box.y1 \in Int

LEMMA BoxIs ==
  ASSUME NEW o \in Voxels, NEW A, A \subseteq Key
  PROVE  /\ BoxOf({o} \cup A).x0 \in Int /\ BoxOf({o} \cup A).x1 \in Int
         /\ BoxOf({o} \cup A).y0 \in Int /\ BoxOf({o} \cup A).y1 \in Int
<1>. DEFINE B == {o} \cup A
<1>1. Side \in Nat \ {0} /\ o[1] \in Int /\ o[2] \in Int
  BY Widths, VoxelIs
<1>2. \A k \in B : k = o \/ (k[1] \in 0 .. Side - 1 /\ k[2] \in 0 .. Side - 1)
  BY <1>1, KeysAreVoxels, VoxelIs
<1>3. ASSUME NEW i \in 1 .. 2, NEW V, V = {k[i] : k \in B}
      PROVE  Min(V) \in Int /\ Max(V) \in Int
  <2>. DEFINE lo == IF o[i] < 0 THEN o[i] ELSE 0
              hi == IF o[i] < Side THEN Side ELSE o[i]
  <2>1. o[i] \in Int /\ lo \in Int /\ hi \in Int
    BY <1>1
  <2>2. \A k \in B : k[i] \in lo .. hi
    BY <1>1, <1>2, <2>1
  <2>3. V \subseteq lo .. hi /\ V # {}
    BY <1>3, <2>2
  <2>. HIDE DEF lo, hi
  <2>4. Min(V) \in V /\ Max(V) \in V
    BY <2>1, <2>3, LeastAndGreatest
  <2>5. \A j \in lo .. hi : j \in Int
    BY <2>1
  <2>. QED  BY <2>3, <2>4, <2>5
<1>4. /\ BoxOf(B).x0 = Min({k[1] : k \in B}) /\ BoxOf(B).x1 = Max({k[1] : k \in B})
      /\ BoxOf(B).y0 = Min({k[2] : k \in B}) /\ BoxOf(B).y1 = Max({k[2] : k \in B})
  BY DEF BoxOf
<1>. HIDE DEF B
<1>5. 1 \in 1 .. 2 /\ 2 \in 1 .. 2
  OBVIOUS
<1>. QED  BY <1>3, <1>4, <1>5 DEF B

LEMMA BoxHandled ==
  ASSUME ServerTypes, BoxInv, PublishingHandler
  PROVE  BoxInv'
<1>1. CASE Launch
  <2>1. CASE tree' = NoTree
    BY <1>1, <2>1, Widths DEF Launch, NoBox, BoxInv
  <2>2. CASE tree' # NoTree
    <3>1. TreeOK(tree') /\ box' = TreeBox(tree')
      BY <1>1, <2>2, Handled DEF Launch
    <3>. DEFINE t == tree'
                D == DOMAIN t
    <3>2. D # {} /\ D \subseteq Key
      BY <2>2, <3>1 DEF TreeOK, NoTree
    <3>3. PICK o : o \in D
      BY <3>2
    <3>4. o \in Voxels /\ {o} \cup D = D
      BY <3>2, <3>3, KeysAreVoxels
    <3>. HIDE DEF D
    <3>5. BoxOf(D).x0 \in Int /\ BoxOf(D).x1 \in Int /\ BoxOf(D).y0 \in Int /\ BoxOf(D).y1 \in Int
      BY <3>2, <3>4, BoxIs
    <3>6. TreeBox(tree') = [BoxOf(D) EXCEPT !.x1 = (@ + 1) % Side, !.y1 = (@ + 1) % Side]
      BY DEF TreeBox, D
    <3>7. \A q : BoxOf(q) = [x0 |-> BoxOf(q).x0, x1 |-> BoxOf(q).x1, y0 |-> BoxOf(q).y0, y1 |-> BoxOf(q).y1]
      BY DEF BoxOf
    <3>. DEFINE q == BoxOf(D)
    <3>8. q = [x0 |-> q.x0, x1 |-> q.x1, y0 |-> q.y0, y1 |-> q.y1]
      BY <3>7
    <3>9. box' = [q EXCEPT !.x1 = (@ + 1) % Side, !.y1 = (@ + 1) % Side]
      BY <3>1, <3>6
    <3>10. q.x0 \in Int /\ q.x1 \in Int /\ q.y0 \in Int /\ q.y1 \in Int
      BY <3>5
    <3>. HIDE DEF q
    <3>11. /\ box'.x0 = q.x0 /\ box'.x1 = (q.x1 + 1) % Side
           /\ box'.y0 = q.y0 /\ box'.y1 = (q.y1 + 1) % Side
      BY <3>8, <3>9
    <3>12. \A i \in Int : i % Side \in Int
      BY Widths
    <3>. QED  BY <3>10, <3>11, <3>12 DEF BoxInv
  <2>. QED  BY <2>1, <2>2
<1>2. ASSUME NEW c \in params.clouds, OnCloud(c) PROVE BoxInv'
  <2>1. PICK from, ground : InsertScan(c.pose, ground,
                 {p \in InWorld(c, from) : p[3] \in PointZ} \ ground)
    BY <1>2 DEF OnCloud, InsertCloud
  <2>2. c.pose \in Voxels
    BY LaunchAssumption, KeysAreVoxels DEF ServerTypes
  <2>3. PICK A : A \subseteq Key /\ box' = BoxOf({c.pose} \cup A)
    BY <2>1 DEF InsertScan, ScanBox
  <2>. DEFINE o == c.pose
  <2>4. o \in Voxels /\ box' = BoxOf({o} \cup A)
    BY <2>2, <2>3
  <2>. HIDE DEF o
  <2>. QED  BY <2>3, <2>4, BoxIs DEF BoxInv
<1>3. CASE UNCHANGED box
  BY <1>3 DEF BoxInv
<1>. QED  BY <1>1, <1>2, <1>3 DEF PublishingHandler, ClearBBox, SetParameter

(* The data of an old map in a map of a larger area around it.             *)
Moved(g, h) == IF SameArea(g, h) THEN g.data ELSE Adjusted(g, h)

(* The rows and columns of an area, and of an area around it.              *)
LEMMA CellInArea ==
  ASSUME NEW w \in Nat \ {0}, NEW h \in Nat \ {0}, NEW i \in 0 .. w - 1, NEW j \in 0 .. h - 1
  PROVE  /\ (w * j + i) \in 0 .. w * h - 1 /\ (j * w + i) = w * j + i
         /\ (w * j + i) % w = i /\ (w * j + i) \div w = j
<1>1. i \in Nat /\ i < w /\ j \in Nat /\ (h - j) - 1 \in Nat
  OBVIOUS
<1>2. w * j \in Nat /\ w * ((h - j) - 1) \in Nat /\ w * h \in Int
  BY <1>1
<1>3. w * ((h - j) - 1) = w * h - w * j - w
  BY <1>1
<1>4. (w * j + i) \in 0 .. w * h - 1 /\ (j * w + i) = w * j + i
  BY <1>1, <1>2, <1>3
<1>. QED  BY <1>1, <1>4, Indexed

LEMMA AreaOfCell ==
  ASSUME NEW w \in Nat \ {0}, NEW h \in Nat \ {0}, NEW n \in 0 .. w * h - 1
  PROVE  /\ n % w \in 0 .. w - 1 /\ n \div w \in 0 .. h - 1
         /\ n = w * (n \div w) + (n % w)
<1>. DEFINE i == n % w
            j == n \div w
<1>1. n \in Nat /\ w * h \in Int /\ n < w * h
  OBVIOUS
<1>2. i \in 0 .. w - 1 /\ j \in Int /\ n = w * j + i
  BY <1>1, Indexed
<1>. HIDE DEF i, j
<1>3. w * j \in Int
  BY <1>2
<1>4. ~(j < 0)
  <2>. SUFFICES ASSUME j < 0 PROVE FALSE
    OBVIOUS
  <2>1. -(j + 1) \in Nat /\ w * (-(j + 1)) \in Nat /\ w * (-(j + 1)) = -(w * j) - w
    BY <1>2
  <2>. QED  BY <1>1, <1>2, <1>3, <2>1
<1>5. ~(j >= h)
  <2>. SUFFICES ASSUME j >= h PROVE FALSE
    OBVIOUS
  <2>1. j - h \in Nat /\ w * (j - h) \in Nat /\ w * (j - h) = w * j - w * h
    BY <1>2
  <2>. QED  BY <1>1, <1>2, <1>3, <2>1
<1>6. j \in 0 .. h - 1
  BY <1>2, <1>4, <1>5
<1>. QED  BY <1>2, <1>6 DEF i, j

LEMMA Shifted ==
  ASSUME NEW x \in Int, NEW X \in Int, NEW w \in Nat, NEW W \in Nat, X <= x, x + w <= X + W
  PROVE  /\ ~(x - X < 0) /\ ~(w + (x - X) > W)
         /\ \A i \in 0 .. w - 1 :
              (x + i) - X \in 0 .. W - 1 /\ ((x + i) - X) - (x - X) = i
OBVIOUS

LEMMA MovedKeeps ==
  ASSUME NEW g, NEW h, AreaOK(g), AreaOK(h), Within(g, h),
         DOMAIN g.data = 0 .. g.width * g.height - 1
  PROVE  /\ DOMAIN Moved(g, h) = 0 .. h.width * h.height - 1
         /\ \A n \in DOMAIN g.data :
              LET i == (g.x0 + (n % g.width)) - h.x0
                  j == (g.y0 + (n \div g.width)) - h.y0
              IN /\ i \in 0 .. h.width - 1 /\ j \in 0 .. h.height - 1
                 /\ h.width * j + i \in DOMAIN Moved(g, h)
                 /\ Moved(g, h)[h.width * j + i] = g.data[n]
<1>. DEFINE w == g.width
            v == g.height
            W == h.width
            H == h.height
            x == g.x0
            y == g.y0
            X == h.x0
            Y == h.y0
            I(n) == (x + (n % w)) - X
            J(n) == (y + (n \div w)) - Y
            d == g.data
            m == Moved(g, h)
<1>1. /\ w \in Nat \ {0} /\ v \in Nat \ {0} /\ W \in Nat \ {0} /\ H \in Nat \ {0}
      /\ x \in Int /\ y \in Int /\ X \in Int /\ Y \in Int
      /\ X <= x /\ x + w <= X + W /\ Y <= y /\ y + v <= Y + H
  BY DEF AreaOK, Within
<1>2. DOMAIN d = 0 .. w * v - 1
  OBVIOUS
<1>3. SameArea(g, h) => m = d /\ x = X /\ y = Y /\ w = W /\ v = H
  BY DEF SameArea, Moved
<1>4. ~SameArea(g, h) =>
        m = [n \in DOMAIN Blank(W, H) |->
               LET i == (n % W) - (x - X)
                   j == (n \div W) - (y - Y)
               IN IF i \in 0 .. w - 1 /\ j \in 0 .. v - 1 THEN d[j * w + i] ELSE -1]
  <2>1. Offset(x, X) = x - X /\ Offset(y, Y) = y - Y
    BY <1>1 DEF Offset
  <2>2. ~(x - X < 0 \/ y - Y < 0 \/ w + (x - X) > W \/ v + (y - Y) > H)
    <3>. HIDE DEF w, v, W, H, x, y, X, Y
    <3>. QED  BY <1>1, Shifted
  <2>. QED  BY <2>1, <2>2 DEF Moved, Adjusted
<1>5. DOMAIN Blank(W, H) = 0 .. W * H - 1
  BY DEF Blank
<1>. HIDE DEF w, v, W, H, x, y, X, Y, d, m
<1>6. ASSUME NEW n \in DOMAIN d
      PROVE  /\ I(n) \in 0 .. W - 1 /\ J(n) \in 0 .. H - 1
             /\ W * J(n) + I(n) \in 0 .. W * H - 1
             /\ m[W * J(n) + I(n)] = d[n]
  <2>. DEFINE i == n % w
              j == n \div w
              a == (x + i) - X
              b == (y + j) - Y
              c == W * b + a
  <2>1. i \in 0 .. w - 1 /\ j \in 0 .. v - 1 /\ n = w * j + i
    BY <1>1, <1>2, AreaOfCell
  <2>. HIDE DEF i, j
  <2>2. a \in 0 .. W - 1 /\ b \in 0 .. H - 1 /\ a - (x - X) = i /\ b - (y - Y) = j
    <3>1. a \in 0 .. W - 1 /\ a - (x - X) = i
      BY <1>1, <2>1, Shifted
    <3>2. b \in 0 .. H - 1 /\ b - (y - Y) = j
      BY <1>1, <2>1, Shifted
    <3>. QED  BY <3>1, <3>2
  <2>. HIDE DEF a, b
  <2>3. c \in 0 .. W * H - 1 /\ c % W = a /\ c \div W = b
    BY <1>1, <2>2, CellInArea
  <2>4. j * w + i = n
    BY <1>1, <2>1
  <2>5. m[c] = d[n]
    <3>1. CASE SameArea(g, h)
      <4>1. m = d /\ x = X /\ y = Y /\ w = W
        BY <1>3, <3>1
      <4>2. a = i /\ b = j
        BY <1>1, <2>1, <2>2, <4>1
      <4>3. c = n
        BY <2>1, <4>1, <4>2
      <4>. QED  BY <4>1, <4>3
    <3>2. CASE ~SameArea(g, h)
      <4>. HIDE DEF c
      <4>1. m[c] = LET ii == (c % W) - (x - X)
                       jj == (c \div W) - (y - Y)
                   IN IF ii \in 0 .. w - 1 /\ jj \in 0 .. v - 1 THEN d[jj * w + ii] ELSE -1
        BY <1>4, <1>5, <2>3, <3>2
      <4>2. (c % W) - (x - X) = i /\ (c \div W) - (y - Y) = j
        BY <2>2, <2>3
      <4>3. m[c] = d[j * w + i]
        BY <2>1, <4>1, <4>2
      <4>. QED  BY <2>4, <4>3
    <3>. QED  BY <3>1, <3>2
  <2>. QED  BY <2>2, <2>3, <2>5 DEF a, b, c, i, j
<1>7. DOMAIN m = 0 .. W * H - 1
  BY <1>2, <1>3, <1>4, <1>5
<1>. QED  BY <1>6, <1>7 DEF w, v, W, H, x, y, X, Y, d, m

(* The map that the node keeps: the data is empty, or that of an area that *)
(* lies within the area of the tree.                                       *)
Fits(g, t) ==
  /\ DOMAIN t # {}
  /\ AreaOK(g)
  /\ DOMAIN g.data = 0 .. g.width * g.height - 1
  /\ Within(g, GridInfo(t, Depth))
GridFits(g, t) == DOMAIN g.data # {} => g.res # 0 /\ (g.res = 1 => Fits(g, t))
GridInv ==
  /\ health = "down" => DOMAIN grid.data = {}
  /\ health = "up" => GridFits(grid, tree)

(* The area of a tree, and what the map is made of before the leaves.      *)
LEMMA InfoOK ==
  ASSUME params \in Launches, NEW t, TreeOK(t), DOMAIN t # {}, NEW m \in 0 .. Depth
  PROVE  /\ AreaOK(GridInfo(t, m)) /\ GridInfo(t, m).res = WidthAt(m) /\ WidthAt(m) # 0
         /\ WidthAt(m) = 1 => Within(GridInfo(t, m), GridInfo(t, Depth))
<1>. DEFINE b == BlankMap(t, m)
            w == WidthAt(m)
            g == GridInfo(t, m)
            h == GridInfo(t, Depth)
<1>1. /\ w \in Nat \ {0} /\ b.res = w
      /\ West(t, m) \in Int /\ South(t, m) \in Int
      /\ b.x0 = West(t, m) * w /\ b.y0 = South(t, m) * w
      /\ b.width \in Nat \ {0} /\ b.height \in Nat \ {0}
  BY MapArea
<1>2. b.x0 = g.x0 /\ b.y0 = g.y0 /\ b.width = g.width /\ b.height = g.height /\ b.res = g.res
  BY DEF BlankMap
<1>3. w = 1 => g = h
  BY Widths DEF GridInfo
<1>. HIDE DEF b, w, g, h
<1>4. g.x0 \in Int /\ g.y0 \in Int /\ g.width \in Nat \ {0} /\ g.height \in Nat \ {0}
  BY <1>1, <1>2
<1>5. AreaOK(g) /\ Within(g, g)
  BY <1>4 DEF AreaOK, Within
<1>. QED  BY <1>1, <1>2, <1>3, <1>5 DEF g, h, w

(* The parts of an incremental map.                                        *)
Filled(b, info) ==
  LET c == BoxInGrid(b, info)
  IN {info.width * j + i : i \in c.x0 .. c.x1, j \in c.y0 .. c.y1}

MapParts(t, b, g, m, inc) ==
  LET info == GridInfo(t, m)
      pre == Resize(t, b, g, m, inc)
  IN /\ pre.proj.complete \in BOOLEAN
     /\ ~pre.proj.complete => inc /\ info.res = g.res /\ ~(m < Depth)
     /\ pre.proj.complete => ~inc \/ info.res # g.res \/ m < Depth
     /\ pre.grid.x0 = info.x0 /\ pre.grid.y0 = info.y0
     /\ pre.grid.width = info.width /\ pre.grid.height = info.height
     /\ pre.grid.res = info.res
     /\ pre.proj.complete => pre.grid = BlankMap(t, m)
     /\ ~pre.proj.complete => pre.grid.data = [n \in DOMAIN Moved(g, info) |->
                                          IF n \in Filled(b, info) THEN -1 ELSE Moved(g, info)[n]]

LEMMA MapHasParts ==
  ASSUME NEW t, NEW b, NEW g, NEW m, NEW inc
  PROVE  MapParts(t, b, g, m, inc)
<1>. DEFINE info == GridInfo(t, m)
            pre == Resize(t, b, g, m, inc)
            data == IF SameArea(g, info) THEN g.data ELSE Adjusted(g, info)
            c == BoxInGrid(b, info)
            filled == {info.width * j + i : i \in c.x0 .. c.x1, j \in c.y0 .. c.y1}
            all == ~inc \/ info.res # g.res \/ m < Depth
<1>1. /\ pre.proj.complete = all
      /\ pre.grid = [x0 |-> info.x0, y0 |-> info.y0, width |-> info.width,
                     height |-> info.height, res |-> info.res, data |-> pre.grid.data]
      /\ pre.grid.data = IF all THEN Blank(info.width, info.height)
                         ELSE [n \in DOMAIN data |-> IF n \in filled THEN -1 ELSE data[n]]
  BY DEF Resize
<1>2. data = Moved(g, info) /\ filled = Filled(b, info)
  BY DEF Moved, Filled
<1>5. /\ all \in BOOLEAN /\ (~all => inc /\ info.res = g.res /\ ~(m < Depth))
      /\ all => ~inc \/ info.res # g.res \/ m < Depth
  OBVIOUS
<1>. HIDE DEF pre, data, filled, all, info
<1>3. /\ all => pre.grid.data = Blank(info.width, info.height)
      /\ ~all => pre.grid.data = [n \in DOMAIN data |-> IF n \in filled THEN -1 ELSE data[n]]
  BY <1>1
<1>4. ~all => pre.grid.data = [n \in DOMAIN Moved(g, info) |->
                               IF n \in Filled(b, info) THEN -1 ELSE Moved(g, info)[n]]
  BY <1>2, <1>3
<1>. QED  BY <1>1, <1>3, <1>4, <1>5 DEF pre, info, MapParts, BlankMap

(* Every map that is drawn fits the tree, and fits it as the tree grows.   *)
LEMMA DrawnFits ==
  ASSUME params \in Launches, NEW t, TreeOK(t), DOMAIN t # {}, NEW m \in 0 .. Depth,
         NEW b, NEW inc, NEW g, GridFits(g, t)
  PROVE  GridFits(Resize(t, b, g, m, inc).grid, t)
<1>. DEFINE info == GridInfo(t, m)
            p == Resize(t, b, g, m, inc).grid
            complete == Resize(t, b, g, m, inc).proj.complete
            d == Moved(g, info)
<1>1. /\ AreaOK(info) /\ info.res = WidthAt(m) /\ WidthAt(m) # 0
      /\ WidthAt(m) = 1 => Within(info, GridInfo(t, Depth))
  BY InfoOK
<1>2. /\ complete \in BOOLEAN
      /\ ~complete => inc /\ info.res = g.res /\ ~(m < Depth)
      /\ p.x0 = info.x0 /\ p.y0 = info.y0 /\ p.width = info.width
      /\ p.height = info.height /\ p.res = info.res
      /\ complete => p = BlankMap(t, m)
      /\ ~complete => p.data = [n \in DOMAIN d |-> IF n \in Filled(b, info) THEN -1 ELSE d[n]]
  <2>1. MapParts(t, b, g, m, inc)
    BY MapHasParts
  <2>. QED  BY <2>1 DEF MapParts
<1>3. /\ complete => DOMAIN p.data = 0 .. info.width * info.height - 1
      /\ ~complete => DOMAIN p.data = DOMAIN d
  <2>1. BlankMap(t, m).data = Blank(info.width, info.height)
    BY DEF BlankMap
  <2>. HIDE DEF p, complete, d, info
  <2>. QED  BY <1>2, <2>1 DEF Blank
<1>4. DOMAIN d = DOMAIN g.data \/ DOMAIN d = 0 .. info.width * info.height - 1
  BY DEF Moved, Adjusted, Blank
<1>5. ASSUME ~complete, info.res = 1, DOMAIN g.data # {}
      PROVE  DOMAIN d = 0 .. info.width * info.height - 1
  <2>. HIDE DEF p, complete, d
  <2>1. Fits(g, t)
    BY <1>2, <1>5 DEF GridFits
  <2>2. m = Depth
    BY <1>2, <1>5, Widths
  <2>3. AreaOK(g) /\ Within(g, info) /\ DOMAIN g.data = 0 .. g.width * g.height - 1
    BY <2>1, <2>2 DEF Fits
  <2>. HIDE DEF info
  <2>. QED  BY <1>1, <2>3, MovedKeeps DEF d
<1>. HIDE DEF info, p, d, complete
<1>6. AreaOK(p) /\ p.res # 0
  BY <1>1, <1>2 DEF AreaOK
<1>7. ASSUME DOMAIN p.data # {}, p.res = 1 PROVE Fits(p, t)
  <2>1. DOMAIN p.data = 0 .. p.width * p.height - 1
    BY <1>2, <1>3, <1>4, <1>5, <1>7
  <2>2. Within(p, GridInfo(t, Depth))
    BY <1>1, <1>2, <1>7 DEF Within
  <2>. QED  BY <1>6, <2>1, <2>2 DEF Fits
<1>. QED  BY <1>6, <1>7 DEF GridFits, p

LEMMA ProjectedFits ==
  ASSUME NEW q, NEW g, NEW t, NEW u, NEW m, NEW L, DOMAIN g = MapFields, GridFits(g, t)
  PROVE  GridFits(Projected(q, g, u, m, L), t)
<1>. DEFINE p == Projected(q, g, u, m, L)
<1>1. /\ p.x0 = g.x0 /\ p.y0 = g.y0 /\ p.width = g.width /\ p.height = g.height
      /\ p.res = g.res /\ DOMAIN p.data = DOMAIN g.data
  BY DEF Projected, MapFields
<1>. HIDE DEF p
<1>2. GridFits(p, t)
  BY <1>1 DEF GridFits, Fits, AreaOK, Within
<1>. QED  BY <1>2 DEF p

(* A handler of a node that is up keeps every voxel.                       *)
LEMMA VoxelsStay ==
  ASSUME PublishingHandler, health = "up"
  PROVE  DOMAIN tree \subseteq DOMAIN tree'
<1>1. ASSUME NEW c \in params.clouds, OnCloud(c) PROVE DOMAIN tree \subseteq DOMAIN tree'
  BY <1>1, UpdatedDomain DEF OnCloud
<1>2. ASSUME NEW b \in Boxes, ClearBBox(b) PROVE DOMAIN tree = DOMAIN tree'
  BY <1>2 DEF ClearBBox, Cleared
<1>3. ASSUME NEW m, NEW inc, SetParameter(m, inc) PROVE DOMAIN tree = DOMAIN tree'
  BY <1>3 DEF SetParameter
<1>4. ~Launch
  BY DEF Launch
<1>. QED  BY <1>1, <1>2, <1>3, <1>4 DEF PublishingHandler

LEMMA FitsGrow ==
  ASSUME params \in Launches, NEW t, TreeOK(t), NEW u, TreeOK(u), DOMAIN t \subseteq DOMAIN u,
         NEW g, GridFits(g, t)
  PROVE  GridFits(g, u)
<1>. SUFFICES ASSUME Fits(g, t) PROVE Fits(g, u)
  BY DEF GridFits
<1>. DEFINE a == GridInfo(t, Depth)
            b == GridInfo(u, Depth)
<1>1. DOMAIN t # {} /\ DOMAIN u # {} /\ AreaOK(g) /\ Within(g, a)
  BY DEF Fits
<1>2. Depth \in 0 .. Depth
  BY Widths
<1>3. AreaOK(a) /\ AreaOK(b)
  BY <1>1, <1>2, InfoOK
<1>4. Within(a, b)
  BY <1>1, AreaGrows
<1>. HIDE DEF a, b
<1>5. Within(g, b)
  BY <1>1, <1>3, <1>4 DEF Within, AreaOK
<1>. QED  BY <1>1, <1>5 DEF Fits, b

LEMMA InfoKept ==
  ASSUME UNCHANGED params
  PROVE  \A g, t : GridFits(g, t)' <=> GridFits(g, t)
BY DEF GridFits, Fits, GridInfo, Within, AreaOK

(* What a published map is made of.                                        *)
LEMMA MapDrawn ==
  ASSUME NEW astray \in BOOLEAN, PublishAll(astray), grid' # grid
  PROVE  LET pre == PreTraversal(tree', box', grid, proj, depth', incremental')
         IN /\ ~NothingToPublish(tree')
            /\ health' = "up" =>
                 grid' = IF pre.proj.complete
                           THEN Projected(pre.proj, pre.grid, tree', depth',
                                          {n \in Leaves(tree', depth') : InMapZ(n)})
                           ELSE pre.grid
<1>. DEFINE shown == {n \in Leaves(tree', depth') : InMapZ(n)}
            pre == PreTraversal(tree', box', grid, proj, depth', incremental')
            bad == pre.proj.complete /\ (astray \/ ~InData(pre.proj, pre.grid, depth', shown))
            drawn == Projected(pre.proj, pre.grid, tree', depth', shown)
<1>1. /\ ~NothingToPublish(tree')
      /\ \/ /\ pre.health # "up" \/ bad
            /\ health' = IF bad THEN "stray" ELSE pre.health
         \/ grid' = IF pre.proj.complete THEN drawn ELSE pre.grid
  BY DEF PublishAll
<1>2. pre.health # "up" \/ bad => (IF bad THEN "stray" ELSE pre.health) # "up"
  OBVIOUS
<1>. HIDE DEF pre, bad, drawn, shown
<1>. QED  BY <1>1, <1>2 DEF pre, drawn, shown

LEMMA PublishedFits ==
  ASSUME params \in Launches, NEW astray \in BOOLEAN, PublishAll(astray),
         TreeOK(tree'), depth' \in 0 .. Depth, GridFits(grid, tree'), health' = "up",
         DOMAIN grid = MapFields
  PROVE  GridFits(grid', tree')
<1>1. CASE grid' = grid
  BY <1>1
<1>2. CASE grid' # grid
  <2>. DEFINE t == tree'
              m == depth'
              pre == PreTraversal(t, box', grid, proj, m, incremental')
              L == {n \in Leaves(t, m) : InMapZ(n)}
  <2>1. /\ ~NothingToPublish(t)
        /\ grid' = IF pre.proj.complete THEN Projected(pre.proj, pre.grid, t, m, L) ELSE pre.grid
    BY <1>2, MapDrawn
  <2>2. DOMAIN t # {}
    BY <2>1 DEF NothingToPublish
  <2>3. GridFits(pre.grid, t) /\ DOMAIN pre.grid = MapFields
    <3>. DEFINE b == box'
                inc == incremental'
    <3>. HIDE DEF t, m, b, inc
    <3>1. TreeOK(t) /\ m \in 0 .. Depth /\ GridFits(grid, t)
      BY DEF t, m
    <3>2. CASE ~HasKeys(t)
      BY <3>1, <3>2 DEF PreTraversal
    <3>3. CASE HasKeys(t)
      <4>. DEFINE q == Resize(t, b, grid, m, inc).grid
      <4>1. GridFits(q, t)
        BY <2>2, <3>1, DrawnFits
      <4>2. q = [x0 |-> q.x0, y0 |-> q.y0, width |-> q.width, height |-> q.height,
                 res |-> q.res, data |-> q.data]
        BY DEF Resize
      <4>3. PreTraversal(t, b, grid, proj, m, inc).grid = q
        BY <3>3 DEF PreTraversal
      <4>. HIDE DEF q
      <4>4. DOMAIN q = MapFields
        BY <4>2 DEF MapFields
      <4>. QED  BY <4>1, <4>3, <4>4 DEF b, inc
    <3>. QED  BY <3>2, <3>3
  <2>. HIDE DEF t, m, pre, L
  <2>5. GridFits(Projected(pre.proj, pre.grid, t, m, L), t)
    BY <2>3, ProjectedFits
  <2>. QED  BY <2>1, <2>3, <2>5 DEF t
<1>. QED  BY <1>1, <1>2

(* The map before a handler fits the tree that the handler made.           *)
LEMMA FitsBefore ==
  ASSUME ServerTypes, GridInv, PublishingHandler
  PROVE  GridFits(grid, tree')
<1>1. UNCHANGED params /\ TreeOK(tree') /\ health \in {"down", "up"}
  BY Handled
<1>2. CASE health = "down"
  BY <1>2 DEF GridInv, GridFits
<1>3. CASE health = "up"
  <2>. DEFINE u == tree'
  <2>1. DOMAIN tree \subseteq DOMAIN u
    BY <1>3, VoxelsStay
  <2>2. TreeOK(u) /\ TreeOK(tree) /\ GridFits(grid, tree) /\ params \in Launches
    BY <1>1, <1>3 DEF ServerTypes, GridInv
  <2>. HIDE DEF u
  <2>3. GridFits(grid, u)
    BY <2>1, <2>2, FitsGrow
  <2>. QED  BY <2>3 DEF u
<1>. QED  BY <1>1, <1>2, <1>3

(* The invariant of the incremental map.                                   *)
LEMMA GridInvKept == ServerTypes /\ GridInv /\ [NodesNext]_nvars => GridInv'
<1>. SUFFICES ASSUME ServerTypes, GridInv, [NodesNext]_nvars PROVE GridInv'
  OBVIOUS
<1>1. ASSUME UNCHANGED <<params, health, tree, grid>> PROVE GridInv'
  <2>1. GridFits(grid, tree)' <=> GridFits(grid', tree')
    BY <1>1, InfoKept
  <2>2. grid' = grid /\ tree' = tree /\ health' = health
    BY <1>1
  <2>3. GridFits(grid', tree') <=> GridFits(grid, tree)
    BY <2>2
  <2>. QED  BY <2>1, <2>2, <2>3 DEF GridInv
<1>2. CASE PublishingHandler /\ \E astray \in BOOLEAN : PublishAll(astray)
  <2>1. PICK astray \in BOOLEAN : PublishAll(astray)
    BY <1>2
  <2>2. /\ UNCHANGED params /\ depth' \in 0 .. Depth /\ TreeOK(tree')
        /\ health \in {"down", "up"} /\ health' # "down"
    BY <1>2, <2>1, Handled, PublishedOrNot
  <2>3. GridFits(grid, tree')
    BY <1>2, FitsBefore
  <2>4. health' = "up" => GridFits(grid', tree')
    BY <2>1, <2>2, <2>3, PublishedFits DEF ServerTypes
  <2>5. GridFits(grid, tree)' <=> GridFits(grid', tree')
    BY <2>2, InfoKept
  <2>. QED  BY <2>2, <2>4, <2>5 DEF GridInv
<1>3. CASE Strayed
  BY <1>3 DEF Strayed, GridInv
<1>4. CASE Reset \/ Stop
  <2>1. DOMAIN grid'.data = {}
    BY <1>4 DEF Reset, Stop, FreshGrid, ClearedGrid
  <2>. QED  BY <2>1 DEF GridInv, GridFits
<1>5. CASE FileStep
  BY <1>1, <1>5 DEF FileStep, SaveMap, SaveStatic
<1>6. CASE UNCHANGED server_vars
  BY <1>1, <1>6 DEF server_vars
<1>7. CASE NodesNext
  BY <1>2, <1>3, <1>4, <1>5, <1>6, <1>7, NodeSteps DEF ServerTypes
<1>. QED  BY <1>6, <1>7 DEF nvars

LEMMA BoxInvKept == ServerTypes /\ BoxInv /\ [NodesNext]_nvars => BoxInv'
<1>. SUFFICES ASSUME ServerTypes, BoxInv, [NodesNext]_nvars PROVE BoxInv'
  OBVIOUS
<1>1. CASE PublishingHandler
  BY <1>1, BoxHandled
<1>2. CASE UNCHANGED box
  BY <1>2 DEF BoxInv
<1>3. CASE Strayed
  <2>1. PICK c \in params.clouds : OnCloud(c)
    BY <1>3 DEF Strayed, OnCloud
  <2>. QED  BY <2>1, BoxHandled DEF PublishingHandler
<1>4. CASE Stop
  BY <1>4, Widths DEF Stop, NoBox, BoxInv
<1>5. CASE Reset \/ FileStep \/ UNCHANGED server_vars
  BY <1>2, <1>5 DEF Reset, FileStep, SaveMap, SaveStatic, server_vars
<1>6. CASE NodesNext
  BY <1>1, <1>3, <1>4, <1>5, <1>6, NodeSteps DEF ServerTypes
<1>. QED  BY <1>5, <1>6 DEF nvars

LEMMA GridInvAlways == NodesSpec => [](ServerTypes /\ GridInv /\ BoxInv)
<1>1. NodesInit => GridInv /\ BoxInv
  BY Widths DEF NodesInit, Init, Off, GridInv, FreshGrid, ClearedGrid, BoxInv, NoBox
<1>. QED  BY <1>1, ServerTypesInit, ServerTypesKept, GridInvKept, BoxInvKept, PTL DEF NodesSpec

(* A cell that a part of the map is filled at lies in the box of the scan. *)
LEMMA FilledInBox ==
  ASSUME NEW b, b.x0 \in Int, b.x1 \in Int, b.y0 \in Int, b.y1 \in Int, NEW info, AreaOK(info),
         NEW i \in 0 .. info.width - 1, NEW j \in 0 .. info.height - 1,
         info.width * j + i \in Filled(b, info)
  PROVE  info.x0 + i \in b.x0 .. b.x1 /\ info.y0 + j \in b.y0 .. b.y1
<1>. DEFINE c == BoxInGrid(b, info)
            w == info.width
            X == info.x0
            Y == info.y0
            H == info.height
<1>1. w \in Nat \ {0} /\ H \in Nat \ {0} /\ X \in Int /\ Y \in Int
  BY DEF AreaOK
<1>2. /\ c.x0 = Max({0, b.x0 - X}) /\ c.x1 = Min({w - 1, b.x1 - X})
      /\ c.y0 = Max({0, b.y0 - Y}) /\ c.y1 = Min({H - 1, b.y1 - Y})
  BY DEF BoxInGrid
<1>3. PICK p \in c.x0 .. c.x1, q \in c.y0 .. c.y1 : w * j + i = w * q + p
  BY DEF Filled
<1>. HIDE DEF c, w, X, Y, H
<1>4. b.x0 - X \in Int /\ b.x1 - X \in Int /\ b.y0 - Y \in Int /\ b.y1 - Y \in Int
      /\ w - 1 \in Int /\ H - 1 \in Int /\ 0 \in Int
  BY <1>1
<1>5. /\ c.x0 = (IF 0 <= b.x0 - X THEN b.x0 - X ELSE 0)
      /\ c.x1 = (IF w - 1 <= b.x1 - X THEN w - 1 ELSE b.x1 - X)
      /\ c.y0 = (IF 0 <= b.y0 - Y THEN b.y0 - Y ELSE 0)
      /\ c.y1 = (IF H - 1 <= b.y1 - Y THEN H - 1 ELSE b.y1 - Y)
  BY <1>2, <1>4, LeastOfTwo
<1>6. /\ p \in 0 .. w - 1 /\ X + p \in b.x0 .. b.x1
      /\ q \in Int /\ Y + q \in b.y0 .. b.y1
  BY <1>1, <1>3, <1>4, <1>5
<1>7. i \in 0 .. w - 1 /\ j \in Int
  BY <1>1 DEF w, H
<1>8. i = p /\ j = q
  <2>1. (w * j + i) % w = i /\ (w * j + i) \div w = j
    BY <1>1, <1>7, Indexed
  <2>2. (w * q + p) % w = p /\ (w * q + p) \div w = q
    BY <1>1, <1>6, Indexed
  <2>. QED  BY <1>3, <2>1, <2>2, Zenon
<1>. QED  BY <1>6, <1>8 DEF X, Y

(* In the incremental mode a scan changes the map inside its box only:     *)
(* what the map knows elsewhere it keeps, at its place, while the map      *)
(* grows around it, for every tree whose area has keys.                    *)
THEOREM IncrementalAlwaysKeepsRest == NodesSpec => IncrementalKeepsRest
<1>. DEFINE Kept(n) == LET x == grid.x0 + (n % grid.width)
                           y == grid.y0 + (n \div grid.width)
                           i == x - grid'.x0
                           j == y - grid'.y0
                       IN InBox(x, y)
                            \/ (/\ i \in 0 .. grid'.width - 1
                                /\ j * grid'.width + i \in DOMAIN grid'.data
                                /\ grid'.data[j * grid'.width + i] = grid.data[n])
            Part == /\ incremental /\ incremental' /\ health = "up" /\ health' = "up"
                    /\ grid.res = grid'.res /\ depth' = Depth /\ HasKeys(tree') /\ grid' # grid
<1>1. ASSUME ServerTypes, GridInv, BoxInv, BoxInv', [NodesNext]_nvars, Part,
             NEW n \in DOMAIN grid.data
      PROVE  Kept(n)
  <2>1. GridFits(grid, tree) /\ grid.res # 0
    BY <1>1 DEF GridInv, GridFits
  <2>2. PublishingHandler /\ \E astray \in BOOLEAN : PublishAll(astray)
    <3>1. ~(UNCHANGED server_vars) /\ ~Stop /\ ~Strayed /\ ~FileStep
      BY <1>1 DEF server_vars, Stop, Strayed, FileStep, SaveMap, SaveStatic
    <3>2. ~Reset
      BY <1>1, <2>1 DEF Reset, ClearedGrid
    <3>. QED  BY <1>1, <3>1, <3>2, NodeSteps DEF ServerTypes, nvars
  <2>3. /\ params \in Launches /\ UNCHANGED params /\ depth' \in 0 .. Depth
        /\ TreeOK(tree') /\ TreeOK(tree) /\ DOMAIN tree \subseteq DOMAIN tree'
    BY <1>1, <2>2, Handled, VoxelsStay DEF ServerTypes
  <2>. DEFINE t == tree'
              b == box'
              inc == incremental'
              h == GridInfo(t, Depth)
              d == Moved(grid, h)
              pre == Resize(t, b, grid, Depth, inc)
              L == {l \in Leaves(t, Depth) : InMapZ(l)}
  <2>4. /\ ~NothingToPublish(t)
        /\ grid' = IF pre.proj.complete THEN Projected(pre.proj, pre.grid, t, Depth, L) ELSE pre.grid
    <3>1. PreTraversal(t, b, grid, proj, Depth, inc) = pre
      BY <1>1 DEF PreTraversal
    <3>2. PICK astray \in BOOLEAN : PublishAll(astray)
      BY <2>2
    <3>. QED  BY <1>1, <3>1, <3>2, MapDrawn
  <2>5. /\ pre.proj.complete \in BOOLEAN
        /\ pre.grid.x0 = h.x0 /\ pre.grid.y0 = h.y0
        /\ pre.grid.width = h.width /\ pre.grid.height = h.height
        /\ pre.grid.res = h.res
        /\ pre.proj.complete => pre.grid = BlankMap(t, Depth)
        /\ pre.proj.complete => ~inc \/ h.res # grid.res \/ Depth < Depth
        /\ ~pre.proj.complete => pre.grid.data = [k \in DOMAIN d |-> IF k \in Filled(b, h) THEN -1 ELSE d[k]]
    <3>1. MapParts(t, b, grid, Depth, inc)
      BY MapHasParts
    <3>. QED  BY <3>1 DEF MapParts
  <2>6. AreaOK(h) /\ h.res = 1 /\ DOMAIN t # {} /\ Depth \in 0 .. Depth
    <3>1. DOMAIN t # {} /\ Depth \in 0 .. Depth
      <4>1. DOMAIN t # {}
        BY <2>4 DEF NothingToPublish
      <4>2. Depth \in 0 .. Depth
        BY Widths
      <4>. QED  BY <4>1, <4>2
    <3>2. TreeOK(t) /\ params \in Launches
      BY <2>3
    <3>. HIDE DEF t
    <3>. QED  BY <3>1, <3>2, InfoOK, Widths DEF h
  <2>7. grid'.res = h.res
    <3>1. pre.proj.complete => Projected(pre.proj, pre.grid, t, Depth, L).res = pre.grid.res
      <4>1. BlankMap(t, Depth).res = h.res
        BY DEF BlankMap
      <4>2. Projected(pre.proj, BlankMap(t, Depth), t, Depth, L).res = BlankMap(t, Depth).res
        BY DEF Projected, BlankMap
      <4>. HIDE DEF pre, t, L, h
      <4>. QED  BY <2>5, <4>2
    <3>. HIDE DEF pre, t, L, h
    <3>. QED  BY <2>4, <2>5, <3>1
  <2>8. /\ grid' = pre.grid
        /\ grid'.x0 = h.x0 /\ grid'.y0 = h.y0 /\ grid'.width = h.width /\ grid'.height = h.height
        /\ grid'.data = [k \in DOMAIN d |-> IF k \in Filled(b, h) THEN -1 ELSE d[k]]
    <3>1. inc /\ h.res = grid.res /\ ~(Depth < Depth)
      BY <1>1, <2>7, Widths
    <3>. HIDE DEF pre, t, L, h, b, inc, d
    <3>. QED  BY <2>4, <2>5, <3>1
  <2>9. /\ AreaOK(grid) /\ Within(grid, h)
        /\ DOMAIN grid.data = 0 .. grid.width * grid.height - 1
    <3>1. Fits(grid, tree)
      BY <1>1, <2>1, <2>6, <2>7 DEF GridFits
    <3>2. DOMAIN tree # {} /\ GridFits(grid, tree)
      BY <2>1, <3>1 DEF Fits
    <3>3. TreeOK(t) /\ TreeOK(tree) /\ params \in Launches /\ DOMAIN tree \subseteq DOMAIN t
      BY <2>3
    <3>4. grid.res = 1 /\ DOMAIN grid.data # {}
      BY <1>1, <2>6, <2>7
    <3>. HIDE DEF t
    <3>5. GridFits(grid, t)
      BY <3>2, <3>3, FitsGrow
    <3>. QED  BY <3>4, <3>5 DEF GridFits, Fits, h
  <2>. DEFINE i == (grid.x0 + (n % grid.width)) - h.x0
              j == (grid.y0 + (n \div grid.width)) - h.y0
              c == h.width * j + i
  <2>10. /\ i \in 0 .. h.width - 1 /\ j \in 0 .. h.height - 1
         /\ c \in DOMAIN d /\ d[c] = grid.data[n]
    <3>1. n \in DOMAIN grid.data
      BY <1>1
    <3>. DEFINE g == grid
    <3>2. /\ AreaOK(g) /\ AreaOK(h) /\ Within(g, h)
          /\ DOMAIN g.data = 0 .. g.width * g.height - 1
      BY <2>6, <2>9
    <3>. HIDE DEF h, g
    <3>3. \A k \in DOMAIN g.data :
            LET a == (g.x0 + (k % g.width)) - h.x0
                e == (g.y0 + (k \div g.width)) - h.y0
            IN /\ a \in 0 .. h.width - 1 /\ e \in 0 .. h.height - 1
               /\ h.width * e + a \in DOMAIN Moved(g, h)
               /\ Moved(g, h)[h.width * e + a] = g.data[k]
      BY <3>2, MovedKeeps
    <3>. QED  BY <3>1, <3>3 DEF d, g
  <2>11. j * h.width + i = c
    <3>1. h.width \in Int /\ i \in Int /\ j \in Int
      BY <2>6, <2>10 DEF AreaOK
    <3>. HIDE DEF i, j, h
    <3>. QED  BY <3>1
  <2>12. /\ grid.x0 + (n % grid.width) = h.x0 + i
         /\ grid.y0 + (n \div grid.width) = h.y0 + j
    <3>. DEFINE p == n % grid.width
                q == n \div grid.width
    <3>1. p \in Int /\ q \in Int
      <4>1. n \in 0 .. grid.width * grid.height - 1 /\ grid.width \in Nat \ {0} /\ grid.height \in Nat \ {0}
        BY <2>9 DEF AreaOK
      <4>2. n \in Int
        BY <4>1
      <4>3. n % grid.width \in 0 .. grid.width - 1 /\ n \div grid.width \in Int
        BY <4>1, <4>2, Indexed
      <4>. HIDE DEF q
      <4>. QED  BY <4>1, <4>3 DEF q
    <3>2. grid.x0 \in Int /\ grid.y0 \in Int /\ h.x0 \in Int /\ h.y0 \in Int
      BY <2>6, <2>9 DEF AreaOK
    <3>. HIDE DEF p, q, h
    <3>. QED  BY <3>1, <3>2 DEF p, q
  <2>13. CASE c \in Filled(b, h)
    <3>1. h.x0 + i \in b.x0 .. b.x1 /\ h.y0 + j \in b.y0 .. b.y1
      <4>1. b.x0 \in Int /\ b.x1 \in Int /\ b.y0 \in Int /\ b.y1 \in Int
        BY <1>1 DEF BoxInv
      <4>2. i \in 0 .. h.width - 1 /\ j \in 0 .. h.height - 1 /\ h.width * j + i \in Filled(b, h)
        BY <2>10, <2>13
      <4>. HIDE DEF i, j, h, b
      <4>. QED  BY <2>6, <4>1, <4>2, FilledInBox
    <3>. QED  BY <2>12, <3>1 DEF InBox
  <2>14. CASE c \notin Filled(b, h)
    <3>1. c \in DOMAIN grid'.data /\ grid'.data[c] = grid.data[n]
      <4>. HIDE DEF c, d, h, b
      <4>. QED  BY <2>8, <2>10, <2>14
    <3>2. i \in 0 .. grid'.width - 1 /\ j * grid'.width + i = c /\ grid'.x0 = h.x0 /\ grid'.y0 = h.y0
      <4>. HIDE DEF c, d, h, b, i, j
      <4>. QED  BY <2>8, <2>10, <2>11
    <3>. QED  BY <3>1, <3>2
  <2>. QED  BY <2>13, <2>14
<1>2. ServerTypes /\ GridInv /\ BoxInv /\ BoxInv' /\ [NodesNext]_nvars
        => [Part => \A n \in DOMAIN grid.data : Kept(n)]_nvars
  BY <1>1
<1>. QED  BY <1>2, GridInvAlways, PTL DEF NodesSpec, IncrementalKeepsRest
------------------------------------------------------------------------------
(* No handler strays.  A map without data has no area yet, and lies at the *)
(* origin.                                                                 *)
Unstarted(g) == g.x0 = Zero /\ g.y0 = Zero /\ g.width = 0 /\ g.height = 0
FreshInv == health \in {"down", "up"} /\ DOMAIN grid.data = {} => Unstarted(grid)

(* The area of every tree reaches around the origin.                       *)
LEMMA AroundOrigin ==
  ASSUME params \in Launches, NEW S, S \subseteq 0 .. Side - 1, S # {}
  PROVE  First(S, 1) <= Zero /\ Zero <= Last(S, 1)
<1>1. Zero \in Nat /\ params.half \in Nat
  BY Widths, LaunchAssumption
<1>2. /\ Min(S) \in Int /\ Max(S) \in Int
      /\ First(S, 1) = IF Min(S) <= Zero - params.half THEN Min(S) ELSE Zero - params.half
      /\ Last(S, 1) = IF Max(S) + 1 <= Zero + params.half THEN Zero + params.half
                      ELSE Max(S) + 1
  BY SpanIs
<1>. QED  BY <1>1, <1>2

(* A map that keeps its cells has the whole area when it grows.            *)
LEMMA FullArea ==
  ASSUME params \in Launches, NEW t, TreeOK(t), DOMAIN t # {},
         NEW g, GridFits(g, t), g.res = 1, DOMAIN g.data = {} => Unstarted(g),
         NEW info, info = GridInfo(t, Depth)
  PROVE  /\ AreaOK(info)
         /\ DOMAIN Moved(g, info) = 0 .. info.width * info.height - 1
<1>1. AreaOK(info)
  BY InfoOK, Widths
<1>2. CASE DOMAIN g.data # {}
  BY <1>1, <1>2, MovedKeeps DEF GridFits, Fits
<1>3. CASE DOMAIN g.data = {}
  <2>. DEFINE X == First(Xs(t), 1)
              Y == First(Ys(t), 1)
              U == Last(Xs(t), 1)
              V == Last(Ys(t), 1)
  <2>1. /\ X \in Int /\ Y \in Int /\ U \in Int /\ V \in Int
        /\ info.x0 = X /\ info.y0 = Y
        /\ info.width = (U - X) + 1 /\ info.height = (V - Y) + 1
    BY AreaIs
  <2>2. X <= Zero /\ Zero <= U /\ Y <= Zero /\ Zero <= V /\ Zero \in Int
    BY AreaIs, AroundOrigin, Widths
  <2>. HIDE DEF X, Y, U, V
  <2>3. g.x0 = Zero /\ g.y0 = Zero /\ g.width = 0 /\ g.height = 0
    BY <1>3 DEF Unstarted
  <2>4. Offset(g.x0, info.x0) = Zero - X /\ Offset(g.y0, info.y0) = Zero - Y
    BY <2>1, <2>2, <2>3 DEF Offset
  <2>5. ~(Zero - X < 0 \/ Zero - Y < 0 \/ 0 + (Zero - X) > info.width \/ 0 + (Zero - Y) > info.height)
    BY <2>1, <2>2
  <2>6. ~SameArea(g, info)
    BY <1>1, <2>3 DEF SameArea, AreaOK
  <2>7. DOMAIN Adjusted(g, info) = DOMAIN Blank(info.width, info.height)
    BY <2>3, <2>4, <2>5 DEF Adjusted
  <2>. QED  BY <1>1, <2>6, <2>7 DEF Moved, Blank
<1>. QED  BY <1>1, <1>2, <1>3

(* A map that is drawn anew, or grows, is not empty.                       *)
LEMMA FreshInvKept ==
  ServerTypes /\ GridInv /\ FreshInv /\ [NodesNext]_nvars => FreshInv'
<1>. SUFFICES ASSUME ServerTypes, GridInv, FreshInv, [NodesNext]_nvars PROVE FreshInv'
  OBVIOUS
<1>1. CASE UNCHANGED <<health, grid>>
  BY <1>1 DEF FreshInv, Unstarted
<1>2. ASSUME PublishingHandler, NEW astray \in BOOLEAN, PublishAll(astray) PROVE FreshInv'
  <2>. SUFFICES ASSUME health' = "up", DOMAIN grid'.data = {} PROVE Unstarted(grid')
    BY <1>2, PublishedOrNot DEF FreshInv, Unstarted
  <2>1. /\ health \in {"down", "up"} /\ params \in Launches /\ DOMAIN grid = MapFields
        /\ TreeOK(tree') /\ depth' \in 0 .. Depth /\ GridFits(grid, tree')
    BY <1>2, Handled, FitsBefore DEF ServerTypes
  <2>2. CASE grid' = grid
    BY <2>1, <2>2 DEF FreshInv
  <2>3. CASE grid' # grid
    <3>. DEFINE t == tree'
                m == depth'
                inc == incremental'
                b == box'
                pre == PreTraversal(t, b, grid, proj, m, inc)
                L == {n \in Leaves(t, m) : InMapZ(n)}
    <3>1. /\ ~NothingToPublish(t)
          /\ grid' = IF pre.proj.complete THEN Projected(pre.proj, pre.grid, t, m, L) ELSE pre.grid
      BY <1>2, <2>3, MapDrawn
    <3>2. DOMAIN t # {}
      BY <3>1 DEF NothingToPublish
    <3>3. CASE HasKeys(t)
      <4>. DEFINE info == GridInfo(t, m)
                  q == Resize(t, b, grid, m, inc)
      <4>1. pre = q
        BY <3>3 DEF PreTraversal
      <4>2. /\ q.proj.complete \in BOOLEAN
            /\ ~q.proj.complete => info.res = grid.res /\ ~(m < Depth)
            /\ q.proj.complete => q.grid = BlankMap(t, m)
            /\ ~q.proj.complete => DOMAIN q.grid.data = DOMAIN Moved(grid, info)
        <5>1. MapParts(t, b, grid, m, inc)
          BY MapHasParts
        <5>. QED  BY <5>1 DEF MapParts
      <4>. HIDE DEF t, inc, b, L, q, pre
      <4>3. AreaOK(info)
        <5>1. params \in Launches /\ TreeOK(t) /\ DOMAIN t # {} /\ m \in 0 .. Depth
          BY <2>1, <3>2 DEF t
        <5>. HIDE DEF m
        <5>. QED  BY <5>1, InfoOK
      <4>4. 0 \in 0 .. info.width * info.height - 1
        <5>. DEFINE w == info.width
                    h == info.height
        <5>1. w \in Nat \ {0} /\ h \in Nat \ {0} /\ 0 \in 0 .. w - 1 /\ 0 \in 0 .. h - 1
          BY <4>3 DEF AreaOK
        <5>. HIDE DEF w, h
        <5>2. (w * 0 + 0) \in 0 .. w * h - 1 /\ w * 0 + 0 = 0
          BY <5>1, CellInArea
        <5>. QED  BY <5>2 DEF w, h
      <4>5. CASE q.proj.complete
        <5>1. DOMAIN grid'.data = DOMAIN BlankMap(t, m).data
          <6>1. grid' = Projected(pre.proj, BlankMap(t, m), t, m, L)
            BY <3>1, <4>1, <4>2, <4>5
          <6>. QED  BY <6>1 DEF Projected, BlankMap
        <5>2. DOMAIN BlankMap(t, m).data = 0 .. info.width * info.height - 1
          BY DEF BlankMap, Blank
        <5>. QED  BY <4>4, <5>1, <5>2
      <4>6. CASE ~q.proj.complete
        <5>1. grid' = q.grid /\ DOMAIN grid'.data = DOMAIN Moved(grid, info)
          BY <3>1, <4>1, <4>2, <4>6
        <5>2. m = Depth /\ grid.res = 1
          <6>1. m = Depth
            BY <2>1, <4>2, <4>6, Widths
          <6>2. info.res = WidthAt(m)
            BY DEF GridInfo
          <6>. QED  BY <4>2, <4>6, <6>1, <6>2, Widths
        <5>3. DOMAIN Moved(grid, info) = 0 .. info.width * info.height - 1
          <6>1. TreeOK(t) /\ GridFits(grid, t) /\ (DOMAIN grid.data = {} => Unstarted(grid))
            BY <2>1 DEF t, FreshInv
          <6>. HIDE DEF m
          <6>. QED  BY <2>1, <3>2, <5>2, <6>1, FullArea
        <5>. QED  BY <4>4, <5>1, <5>3
      <4>. QED  BY <4>2, <4>5, <4>6
    <3>4. CASE ~HasKeys(t)
      <4>1. pre.grid = grid
        BY <3>4 DEF PreTraversal
      <4>. HIDE DEF t, m, pre, L
      <4>2. grid' = Projected(pre.proj, grid, t, m, L)
        BY <2>3, <3>1, <4>1
      <4>3. /\ DOMAIN grid'.data = DOMAIN grid.data
            /\ grid'.x0 = grid.x0 /\ grid'.y0 = grid.y0
            /\ grid'.width = grid.width /\ grid'.height = grid.height
        BY <2>1, <4>2 DEF Projected, MapFields
      <4>. QED  BY <2>1, <4>3 DEF FreshInv, Unstarted
    <3>. QED  BY <3>3, <3>4
  <2>. QED  BY <2>2, <2>3
<1>3. CASE Strayed
  BY <1>3 DEF Strayed, FreshInv
<1>4. CASE Reset \/ Stop
  BY <1>4 DEF Reset, Stop, FreshGrid, ClearedGrid, FreshInv, Unstarted
<1>5. CASE FileStep
  BY <1>1, <1>5 DEF FileStep, SaveMap, SaveStatic
<1>6. CASE UNCHANGED server_vars
  BY <1>1, <1>6 DEF server_vars
<1>7. CASE NodesNext
  BY <1>2, <1>3, <1>4, <1>5, <1>6, <1>7, NodeSteps DEF ServerTypes
<1>. QED  BY <1>6, <1>7 DEF nvars

(* A box that covers two columns and two rows is as the code asserts, and  *)
(* is filled within the area.                                              *)
LEMMA FilledInside ==
  ASSUME NEW b, b.x0 \in Int, b.x1 \in Int, b.y0 \in Int, b.y1 \in Int, NEW info, AreaOK(info),
         NEW c, c = BoxInGrid(b, info), c.x0 < c.x1, c.y0 < c.y1
  PROVE  /\ AssertedBox(c) /\ ~Huge(c.x1) /\ ~Huge(c.y1)
         /\ Filled(b, info) \subseteq 0 .. info.width * info.height - 1
<1>. DEFINE w == info.width
            h == info.height
            X == info.x0
            Y == info.y0
<1>1. w \in Nat \ {0} /\ h \in Nat \ {0} /\ X \in Int /\ Y \in Int
  BY DEF AreaOK
<1>2. /\ c.x0 = Max({0, b.x0 - X}) /\ c.x1 = Min({w - 1, b.x1 - X})
      /\ c.y0 = Max({0, b.y0 - Y}) /\ c.y1 = Min({h - 1, b.y1 - Y})
  BY DEF BoxInGrid
<1>. HIDE DEF w, h, X, Y
<1>3. b.x0 - X \in Int /\ b.x1 - X \in Int /\ b.y0 - Y \in Int /\ b.y1 - Y \in Int
      /\ w - 1 \in Int /\ h - 1 \in Int /\ 0 \in Int
  BY <1>1
<1>4. /\ c.x0 = (IF 0 <= b.x0 - X THEN b.x0 - X ELSE 0)
      /\ c.x1 = (IF w - 1 <= b.x1 - X THEN w - 1 ELSE b.x1 - X)
      /\ c.y0 = (IF 0 <= b.y0 - Y THEN b.y0 - Y ELSE 0)
      /\ c.y1 = (IF h - 1 <= b.y1 - Y THEN h - 1 ELSE b.y1 - Y)
  BY <1>2, <1>3, LeastOfTwo
<1>5. /\ c.x0 \in Nat /\ c.x1 \in Nat /\ c.x1 <= w - 1
      /\ c.y0 \in Nat /\ c.y1 \in Nat /\ c.y1 <= h - 1
  BY <1>1, <1>3, <1>4
<1>6. AssertedBox(c) /\ ~Huge(c.x1) /\ ~Huge(c.y1)
  BY <1>5 DEF AssertedBox, Huge
<1>7. ASSUME NEW i \in c.x0 .. c.x1, NEW j \in c.y0 .. c.y1
      PROVE  w * j + i \in 0 .. w * h - 1
  <2>1. i \in 0 .. w - 1 /\ j \in 0 .. h - 1
    BY <1>1, <1>5
  <2>. QED  BY <1>1, <2>1, CellInArea
<1>8. Filled(b, info) = {w * j + i : i \in c.x0 .. c.x1, j \in c.y0 .. c.y1}
  BY DEF Filled, w
<1>. QED  BY <1>6, <1>7, <1>8 DEF w, h

(* So an incremental map that grows is filled within its data.             *)
LEMMA GrownStaysUp ==
  ASSUME params \in Launches, NEW t, TreeOK(t), DOMAIN t # {},
         NEW g, GridFits(g, t), DOMAIN g.data = {} => Unstarted(g),
         NEW inc, ~Whole(t, g, Depth, inc),
         NEW b, b.x0 \in Int, b.x1 \in Int, b.y0 \in Int, b.y1 \in Int,
         NEW c, c = BoxInGrid(b, GridInfo(t, Depth)), c.x0 < c.x1, c.y0 < c.y1
  PROVE  Resize(t, b, g, Depth, inc).health = "up"
<1>. DEFINE info == GridInfo(t, Depth)
            data == Moved(g, info)
<1>1. info.res = 1 /\ g.res = 1
  <2>1. info.res = WidthAt(Depth)
    BY DEF GridInfo
  <2>. QED  BY <2>1, Widths DEF Whole
<1>2. AreaOK(info) /\ DOMAIN data = 0 .. info.width * info.height - 1
  BY <1>1, FullArea
<1>3. AssertedBox(c) /\ ~Huge(c.x1) /\ ~Huge(c.y1) /\ Filled(b, info) \subseteq DOMAIN data
  <2>. HIDE DEF info, data
  <2>1. c = BoxInGrid(b, info)
    BY DEF info
  <2>. QED  BY <1>2, <2>1, FilledInside
<1>4. Filled(b, info) = {info.width * j + i : i \in c.x0 .. c.x1, j \in c.y0 .. c.y1}
  BY DEF Filled
<1>. QED  BY <1>3, <1>4 DEF Resize, Moved

(* A map that is drawn as a whole is drawn within its data.                *)
LEMMA PublishingStaysUp ==
  ASSUME ServerTypes, GridInv, BoxInv, FreshInv, PublishingHandler,
         CellsHoldLeaves', HasKeys(tree)', (incremental /\ depth = Depth => BoxCoversCells)',
         NEW astray \in BOOLEAN, PublishAll(astray),
         ~NothingToPublish(tree') /\ ProjectsMap /\ Whole(tree', grid, depth', incremental')
           => ~astray
  PROVE  health' = "up"
<1>1. /\ UNCHANGED params /\ params \in Launches /\ TreeOK(tree') /\ depth' \in 0 .. Depth
      /\ GridFits(grid, tree') /\ BoxInv' /\ health \in {"down", "up"}
  BY Handled, FitsBefore, BoxHandled DEF ServerTypes
<1>2. HasKeys(tree')
  BY <1>1 DEF HasKeys
<1>3. CASE NothingToPublish(tree') \/ ~ProjectsMap
  BY <1>3 DEF PublishAll
<1>4. CASE ~NothingToPublish(tree') /\ ProjectsMap
  <2>. DEFINE t == tree'
              m == depth'
              b == box'
              inc == incremental'
              pre == PreTraversal(t, b, grid, proj, m, inc)
              shown == {n \in Leaves(t, m) : InMapZ(n)}
              bad == pre.proj.complete /\ (astray \/ ~InData(pre.proj, pre.grid, m, shown))
  <2>1. /\ pre.health = "up" /\ ~bad => health' = "up"
        /\ ~bad /\ ~pre.proj.complete => grid' = pre.grid
    BY <1>4 DEF PublishAll
  <2>2. CASE Whole(t, grid, m, inc)
    <3>1. /\ pre.grid = BlankMap(t, m) /\ pre.proj = Own(BlankMap(t, m), m)
          /\ pre.health = "up"
      BY <1>2, <2>2, WholeMap
    <3>2. m = Depth \/ \A n \in Leaves(t, Depth) : n.depth >= m
      BY DEF CellsHoldLeaves, LeavesInCells
    <3>3. params \in Launches /\ TreeOK(t) /\ m \in 0 .. Depth
      BY <1>1
    <3>4. ~astray
      BY <1>4, <2>2
    <3>. HIDE DEF t, m, pre, inc, b
    <3>5. \A n \in shown : CellsIn(BlankMap(t, m), n, m) \subseteq DOMAIN BlankMap(t, m).data
      <4>1. \A n \in shown : n \in Leaves(t, m)
        OBVIOUS
      <4>. HIDE DEF shown
      <4>. QED  BY <3>2, <3>3, <4>1, LeavesInMap
    <3>6. InData(pre.proj, pre.grid, m, shown)
      BY <3>1, <3>5 DEF InData, CellsIn
    <3>. QED  BY <2>1, <3>1, <3>4, <3>6
  <2>3. CASE ~Whole(t, grid, m, inc)
    <3>. DEFINE info == GridInfo(t, Depth)
                c == BoxInGrid(b, info)
    <3>1. inc /\ m = Depth
      BY <1>1, <2>3, Widths DEF Whole
    <3>2. pre = Resize(t, b, grid, Depth, inc)
      BY <1>2, <3>1 DEF PreTraversal
    <3>3. /\ ~pre.proj.complete
          /\ pre.grid.x0 = info.x0 /\ pre.grid.y0 = info.y0
          /\ pre.grid.width = info.width /\ pre.grid.height = info.height
      <4>1. MapParts(t, b, grid, Depth, inc)
        BY MapHasParts
      <4>. QED  BY <2>3, <3>1, <3>2, <4>1 DEF MapParts, Whole
    <3>4. grid' = pre.grid
      BY <2>1, <3>3
    <3>5. c = BoxInGrid(b, grid') /\ c.x0 < c.x1 /\ c.y0 < c.y1
      <4>1. BoxCoversCells'
        BY <3>1
      <4>2. BoxInGrid(b, grid').x0 < BoxInGrid(b, grid').x1 /\ BoxInGrid(b, grid').y0 < BoxInGrid(b, grid').y1
        BY <4>1 DEF BoxCoversCells
      <4>3. BoxInGrid(b, grid') = c
        BY <3>3, <3>4 DEF BoxInGrid
      <4>. QED  BY <4>2, <4>3
    <3>6. DOMAIN t # {}
      BY <1>4 DEF NothingToPublish
    <3>7. b.x0 \in Int /\ b.x1 \in Int /\ b.y0 \in Int /\ b.y1 \in Int
      BY <1>1 DEF BoxInv
    <3>8. params \in Launches /\ TreeOK(t) /\ GridFits(grid, t) /\ (DOMAIN grid.data = {} => Unstarted(grid))
      BY <1>1 DEF FreshInv
    <3>9. ~Whole(t, grid, Depth, inc)
      BY <2>3, <3>1
    <3>10. Resize(t, b, grid, Depth, inc).health = "up"
      <4>. HIDE DEF t, b, inc, pre
      <4>. QED  BY <3>5, <3>6, <3>7, <3>8, <3>9, GrownStaysUp
    <3>. QED  BY <2>1, <3>2, <3>3, <3>10
  <2>. QED  BY <2>2, <2>3
<1>. QED  BY <1>3, <1>4

(* The multilayer server knows the transforms of the arms.                 *)
ArmsKnown == params.class = "multilayer" => ArmHeights # {}

LEMMA LayersInMap ==
  ASSUME ServerTypes, GridInv, BoxInv, FreshInv, PublishingHandler, ArmsKnown,
         CellsHoldLeaves', HasKeys(tree)', (incremental /\ depth = Depth => BoxCoversCells)',
         params.class = "multilayer", ProjectLayers
  PROVE  health' = "up"
<1>. DEFINE t == tree'
            m == depth'
            pre == PreTraversal(t, box', grid, proj, m, incremental')
<1>1. CASE NothingToPublish(tree')
  <2>1. PublishAll(FALSE)
    BY <1>1 DEF ProjectLayers
  <2>. QED  BY <1>1, <2>1, PublishingStaysUp
<1>2. CASE ~NothingToPublish(tree')
  <2>1. PICK ready \in LayersReady(pre.grid, pre.proj.complete) :
           PublishAll(\E l \in DOMAIN ready : LayerAstray(pre.proj, pre.grid, tree', depth', ready[l]))
    BY <1>2 DEF ProjectLayers
  <2>. DEFINE astray == \E l \in DOMAIN ready : LayerAstray(pre.proj, pre.grid, tree', depth', ready[l])
  <2>2. astray \in BOOLEAN
    OBVIOUS
  <2>3. ASSUME Whole(tree', grid, depth', incremental') PROVE ~astray
    <3>1. params \in Launches /\ ArmHeights # {} /\ TreeOK(t) /\ m \in 0 .. Depth
      BY Handled DEF ArmsKnown, ServerTypes
    <3>2. HasKeys(tree')
      BY Handled DEF HasKeys
    <3>3. pre.grid = BlankMap(t, m) /\ pre.proj = Own(BlankMap(t, m), m) /\ pre.proj.complete
      BY <2>3, <3>2, WholeMap
    <3>4. m = Depth \/ \A n \in Leaves(t, Depth) : n.depth >= m
      BY DEF CellsHoldLeaves, LeavesInCells
    <3>5. ASSUME NEW l \in DOMAIN ready PROVE ~LayerAstray(pre.proj, pre.grid, t, m, ready[l])
      <4>1. ready[l].grid = Resized(layers[l], grid, pre.grid, pre.proj.complete)
        BY <2>1, <3>1, <3>5 DEF LayersReady
      <4>2. ready[l].grid = BlankMap(t, m)
        BY <3>3, <4>1 DEF Resized, BlankMap
      <4>. DEFINE r == ready[l]
      <4>3. r.grid = BlankMap(t, m)
        BY <4>2
      <4>. HIDE DEF t, m, r, pre
      <4>4. \A n \in LayerLeaves(t, m, r) : n \in Leaves(t, m)
        BY DEF LayerLeaves
      <4>5. \A n \in LayerLeaves(t, m, r) : CellsIn(BlankMap(t, m), n, m) \subseteq DOMAIN r.grid.data
        BY <3>1, <3>4, <4>3, <4>4, LeavesInMap
      <4>6. ~LayerAstray(pre.proj, pre.grid, t, m, r)
        BY <3>3, <4>5 DEF LayerAstray, CellsIn
      <4>. QED  BY <4>6 DEF r
    <3>. QED  BY <3>5
  <2>4. PublishAll(astray)
    BY <2>1
  <2>. HIDE DEF astray
  <2>. QED  BY <2>2, <2>3, <2>4, PublishingStaysUp
<1>. QED  BY <1>1, <1>2

LEMMA StaysUpKept ==
  ServerTypes /\ GridInv /\ BoxInv /\ FreshInv /\ QuietInv /\ (ArmsKnown => StaysUp)
      /\ [NodesNext]_nvars
    => (ArmsKnown => StaysUp)'
<1>0. UNCHANGED params \/ ~[NodesNext]_nvars
  BY FileKept DEF nvars, server_vars
<1>. SUFFICES ASSUME ServerTypes, GridInv, BoxInv, FreshInv, QuietInv, ArmsKnown, StaysUp,
                     [NodesNext]_nvars, UNCHANGED params
              PROVE  StaysUp'
  BY <1>0 DEF ArmsKnown
<1>1. CASE UNCHANGED <<health, tree, box, grid, depth, incremental>>
  BY <1>1 DEF StaysUp, CellsHoldLeaves, LeavesInCells, HasKeys, BoxCoversCells
<1>2. CASE FileStep \/ UNCHANGED server_vars
  BY <1>1, <1>2 DEF FileStep, SaveMap, SaveStatic, server_vars
<1>3. CASE Reset \/ Stop
  BY <1>3 DEF Reset, Stop, StaysUp
<1>4. ASSUME Strayed PROVE StaysUp'
  <2>. SUFFICES ASSUME params.minChange = 0 PROVE FALSE
    BY <1>4 DEF Strayed, StaysUp
  <2>1. DOMAIN tree \subseteq DOMAIN tree'
    BY <1>4, UpdatedDomain DEF Strayed
  <2>. QED  BY <1>4, <2>1, QuietChanges DEF Strayed, QuietInv
<1>5. ASSUME PublishingHandler, NEW astray \in BOOLEAN, PublishAll(astray),
             params.class = "plain" => PublishAll(FALSE),
             params.class = "tracking" => PublishAll(FALSE),
             params.class = "multilayer" => ProjectLayers,
             params.class \in {"plain", "tracking", "multilayer"}
      PROVE  StaysUp'
  <2>. SUFFICES ASSUME CellsHoldLeaves', HasKeys(tree)',
                       (incremental /\ depth = Depth => BoxCoversCells)'
                PROVE  health' = "up"
    BY DEF StaysUp
  <2>1. CASE params.class = "multilayer"
    BY <1>5, <2>1, LayersInMap
  <2>2. CASE params.class # "multilayer"
    <3>1. PublishAll(FALSE) /\ FALSE \in BOOLEAN
      BY <1>5, <2>2
    <3>. QED  BY <1>5, <3>1, PublishingStaysUp
  <2>. QED  BY <2>1, <2>2
<1>6. CASE NodesNext
  <2>1. incremental \in {params.incremental, FALSE}
    BY DEF ServerTypes
  <2>. QED  BY <1>2, <1>3, <1>4, <1>5, <1>6, <2>1, NodeSteps
<1>. QED  BY <1>2, <1>6 DEF nvars

(* With the transforms of the arms where they are needed, no handler fails *)
(* an assertion and no leaf is written outside of a map, whatever the area *)
(* of the tree and of the launch, in either mode: for a server that tells  *)
(* every change, a tree whose area has keys, a map whose cells hold the    *)
(* leaves or are voxels and, in the incremental mode, boxes of at least    *)
(* two columns and two rows.                                               *)
THEOREM NodesStayUp == NodesSpec => [](ArmsKnown => StaysUp)
<1>1. NodesInit => GridInv /\ BoxInv /\ FreshInv /\ StaysUp /\ QuietInv
  BY Widths DEF NodesInit, Init, Off, TrackingInit, StaysUp, QuietInv, GridInv, FreshGrid,
                ClearedGrid, BoxInv, NoBox, FreshInv, Unstarted
<1>2. ServerTypes /\ GridInv /\ BoxInv /\ FreshInv /\ QuietInv /\ (ArmsKnown => StaysUp)
          /\ [NodesNext]_nvars
        => (ServerTypes /\ GridInv /\ BoxInv /\ FreshInv /\ QuietInv /\ (ArmsKnown => StaysUp))'
  BY ServerTypesKept, GridInvKept, BoxInvKept, FreshInvKept, QuietInvKept, StaysUpKept
<1>. QED  BY <1>1, <1>2, ServerTypesInit, PTL DEF NodesSpec
------------------------------------------------------------------------------
(* A power of two divides the higher ones.                                 *)
LEMMA PowerDoubles ==
  ASSUME NEW n \in Nat
  PROVE  2 ^ (n + 1) = 2 * 2 ^ n
<1>. DEFINE S == SUBSET (1 .. n)
            T == {a \cup {n + 1} : a \in S}
            add == [a \in S |-> a \cup {n + 1}]
<1>1. /\ IsFiniteSet(S) /\ Cardinality(S) = 2 ^ n /\ 2 ^ n \in Nat
      /\ IsFiniteSet(SUBSET (1 .. n + 1)) /\ Cardinality(SUBSET (1 .. n + 1)) = 2 ^ (n + 1)
  <2>1. \A m \in Nat : IsFiniteSet(1 .. m) /\ Cardinality(1 .. m) = m
    <3>1. ASSUME NEW m \in Nat PROVE IsFiniteSet(1 .. m) /\ Cardinality(1 .. m) = m
      <4>1. 1 \in Int /\ m \in Int
        OBVIOUS
      <4>. QED  BY <4>1, FS_Interval
    <3>. QED  BY <3>1
  <2>2. n + 1 \in Nat
    OBVIOUS
  <2>3. IsFiniteSet(1 .. n) /\ Cardinality(1 .. n) = n
    BY <2>1
  <2>4. IsFiniteSet(1 .. n + 1) /\ Cardinality(1 .. n + 1) = n + 1
    BY <2>1, <2>2
  <2>5. 2 ^ n \in Nat
    BY PowerType
  <2>. QED  BY <2>3, <2>4, <2>5, FS_SUBSET
<1>2. add \in Bijection(S, T)
  <2>1. add \in [S -> T] /\ \A b \in T : \E a \in S : add[a] = b
    OBVIOUS
  <2>2. ASSUME NEW a \in S, NEW b \in S, add[a] = add[b] PROVE a = b
    <3>1. n + 1 \notin a /\ n + 1 \notin b
      OBVIOUS
    <3>. QED  BY <2>2, <3>1
  <2>. HIDE DEF add, T, S
  <2>. QED  BY <2>1, <2>2 DEF Bijection, Injection, Surjection, IsInjective
<1>3. IsFiniteSet(T) /\ Cardinality(T) = 2 ^ n
  <2>1. ExistsBijection(S, T)
    BY <1>2 DEF ExistsBijection
  <2>. QED  BY <1>1, <2>1, FS_Bijection
<1>4. S \cup T = SUBSET (1 .. n + 1)
  <2>1. S \cup T \subseteq SUBSET (1 .. n + 1)
    <3>1. 1 .. n \subseteq 1 .. n + 1 /\ n + 1 \in 1 .. n + 1
      OBVIOUS
    <3>2. \A a \in S : a \subseteq 1 .. n + 1 /\ a \cup {n + 1} \subseteq 1 .. n + 1
      BY <3>1
    <3>. QED  BY <3>2
  <2>2. ASSUME NEW a \in SUBSET (1 .. n + 1) PROVE a \in S \cup T
    <3>1. CASE n + 1 \in a
      <4>1. a \ {n + 1} \in S /\ a = (a \ {n + 1}) \cup {n + 1}
        BY <3>1
      <4>. QED  BY <4>1
    <3>2. CASE n + 1 \notin a
      BY <3>2
    <3>. QED  BY <3>1, <3>2
  <2>. QED  BY <2>1, <2>2
<1>5. S \cap T = {}
  OBVIOUS
<1>. HIDE DEF S, T
<1>6. Cardinality(S \cup T) = 2 ^ n + 2 ^ n - Cardinality(S \cap T)
  BY <1>1, <1>3, FS_Union
<1>7. Cardinality(S \cap T) = 0
  BY <1>5, FS_EmptySet
<1>. DEFINE p == 2 ^ n
<1>8. p \in Nat /\ Cardinality(S \cup T) = p + p - 0
  BY <1>1, <1>6, <1>7
<1>9. 2 ^ (n + 1) = p + p - 0
  BY <1>1, <1>4, <1>8
<1>. HIDE DEF p
<1>10. p + p - 0 = 2 * p
  BY <1>8
<1>. QED  BY <1>9, <1>10 DEF p

LEMMA PowersDivide ==
  ASSUME NEW n \in Nat, NEW e \in Nat
  PROVE  \E q \in Nat \ {0} : 2 ^ (n + e) = q * 2 ^ n
<1>. DEFINE Holds(i) == \E q \in Nat \ {0} : 2 ^ (n + i) = q * 2 ^ n
            T == {i \in Nat : ~ Holds(i)}
<1>1. T = {}
  <2>. SUFFICES ASSUME T # {} PROVE FALSE
    OBVIOUS
  <2>1. PICK m \in T : \A i \in T : m <= i
    <3>1. T \in SUBSET Nat
      OBVIOUS
    <3>. HIDE DEF T
    <3>. QED  BY <3>1, Least
  <2>2. 2 ^ n \in Nat
    BY PowerType
  <2>3. Holds(0)
    <3>1. 2 ^ (n + 0) = 1 * 2 ^ n
      BY <2>2
    <3>. QED  BY <3>1
  <2>4. m - 1 \in Nat /\ m - 1 \notin T
    <3>1. m \in Nat /\ ~ Holds(m)
      BY <2>1
    <3>2. m # 0
      BY <2>3, <3>1
    <3>3. m - 1 \in Nat /\ ~ (m <= m - 1)
      BY <3>1, <3>2
    <3>. HIDE DEF T
    <3>. QED  BY <2>1, <3>3
  <2>5. PICK q \in Nat \ {0} : 2 ^ (n + (m - 1)) = q * 2 ^ n
    BY <2>4
  <2>6. n + (m - 1) \in Nat /\ (n + (m - 1)) + 1 = n + m
    BY <2>4
  <2>7. 2 ^ (n + m) = 2 * (q * 2 ^ n)
    BY <2>5, <2>6, PowerDoubles
  <2>8. 2 * (q * 2 ^ n) = (2 * q) * 2 ^ n /\ 2 * q \in Nat \ {0}
    BY <2>2
  <2>9. Holds(m)
    BY <2>7, <2>8
  <2>. QED  BY <2>1, <2>9
<1>. QED  BY <1>1

(* The width of a block is a multiple of the width of a deeper one.        *)
LEMMA WidthsDivide ==
  ASSUME NEW m \in 0 .. Depth, NEW d \in 0 .. m
  PROVE  \E q \in Nat \ {0} : WidthAt(d) = q * WidthAt(m)
<1>1. Depth - m \in Nat /\ m - d \in Nat /\ (Depth - m) + (m - d) = Depth - d
  BY Widths
<1>. QED  BY <1>1, PowersDivide, ZenonT(40) DEF WidthAt
------------------------------------------------------------------------------
(* The depth of the grid display is one of the tree.                       *)
LEMMA ShownDepthIs ==
  ASSUME NEW s \in Settings
  PROVE  ShownDepth(s) \in 0 .. Depth
<1>1. s.depth \in Int /\ Depth \in Int /\ s.depth >= 0 /\ Depth >= 0
  BY Widths, SettingsAssumption
<1>. QED  BY <1>1, LeastOfTwo DEF ShownDepth

(* The corner of a leaf lies on the grid of the deeper blocks.             *)
LEMMA LeafOnGrid ==
  ASSUME NEW t, TreeOK(t), NEW m \in 0 .. Depth, NEW n, NEW k, LeafOf(n, t, m, k)
  PROVE  /\ n.depth \in 0 .. m /\ n.corner \in Voxels /\ k \in Voxels
         /\ \A i \in 1 .. 3 : \E q \in Int : n.corner[i] = q * WidthAt(m)
         /\ \E q \in Nat \ {0} : WidthAt(n.depth) = q * WidthAt(m)
         /\ Corner(n.corner, m) = n.corner
         /\ n.corner \in Block(n.corner, n.depth)
         /\ n.depth = m \/ \A j \in Block(n.corner, n.depth) : j \in DOMAIN t /\ t[j] = t[k]
<1>1. n.depth \in 0 .. m /\ n.corner \in Voxels /\ k \in Voxels /\ n.depth \in 0 .. Depth
  BY LeafValueIs DEF LeafOf
<1>. DEFINE w == WidthAt(n.depth)
            v == WidthAt(m)
<1>2. w \in Nat \ {0} /\ v \in Nat \ {0}
  BY <1>1, Widths
<1>3. PICK p \in Nat \ {0} : w = p * v
  BY <1>1, WidthsDivide
<1>4. ASSUME NEW i \in 1 .. 3
      PROVE  \E q \in Int : n.corner[i] = q * v
  <2>. DEFINE x == k[i]
              r == x \div w
  <2>1. x \in Int /\ n.corner[i] = r * w
    BY <1>1, VoxelIs DEF LeafOf, Corner
  <2>. HIDE DEF x, w, v
  <2>2. r \in Int
    BY <1>2, <2>1, Quotients
  <2>. HIDE DEF r
  <2>3. r * p \in Int /\ r * w = (r * p) * v
    BY <1>2, <1>3, <2>2
  <2>. QED  BY <2>1, <2>3
<1>5. Corner(n.corner, m) = n.corner
  <2>1. ASSUME NEW i \in 1 .. 3
        PROVE  (n.corner[i] \div v) * v = n.corner[i]
    <3>1. PICK q \in Int : n.corner[i] = q * v
      BY <1>4
    <3>. HIDE DEF v
    <3>2. (q * v - 0 * v) \div v = q - 0 /\ q * v - 0 * v = q * v
      BY <1>2, Quotients
    <3>. QED  BY <3>1, <3>2
  <2>2. Corner(n.corner, m) = <<(n.corner[1] \div v) * v, (n.corner[2] \div v) * v,
                                (n.corner[3] \div v) * v>>
    BY DEF Corner
  <2>. QED  BY <1>1, <2>1, <2>2, VoxelIs
<1>6. n.corner \in Block(n.corner, n.depth)
  <2>. HIDE DEF w
  <2>1. \A i \in 1 .. 3 : n.corner[i] <= n.corner[i] /\ n.corner[i] < n.corner[i] + w
    BY <1>1, <1>2, VoxelIs
  <2>. QED  BY <1>1, <2>1, InBlock DEF w
<1>7. n.depth = m \/ \A j \in Block(n.corner, n.depth) : j \in DOMAIN t /\ t[j] = t[k]
  BY DEF LeafOf, Pruned
<1>. QED  BY <1>1, <1>3, <1>4, <1>5, <1>6, <1>7

(* A face key is found when it shares its block with a voxel that is seen. *)
LEMMA FoundIsSeen ==
  ASSUME NEW t, TreeOK(t), NEW s \in Settings, NEW k \in Voxels
  PROVE  FoundAt(t, s, k) <=>
           \E j \in SeenAt(t, s) : Corner(j, ShownDepth(s)) = Corner(k, ShownDepth(s))
<1>. DEFINE m == ShownDepth(s)
            B(j) == Block(Corner(j, m), m) \cap DOMAIN t
            SeenLike(j) == Kind(Max({t[i] : i \in B(j)})) \in s.show
<1>1. m \in 0 .. Depth
  BY ShownDepthIs
<1>2. FoundAt(t, s, k) <=> B(k) # {} /\ SeenLike(k)
  BY DEF FoundAt
<1>3. SeenAt(t, s) = {j \in DOMAIN t : SeenLike(j)}
  BY DEF SeenAt
<1>4. \A j \in DOMAIN t : j \in Voxels
  BY KeysAreVoxels DEF TreeOK
<1>. HIDE DEF m
<1>5. \A j \in DOMAIN t : j \in B(j)
  BY <1>1, <1>4, Corners
<1>6. \A j \in B(k) : Corner(j, m) = Corner(k, m) /\ j \in DOMAIN t
  BY <1>1, Corners
<1>7. \A j : Corner(j, m) = Corner(k, m) => (SeenLike(j) <=> SeenLike(k)) /\ B(j) = B(k)
  OBVIOUS
<1>. HIDE DEF B, SeenLike
<1>. QED  BY <1>2, <1>3, <1>5, <1>6, <1>7 DEF m

(* A leaf is of a kind to be shown when its corner is in a seen block.     *)
LEMMA LeafIsSeen ==
  ASSUME NEW t, TreeOK(t), NEW s \in Settings, NEW n, NEW k, LeafOf(n, t, ShownDepth(s), k)
  PROVE  Kind(LeafValue(t, n)) \in s.show <=>
           n.corner \in UNION {Block(Corner(j, ShownDepth(s)), ShownDepth(s)) : j \in SeenAt(t, s)}
<1>. DEFINE m == ShownDepth(s)
            B == Block(n.corner, m) \cap DOMAIN t
<1>1. m \in 0 .. Depth
  BY ShownDepthIs
<1>2. /\ n.depth \in 0 .. m /\ n.depth \in 0 .. Depth /\ n.corner \in Voxels /\ k \in Voxels
      /\ Corner(n.corner, m) = n.corner
      /\ n.corner \in Block(n.corner, n.depth)
      /\ k \in DOMAIN t
  <2>1. n.depth \in 0 .. Depth /\ k \in DOMAIN t
    BY <1>1, LeafValueIs DEF LeafOf
  <2>. QED  BY <1>1, <2>1, LeafOnGrid
<1>3. n.corner \in UNION {Block(Corner(j, m), m) : j \in SeenAt(t, s)} <=>
        \E j \in SeenAt(t, s) : Corner(j, m) = n.corner
  <2>1. \A j \in SeenAt(t, s) : j \in Voxels
    BY KeysAreVoxels DEF SeenAt, TreeOK
  <2>2. ASSUME NEW j \in SeenAt(t, s), n.corner \in Block(Corner(j, m), m)
        PROVE  Corner(j, m) = n.corner
    BY <1>1, <1>2, <2>1, <2>2, Corners
  <2>3. n.corner \in Block(n.corner, m)
    BY <1>1, <1>2, Corners
  <2>. HIDE DEF m
  <2>. QED  BY <2>2, <2>3
<1>4. (\E j \in SeenAt(t, s) : Corner(j, m) = n.corner) <=> FoundAt(t, s, n.corner)
  BY <1>2, FoundIsSeen
<1>5. FoundAt(t, s, n.corner) <=> B # {} /\ Kind(Max({t[i] : i \in B})) \in s.show
  BY <1>2 DEF FoundAt
<1>6. B # {} /\ Max({t[i] : i \in B}) = LeafValue(t, n)
  <2>. HIDE DEF m
  <2>1. CASE n.depth = m
    <3>1. k \in B
      BY <1>1, <1>2, <2>1, Corners DEF LeafOf, m
    <3>. QED  BY <2>1, <3>1 DEF LeafValue
  <2>2. CASE n.depth # m
    <3>1. \A j \in Block(n.corner, n.depth) : j \in DOMAIN t /\ t[j] = t[k]
      BY <1>1, <2>2, LeafOnGrid DEF m
    <3>2. Block(n.corner, m) \subseteq Block(n.corner, n.depth)
      <4>. DEFINE w == WidthAt(n.depth)
                  v == WidthAt(m)
      <4>1. w \in Nat /\ v \in Nat /\ v <= w
        <5>1. PICK q \in Nat \ {0} : w = q * v
          BY <1>1, <1>2, WidthsDivide
        <5>2. v \in Nat
          BY <1>1, Widths
        <5>. HIDE DEF w, v
        <5>3. (q - 1) * v \in Nat /\ q * v = (q - 1) * v + v
          BY <5>2
        <5>. QED  BY <5>1, <5>2, <5>3
      <4>2. ASSUME NEW j \in Block(n.corner, m) PROVE j \in Block(n.corner, n.depth)
        <5>1. j \in Voxels
          BY <1>1, <1>2, BlockInVoxels
        <5>2. \A i \in 1 .. 3 : n.corner[i] <= j[i] /\ j[i] < n.corner[i] + v
          BY <1>1, <1>2, <5>1, InBlock
        <5>. HIDE DEF w, v
        <5>3. \A i \in 1 .. 3 : n.corner[i] \in Int /\ j[i] \in Int
          BY <1>2, <5>1, VoxelIs
        <5>4. \A i \in 1 .. 3 : n.corner[i] <= j[i] /\ j[i] < n.corner[i] + w
          BY <4>1, <5>2, <5>3
        <5>. QED  BY <1>2, <5>1, <5>4, InBlock DEF w
      <4>. QED  BY <4>2
    <3>3. n.corner \in B /\ n.corner \in Block(n.corner, n.depth) \cap DOMAIN t
      <4>1. n.corner \in Block(n.corner, m)
        BY <1>1, <1>2, Corners
      <4>. QED  BY <1>2, <3>1, <4>1
    <3>4. {t[i] : i \in B} = {t[k]}
      BY <3>1, <3>2, <3>3
    <3>5. {t[i] : i \in Block(n.corner, n.depth) \cap DOMAIN t} = {t[k]}
      BY <3>1, <3>3
    <3>. QED  BY <3>3, <3>4, <3>5 DEF LeafValue
  <2>. QED  BY <2>1, <2>2
<1>. QED  BY <1>3, <1>4, <1>5, <1>6

(* The voxels of a tree stay clear of the edge of the space, by a block of *)
(* the depth they are shown at.                                            *)
ClearOf(t, s) ==
  \A k \in DOMAIN t : \A i \in 1 .. 3 :
    /\ 0 < Corner(k, ShownDepth(s))[i]
    /\ Corner(k, ShownDepth(s))[i] + WidthAt(ShownDepth(s)) < Side
ClearOfEdge == \A m \in Messages, s \in Settings : ClearOf(m.tree, s)

(* Then no face of a leaf is at the edge.                                  *)
LEMMA LeafClearOfEdge ==
  ASSUME NEW t, TreeOK(t), NEW s \in Settings, ClearOf(t, s),
         NEW n, NEW k, LeafOf(n, t, ShownDepth(s), k), NEW i \in 1 .. 3
  PROVE  0 < n.corner[i] /\ n.corner[i] + WidthAt(n.depth) < Side
<1>. DEFINE m == ShownDepth(s)
            w == WidthAt(n.depth)
            v == WidthAt(m)
<1>1. m \in 0 .. Depth
  BY ShownDepthIs
<1>2. /\ n.depth \in 0 .. m /\ n.depth \in 0 .. Depth /\ n.corner \in Voxels /\ k \in DOMAIN t
      /\ Corner(n.corner, m) = n.corner /\ n.corner \in Block(n.corner, n.depth)
  BY <1>1, LeafOnGrid, LeafValueIs DEF LeafOf
<1>3. w \in Nat \ {0} /\ Side \in Nat /\ v \in Nat \ {0}
  BY <1>1, <1>2, Widths
<1>4. CASE n.depth = m
  BY <1>2, <1>4 DEF ClearOf, LeafOf
<1>5. CASE n.depth # m
  <2>1. \A j \in Block(n.corner, n.depth) : j \in DOMAIN t
    BY <1>1, <1>5, LeafOnGrid
  <2>2. 0 < n.corner[i]
    BY <1>2, <2>1 DEF ClearOf
  <2>. DEFINE top == <<n.corner[1] + (w - 1), n.corner[2] + (w - 1), n.corner[3] + (w - 1)>>
  <2>. HIDE DEF w
  <2>3. \A a \in 1 .. 3 : n.corner[a] \in Int /\ top[a] = n.corner[a] + (w - 1)
    BY <1>2, VoxelIs
  <2>4. top \in Voxels
    BY <1>3, <2>3 DEF Voxels
  <2>. HIDE DEF top
  <2>5. \A a \in 1 .. 3 : n.corner[a] <= top[a] /\ top[a] < n.corner[a] + w
    BY <1>3, <2>3
  <2>6. top \in DOMAIN t
    BY <1>2, <2>1, <2>4, <2>5, InBlock DEF w
  <2>7. Corner(top, m)[i] + v < Side
    BY <2>6 DEF ClearOf
  <2>8. top[i] < Corner(top, m)[i] + v
    BY <1>1, <2>4, Corners
  <2>. HIDE DEF v, m
  <2>9. Corner(top, m)[i] \in Int
    BY <1>1, <2>4, Corners, VoxelIs
  <2>. QED  BY <1>3, <2>2, <2>3, <2>7, <2>8, <2>9 DEF w
<1>. QED  BY <1>4, <1>5

(* Every coordinate of a face is in the block of one that is looked up.    *)
LEMMA LookedUp ==
  ASSUME NEW v \in Nat \ {0}, NEW w \in Nat, NEW c \in Int, \E q \in Int : c = q * v,
         NEW x \in Int, c <= x, x < c + w
  PROVE  \E d \in {i \in 0 .. w - 1 : i % v = 0} : (c + d) \div v = x \div v
<1>. DEFINE q == (x - c) \div v
            d == q * v
<1>1. x - c \in Nat
  OBVIOUS
<1>2. d \in Nat /\ d <= x - c /\ x - c < d + v
  <2>. DEFINE y == x - c
  <2>1. y \in Nat
    BY <1>1
  <2>. HIDE DEF y
  <2>. QED  BY <2>1, RoundedDown DEF y
<1>3. q \in Int
  BY <1>1
<1>4. d % v = 0
  <2>. HIDE DEF q
  <2>1. (q * v - 0 * v) \div v = q - 0 /\ q * v - 0 * v = d
    BY <1>3, Quotients
  <2>. DEFINE p == d \div v
              r == d % v
  <2>2. p = q
    BY <1>3, <2>1
  <2>3. d = v * p + r /\ r \in 0 .. v - 1
    <3>. HIDE DEF d
    <3>. QED  BY <1>2
  <2>. HIDE DEF p, r
  <2>4. v * p = d /\ d \in Int
    BY <1>3, <2>2
  <2>. HIDE DEF d
  <2>. DEFINE z == v * p
  <2>5. d = z + r /\ z = d
    BY <2>3, <2>4
  <2>. HIDE DEF z
  <2>6. r = 0
    BY <2>3, <2>4, <2>5
  <2>. QED  BY <2>6 DEF r
<1>5. PICK b \in Int : c = b * v
  OBVIOUS
<1>. HIDE DEF q
<1>6. ((c + d) \div v) * v = c + d
  <2>. DEFINE e == b + q
  <2>1. e \in Int /\ c + d = e * v
    BY <1>3, <1>5
  <2>. HIDE DEF e
  <2>2. (e * v - 0 * v) \div v = e - 0 /\ e * v - 0 * v = e * v
    BY <2>1, Quotients
  <2>. QED  BY <2>1, <2>2
<1>7. x \div v = (c + d) \div v
  <2>. DEFINE f == c + d
  <2>1. f \in Int /\ f <= x /\ x < f + v
    BY <1>2
  <2>. HIDE DEF d
  <2>2. (f \div v) * v = f
    BY <1>6
  <2>. HIDE DEF f
  <2>3. (f \div v) * v <= x /\ x < (f \div v) * v + v
    BY <2>1, <2>2
  <2>4. x \div v = f \div v
    BY <2>1, <2>3, RoundedDown
  <2>. QED  BY <2>4 DEF f
<1>8. d \in 0 .. w - 1
  BY <1>2
<1>. QED  BY <1>4, <1>7, <1>8

(* Voxels of the same three coordinates are in the same block.             *)
LEMMA SameBlock ==
  ASSUME NEW m \in 0 .. Depth, NEW j, NEW k,
         \A i \in 1 .. 3 : j[i] \div WidthAt(m) = k[i] \div WidthAt(m)
  PROVE  Corner(j, m) = Corner(k, m)
BY DEF Corner

(* A leaf whose neighbours are not all found has an open face.             *)
LEMMA FaceIsOpen ==
  ASSUME NEW t, TreeOK(t), NEW s \in Settings, ClearOf(t, s),
         NEW n, NEW k, LeafOf(n, t, ShownDepth(s), k)
  PROVE  ~ AllNeighborsFound(t, s, n) <=> OpenFace(n, SeenAt(t, s), s)
<1>. DEFINE m == ShownDepth(s)
            w == WidthAt(n.depth)
            v == WidthAt(m)
            c == n.corner
            steps == {i \in 0 .. w - 1 : i % v = 0}
            At(side) == IF side = "low" THEN -1 ELSE w
            Key3(axis, side, d) ==
              [i \in 1 .. 3 |-> IF i = axis THEN c[axis] + At(side)
                                ELSE c[i] + (IF i = (axis % 3) + 1 THEN d[1] ELSE d[2])]
            Seen(x) == \E j \in SeenAt(t, s) : Corner(j, m) = Corner(x, m)
<1>1. m \in 0 .. Depth
  BY ShownDepthIs
<1>2. n.depth \in 0 .. m /\ n.depth \in 0 .. Depth /\ c \in Voxels
  BY <1>1, LeafOnGrid, LeafValueIs
<1>3. w \in Nat \ {0} /\ v \in Nat \ {0} /\ Side \in Nat \ {0}
  BY <1>1, <1>2, Widths
<1>4. \A i \in 1 .. 3 : c[i] \in Int /\ 0 < c[i] /\ c[i] + w < Side
  BY <1>2, VoxelIs, LeafClearOfEdge
<1>5. ASSUME NEW axis \in 1 .. 3, NEW side \in {"low", "high"}
      PROVE  FaceKeys(n, s, axis, side) = {Key3(axis, side, d) : d \in steps \X steps}
  <2>. DEFINE next == (axis % 3) + 1
              off(i, d) == IF i = axis THEN At(side) ELSE IF i = next THEN d[1] ELSE d[2]
              wrapped(d) == [i \in 1 .. 3 |-> (c[i] + off(i, d)) % Side]
  <2>1. next \in 1 .. 3 /\ (next % 3) + 1 \in 1 .. 3
    OBVIOUS
  <2>2. AlongFace(n, s, next) = steps /\ AlongFace(n, s, (next % 3) + 1) = steps
    BY <1>4, <2>1 DEF AlongFace
  <2>3. FaceKeys(n, s, axis, side) = {wrapped(d) : d \in steps \X steps}
    BY <2>2 DEF FaceKeys
  <2>4. ASSUME NEW d \in steps \X steps PROVE wrapped(d) = Key3(axis, side, d)
    <3>1. d[1] \in 0 .. w - 1 /\ d[2] \in 0 .. w - 1
      OBVIOUS
    <3>. HIDE DEF w, c
    <3>2. ASSUME NEW i \in 1 .. 3 PROVE c[i] + off(i, d) \in 0 .. Side - 1
      BY <1>3, <1>4, <3>1, <3>2
    <3>. HIDE DEF off
    <3>3. \A i \in 1 .. 3 : (c[i] + off(i, d)) % Side = c[i] + off(i, d)
      BY <1>3, <3>2
    <3>4. wrapped(d) = [i \in 1 .. 3 |-> c[i] + off(i, d)]
      BY <3>3
    <3>5. \A i \in 1 .. 3 : c[i] + off(i, d) =
             IF i = axis THEN c[axis] + At(side)
             ELSE c[i] + (IF i = (axis % 3) + 1 THEN d[1] ELSE d[2])
      BY DEF off
    <3>. QED  BY <3>4, <3>5
  <2>. HIDE DEF wrapped, Key3, steps
  <2>. QED  BY <2>3, <2>4
<1>6. ASSUME NEW axis \in 1 .. 3, NEW side \in {"low", "high"}, NEW d \in steps \X steps
      PROVE  Key3(axis, side, d) \in Voxels
  <2>. DEFINE f == Key3(axis, side, d)
  <2>1. d[1] \in Int /\ d[2] \in Int /\ At(side) \in Int
    BY <1>3
  <2>. HIDE DEF At, c
  <2>2. f[1] \in Int /\ f[2] \in Int /\ f[3] \in Int
    BY <1>4, <2>1
  <2>3. f = <<f[1], f[2], f[3]>>
    OBVIOUS
  <2>. HIDE DEF f
  <2>4. <<f[1], f[2], f[3]>> \in Voxels
    BY <2>2 DEF Voxels
  <2>5. f \in Voxels
    BY <2>3, <2>4
  <2>. QED  BY <2>5 DEF f
<1>. HIDE DEF Key3
<1>7. AllNeighborsFound(t, s, n) <=>
        \A axis \in 1 .. 3, side \in {"low", "high"} :
          \A d \in steps \X steps : Seen(Key3(axis, side, d))
  <2>1. AllNeighborsFound(t, s, n) <=>
          \A axis \in 1 .. 3, side \in {"low", "high"} :
            \A f \in FaceKeys(n, s, axis, side) : FoundAt(t, s, f)
    BY DEF AllNeighborsFound
  <2>2. \A axis \in 1 .. 3, side \in {"low", "high"} : \A d \in steps \X steps :
           FoundAt(t, s, Key3(axis, side, d)) <=> Seen(Key3(axis, side, d))
    BY <1>6, FoundIsSeen
  <2>. HIDE DEF steps, Seen
  <2>. QED  BY <1>5, <2>1, <2>2
<1>8. OpenFace(n, SeenAt(t, s), s) <=>
        \E axis \in 1 .. 3, side \in {"low", "high"} :
          \E j \in Block(c, n.depth) : ~ Seen([j EXCEPT ![axis] = c[axis] + At(side)])
  <2>1. OpenFace(n, SeenAt(t, s), s) <=>
          \E axis \in 1 .. 3, at \in {-1, w} :
            \E j \in Block(c, n.depth) : ~ Seen([j EXCEPT ![axis] = c[axis] + at])
    BY ZenonT(40) DEF OpenFace
  <2>2. \A at : at \in {-1, w} <=> \E side \in {"low", "high"} : at = At(side)
    OBVIOUS
  <2>. HIDE DEF At, c, Seen
  <2>. QED  BY <2>1, <2>2
<1>9. ASSUME NEW axis \in 1 .. 3, NEW side \in {"low", "high"}, NEW d \in steps \X steps
      PROVE  \E j \in Block(c, n.depth) :
               Key3(axis, side, d) = [j EXCEPT ![axis] = c[axis] + At(side)]
  <2>. DEFINE e(i) == IF i = axis THEN 0 ELSE IF i = (axis % 3) + 1 THEN d[1] ELSE d[2]
              j == <<c[1] + e(1), c[2] + e(2), c[3] + e(3)>>
  <2>1. \A i \in 1 .. 3 : e(i) \in Int /\ 0 <= e(i) /\ e(i) < w
    <3>1. d[1] \in 0 .. w - 1 /\ d[2] \in 0 .. w - 1
      OBVIOUS
    <3>. QED  BY <1>3, <3>1
  <2>2. \A i \in 1 .. 3 : j[i] = c[i] + e(i)
    OBVIOUS
  <2>. HIDE DEF e, c
  <2>3. j \in Voxels
    BY <1>4, <2>1 DEF Voxels
  <2>4. \A i \in 1 .. 3 : c[i] <= j[i] /\ j[i] < c[i] + w
    BY <1>3, <1>4, <2>1, <2>2
  <2>5. j \in Block(c, n.depth)
    BY <1>2, <2>3, <2>4, InBlock
  <2>6. Key3(axis, side, d) = [i \in 1 .. 3 |-> IF i = axis THEN c[axis] + At(side) ELSE j[i]]
    BY <2>2 DEF Key3, e
  <2>7. [j EXCEPT ![axis] = c[axis] + At(side)]
          = [i \in 1 .. 3 |-> IF i = axis THEN c[axis] + At(side) ELSE j[i]]
    <3>1. DOMAIN j = 1 .. 3
      OBVIOUS
    <3>. HIDE DEF j, At
    <3>. QED  BY <3>1
  <2>. QED  BY <2>5, <2>6, <2>7
<1>10. ASSUME NEW axis \in 1 .. 3, NEW side \in {"low", "high"}, NEW j \in Block(c, n.depth)
       PROVE  \E d \in steps \X steps :
                Corner(Key3(axis, side, d), m) = Corner([j EXCEPT ![axis] = c[axis] + At(side)], m)
  <2>. DEFINE one == (axis % 3) + 1
              two == ((axis + 1) % 3) + 1
              x == [j EXCEPT ![axis] = c[axis] + At(side)]
  <2>1. j \in Voxels
    BY <1>2, BlockInVoxels
  <2>2. \A i \in 1 .. 3 : j[i] \in Int /\ c[i] <= j[i] /\ j[i] < c[i] + w
    BY <1>2, <2>1, InBlock, VoxelIs
  <2>3. one \in 1 .. 3 /\ two \in 1 .. 3 /\ one # two /\ one # axis /\ two # axis
    OBVIOUS
  <2>4. \A i \in 1 .. 3 : \E d \in steps : (c[i] + d) \div v = j[i] \div v
    <3>1. ASSUME NEW i \in 1 .. 3 PROVE \E d \in steps : (c[i] + d) \div v = j[i] \div v
      <4>1. \E q \in Int : c[i] = q * v
        BY <1>1, LeafOnGrid
      <4>. DEFINE a == c[i]
                  b == j[i]
      <4>2. a \in Int /\ b \in Int /\ a <= b /\ b < a + w /\ \E q \in Int : a = q * v
        BY <1>4, <2>2, <4>1
      <4>. HIDE DEF a, b, v, w
      <4>3. \E d \in steps : (a + d) \div v = b \div v
        BY <1>3, <4>2, LookedUp, ZenonT(40)
      <4>. QED  BY <4>3 DEF a, b
    <3>. QED  BY <3>1
  <2>5. PICK d1 \in steps : (c[one] + d1) \div v = j[one] \div v
    <3>. HIDE DEF one, steps, v, c
    <3>. QED  BY <2>3, <2>4
  <2>6. PICK d2 \in steps : (c[two] + d2) \div v = j[two] \div v
    <3>. HIDE DEF two, steps, v, c
    <3>. QED  BY <2>3, <2>4
  <2>. DEFINE d == <<d1, d2>>
              f == Key3(axis, side, d)
  <2>7. f[axis] = c[axis] + At(side) /\ f[one] = c[one] + d1 /\ f[two] = c[two] + d2
    <3>. HIDE DEF At, c
    <3>. QED  BY <2>3 DEF Key3
  <2>8. x[axis] = c[axis] + At(side) /\ x[one] = j[one] /\ x[two] = j[two]
    <3>1. DOMAIN j = 1 .. 3
      <4>1. j = <<j[1], j[2], j[3]>>
        BY <2>1, VoxelIs
      <4>. QED  BY <4>1
    <3>. HIDE DEF At, c, one, two
    <3>. QED  BY <2>3, <3>1
  <2>9. \A i \in 1 .. 3 : i = axis \/ i = one \/ i = two
    OBVIOUS
  <2>. HIDE DEF f, x, one, two, At
  <2>10. \A i \in 1 .. 3 : f[i] \div v = x[i] \div v
    BY <2>5, <2>6, <2>7, <2>8, <2>9
  <2>11. Corner(f, m) = Corner(x, m)
    BY <1>1, <2>10, SameBlock
  <2>12. d \in steps \X steps
    OBVIOUS
  <2>. QED  BY <2>11, <2>12 DEF f, x
<1>11. ASSUME NEW a, NEW b, Corner(a, m) = Corner(b, m) PROVE Seen(a) <=> Seen(b)
  BY <1>11
<1>12. ASSUME ~ AllNeighborsFound(t, s, n) PROVE OpenFace(n, SeenAt(t, s), s)
  <2>1. PICK axis \in 1 .. 3, side \in {"low", "high"} :
          \E d \in steps \X steps : ~ Seen(Key3(axis, side, d))
    BY <1>7, <1>12
  <2>2. PICK d \in steps \X steps : ~ Seen(Key3(axis, side, d))
    BY <2>1
  <2>3. PICK j \in Block(c, n.depth) :
          Key3(axis, side, d) = [j EXCEPT ![axis] = c[axis] + At(side)]
    BY <1>9
  <2>4. ~ Seen([j EXCEPT ![axis] = c[axis] + At(side)])
    BY <2>2, <2>3, <1>11
  <2>. HIDE DEF Seen, At, c
  <2>. QED  BY <1>8, <2>4
<1>13. ASSUME OpenFace(n, SeenAt(t, s), s) PROVE ~ AllNeighborsFound(t, s, n)
  <2>1. PICK axis \in 1 .. 3, side \in {"low", "high"} :
          \E j \in Block(c, n.depth) : ~ Seen([j EXCEPT ![axis] = c[axis] + At(side)])
    BY <1>8, <1>13
  <2>2. PICK j \in Block(c, n.depth) : ~ Seen([j EXCEPT ![axis] = c[axis] + At(side)])
    BY <2>1
  <2>3. PICK d \in steps \X steps :
          Corner(Key3(axis, side, d), m) = Corner([j EXCEPT ![axis] = c[axis] + At(side)], m)
    BY <1>10
  <2>4. ~ Seen(Key3(axis, side, d))
    BY <1>11, <2>2, <2>3
  <2>. HIDE DEF Seen, steps
  <2>. QED  BY <1>7, <2>4
<1>. QED  BY <1>12, <1>13

(* What is selected is the surface.                                        *)
LEMMA SelectedIsSurface ==
  ASSUME NEW t, TreeOK(t), NEW s \in Settings, ClearOf(t, s)
  PROVE  Selected(t, s) = Surface(t, s)
<1>1. ShownDepth(s) \in 0 .. Depth
  BY ShownDepthIs
<1>2. ASSUME NEW n \in Leaves(t, ShownDepth(s))
      PROVE  /\ Kind(LeafValue(t, n)) \in s.show <=>
                  n.corner \in UNION {Block(Corner(k, ShownDepth(s)), ShownDepth(s))
                                        : k \in SeenAt(t, s)}
             /\ ~ AllNeighborsFound(t, s, n) <=> OpenFace(n, SeenAt(t, s), s)
  <2>1. PICK k \in DOMAIN t : LeafOf(n, t, ShownDepth(s), k)
    BY <1>1, LeavesAre
  <2>. QED  BY <2>1, LeafIsSeen, FaceIsOpen
<1>. QED  BY <1>2 DEF Selected, Surface
------------------------------------------------------------------------------
(* The messages under way are those of the server.                         *)
TopicInv ==
  /\ published \in Messages \cup {NoMessage}
  /\ taken \in Seq(Messages)

(* Every set of points is what one of the messages selects.                *)
FromOne(points) ==
  points = {} \/ \E m \in Messages, s \in Settings : points = Selected(m.tree, s)

VoxelsInv ==
  /\ properties \in Settings
  /\ FromOne(new_points_)
  /\ FromOne(cloud_)

LEMMA TakenKept ==
  ASSUME TopicInv
  PROVE  /\ \A m \in Messages : Publish(m) => TopicInv'
         /\ \A on \in BOOLEAN : Resubscribe(on) => TopicInv'
         /\ Command => TopicInv'
         /\ Take => TopicInv' /\ Head(taken) \in Messages
         /\ UNCHANGED topic_vars => TopicInv'
<1>1. ASSUME NEW m \in Messages, Publish(m) PROVE TopicInv'
  BY <1>1 DEF TopicInv, Publish
<1>2. ASSUME NEW on \in BOOLEAN, Resubscribe(on) PROVE TopicInv'
  <2>1. taken' = taken \/ (published \in Messages /\ taken' = Append(taken, published))
    BY <1>2 DEF Resubscribe, TopicInv
  <2>. QED  BY <1>2, <2>1 DEF TopicInv, Resubscribe
<1>3. Command => TopicInv'
  BY DEF TopicInv, Command
<1>4. Take => TopicInv' /\ Head(taken) \in Messages
  BY DEF TopicInv, Take
<1>5. UNCHANGED topic_vars => TopicInv'
  BY DEF TopicInv, topic_vars
<1>. QED  BY <1>1, <1>2, <1>3, <1>4, <1>5

LEMMA VoxelsInvKept == TopicInv /\ VoxelsInv /\ [DisplaysNext]_dvars => TopicInv' /\ VoxelsInv'
<1>. SUFFICES ASSUME TopicInv, VoxelsInv, [DisplaysNext]_dvars PROVE TopicInv' /\ VoxelsInv'
  OBVIOUS
<1>1. CASE GridDisplayNext
  <2>1. ASSUME NEW m \in Messages, Publish(m),
               UNCHANGED <<properties, new_points_received_, new_points_, cloud_>>
        PROVE  TopicInv' /\ VoxelsInv'
    BY <2>1, TakenKept DEF VoxelsInv, FromOne
  <2>2. CASE ProcessGridMessage
    <3>1. Take /\ Head(taken) \in Messages /\ TopicInv'
      BY <2>2, TakenKept DEF ProcessGridMessage
    <3>2. \/ new_points_' = Selected(Head(taken).tree, properties)
          \/ new_points_' = new_points_
      BY <2>2 DEF ProcessGridMessage
    <3>3. properties' = properties /\ cloud_' = cloud_
      BY <2>2 DEF ProcessGridMessage
    <3>. QED  BY <3>1, <3>2, <3>3 DEF VoxelsInv, FromOne
  <2>3. CASE UpdateGridDisplay
    BY <2>3, TakenKept DEF UpdateGridDisplay, VoxelsInv, FromOne
  <2>4. ASSUME NEW s \in Settings, UpdateProperty(s) PROVE TopicInv' /\ VoxelsInv'
    <3>1. TopicInv'
      <4>2. taken' = taken \/ (published \in Messages /\ taken' = Append(taken, published))
        BY <2>4 DEF UpdateProperty, Resubscribe, TopicInv
      <4>. QED  BY <2>4, <4>2 DEF TopicInv, UpdateProperty, Resubscribe
    <3>. QED  BY <2>4, <3>1 DEF UpdateProperty, VoxelsInv, FromOne
  <2>5. ASSUME NEW on \in BOOLEAN, EnableGridDisplay(on) PROVE TopicInv' /\ VoxelsInv'
    BY <2>5, TakenKept DEF EnableGridDisplay, VoxelsInv, FromOne
  <2>6. CASE ResetGridDisplay
    BY <2>6, TakenKept DEF ResetGridDisplay, VoxelsInv, FromOne
  <2>. QED  BY <1>1, <2>1, <2>2, <2>3, <2>4, <2>5, <2>6 DEF GridDisplayNext
<1>2. CASE MapDisplayNext /\ UNCHANGED grid_display_vars
  <2>1. VoxelsInv'
    BY <1>2 DEF VoxelsInv, FromOne, grid_display_vars
  <2>2. TopicInv'
    <3>1. ASSUME NEW m \in Messages, Publish(m) PROVE TopicInv'
      BY <3>1, TakenKept
    <3>2. CASE ProcessMapMessage
      BY <3>2, TakenKept DEF ProcessMapMessage
    <3>3. ASSUME NEW u \in Updates, IncomingUpdate(u) PROVE TopicInv'
      BY <3>3 DEF IncomingUpdate, TopicInv
    <3>4. CASE UpdateMapDisplay
      BY <3>4, TakenKept DEF UpdateMapDisplay
    <3>5. ASSUME NEW m \in MapDepths, UpdateMapDepth(m) PROVE TopicInv'
      BY <3>5, TakenKept DEF UpdateMapDepth
    <3>6. ASSUME NEW on \in BOOLEAN, EnableMapDisplay(on) PROVE TopicInv'
      BY <3>6, TakenKept DEF EnableMapDisplay
    <3>7. CASE ResetMapDisplay
      BY <3>7, TakenKept DEF ResetMapDisplay
    <3>. QED  BY <1>2, <3>1, <3>2, <3>3, <3>4, <3>5, <3>6, <3>7 DEF MapDisplayNext
  <2>. QED  BY <2>1, <2>2
<1>3. CASE UNCHANGED dvars
  BY <1>3, TakenKept DEF dvars, topic_vars, grid_display_vars, VoxelsInv, FromOne, TopicInv
<1>. QED  BY <1>1, <1>2, <1>3 DEF DisplaysNext

LEMMA VoxelsInvInit == DisplaysInit => TopicInv /\ VoxelsInv
BY DEF DisplaysInit, TopicInit, GridDisplayInit, TopicInv, VoxelsInv, FromOne

LEMMA VoxelsInvAlways == DisplaysSpec => [](TopicInv /\ VoxelsInv)
<1>. QED  BY VoxelsInvInit, VoxelsInvKept, PTL DEF DisplaysSpec

(* The voxel display shows the visible surface of one message under one    *)
(* choice of the properties (processMessage and update of the grid         *)
(* display), for trees that stay clear of the edge of the space: at the    *)
(* edge the keys of the neighbours wrap around.                            *)
THEOREM ShowsOneSurfaceAlways ==
  ASSUME ClearOfEdge
  PROVE  DisplaysSpec => []ShowsOneSurface
<1>1. VoxelsInv => ShowsOneSurface
  <2>1. ASSUME NEW m \in Messages, NEW s \in Settings
        PROVE  Selected(m.tree, s) = Surface(m.tree, s)
    BY MessagesAssumption, SelectedIsSurface DEF TreeOK, ClearOfEdge
  <2>. QED  BY <2>1 DEF VoxelsInv, FromOne, ShowsOneSurface
<1>. QED  BY <1>1, VoxelsInvAlways, PTL
------------------------------------------------------------------------------
LEMMA Inductive ==
  ASSUME NEW T, 0 \in T, \A n \in Nat : n \in T => n + 1 \in T
  PROVE  \A n \in Nat : n \in T
<1>. DEFINE U == {n \in Nat : n \notin T}
<1>. SUFFICES ASSUME U # {} PROVE FALSE
  OBVIOUS
<1>1. PICK m \in U : \A n \in U : m <= n
  <2>1. U \in SUBSET Nat
    OBVIOUS
  <2>. HIDE DEF U
  <2>. QED  BY <2>1, Least
<1>2. m - 1 \in Nat /\ ~ (m <= m - 1)
  <2>1. m # 0 /\ m \in Nat
    BY <1>1
  <2>. QED  BY <2>1
<1>3. m - 1 \in T
  BY <1>1, <1>2
<1>4. (m - 1) + 1 = m
  BY <1>2
<1>. QED  BY <1>1, <1>2, <1>3, <1>4

(* A length of m cells is cut into c parts of s cells, the last of which   *)
(* takes what is left over, less than s.                                   *)
CutInto(m, c, s) ==
  m \in Nat /\ c \in Nat \ {0} /\ s \in Nat \ {0} /\ c * s <= m /\ m < c * s + s

LEMMA Parts ==
  ASSUME NEW m, NEW c, NEW s, CutInto(m, c, s)
  PROVE  \A j \in 0 .. c - 1 :
           LET len == EffectiveDimension(m, s, j * s) IN
             /\ j * s \in Nat /\ len \in Nat \ {0} /\ len < 2 * s
             /\ j < c - 1 => len = s /\ j * s + len = (j + 1) * s /\ j * s + len < m
             /\ j = c - 1 => j * s + len = m
<1>1. ASSUME NEW j \in 0 .. c - 1
      PROVE  LET len == EffectiveDimension(m, s, j * s) IN
             /\ j * s \in Nat /\ len \in Nat \ {0} /\ len < 2 * s
             /\ j < c - 1 => len = s /\ j * s + len = (j + 1) * s /\ j * s + len < m
             /\ j = c - 1 => j * s + len = m
  <2>. DEFINE p == j * s
              e == c * s
              len == EffectiveDimension(m, s, p)
  <2>1. m \in Nat /\ c \in Nat \ {0} /\ s \in Nat \ {0} /\ e <= m /\ m < e + s /\ j \in Nat /\ j <= c - 1
    BY DEF CutInto
  <2>2. p \in Nat /\ e \in Nat /\ (j + 1) * s = p + s
    BY <2>1
  <2>3. CASE j < c - 1
    <3>1. (c - (j + 2)) * s \in Nat /\ (c - (j + 2)) * s = e - p - s - s
      <4>1. c - (j + 2) \in Nat
        BY <2>1, <2>3
      <4>. QED  BY <2>1, <4>1
    <3>2. len = IF m - p - s >= s THEN s ELSE m - p
      BY DEF EffectiveDimension
    <3>. HIDE DEF p, e, len
    <3>. QED  BY <2>1, <2>2, <2>3, <3>1, <3>2 DEF p, len
  <2>4. CASE j = c - 1
    <3>1. p = e - s
      BY <2>1, <2>4
    <3>2. len = IF m - p - s >= s THEN s ELSE m - p
      BY DEF EffectiveDimension
    <3>. HIDE DEF p, e, len
    <3>3. len = m - p /\ p + len = m /\ len \in Nat \ {0} /\ len < 2 * s
      BY <2>1, <2>2, <3>1, <3>2
    <3>. QED  BY <2>2, <2>4, <3>3 DEF p, len
  <2>. QED  BY <2>1, <2>3, <2>4
<1>. QED  BY <1>1

(* Each cell is in one of the parts.                                       *)
LEMMA OnePart ==
  ASSUME NEW m, NEW c, NEW s, CutInto(m, c, s), NEW x \in 0 .. m - 1
  PROVE  \E j \in 0 .. c - 1 :
           \A i \in 0 .. c - 1 :
             x \in i * s .. i * s + EffectiveDimension(m, s, i * s) - 1 <=> i = j
<1>. DEFINE q == x \div s
            j == IF q < c THEN q ELSE c - 1
            In(i) == x \in i * s .. i * s + EffectiveDimension(m, s, i * s) - 1
<1>1. m \in Nat /\ c \in Nat \ {0} /\ s \in Nat \ {0} /\ x \in Nat /\ x < m
  BY DEF CutInto
<1>2. q \in Nat /\ q * s \in Int /\ q * s <= x /\ x < q * s + s
  <2>1. q \in Nat
    BY <1>1
  <2>. QED  BY <1>1, <2>1, RoundedDown
<1>. HIDE DEF q
<1>3. j \in 0 .. c - 1
  BY <1>1, <1>2
<1>4. In(j)
  <2>. DEFINE len == EffectiveDimension(m, s, j * s)
              p == j * s
  <2>1. /\ p \in Nat /\ len \in Nat \ {0}
        /\ j < c - 1 => len = s
        /\ j = c - 1 => p + len = m
    BY <1>3, Parts
  <2>2. p <= x
    <3>1. q - j \in Nat
      BY <1>1, <1>2
    <3>2. (q - j) * s \in Nat /\ (q - j) * s = q * s - p
      <4>. HIDE DEF j
      <4>1. j \in Int
        BY <1>3
      <4>. QED  BY <1>1, <1>2, <3>1, <4>1
    <3>. HIDE DEF p
    <3>. QED  BY <1>1, <1>2, <2>1, <3>2
  <2>3. j < c - 1 => j = q
    BY <1>1, <1>2
  <2>4. x < p + len
    <3>1. j < c - 1 => p = q * s
      BY <2>3
    <3>. HIDE DEF p, len, j
    <3>. QED  BY <1>1, <1>2, <1>3, <2>1, <3>1
  <2>. HIDE DEF j
  <2>5. x \in p .. p + len - 1
    <3>. HIDE DEF p, len
    <3>. QED  BY <1>1, <2>1, <2>2, <2>4
  <2>. QED  BY <2>5
<1>. HIDE DEF j
<1>5. ASSUME NEW i \in 0 .. c - 1, NEW k \in 0 .. c - 1, i < k, In(i), In(k) PROVE FALSE
  <2>. DEFINE a == i * s
              b == k * s
              len == EffectiveDimension(m, s, a)
  <2>1. a \in Nat /\ len \in Nat /\ len = s
    <3>1. i < c - 1
      BY <1>1, <1>5
    <3>. QED  BY <3>1, Parts
  <2>2. (k - (i + 1)) * s \in Nat /\ (k - (i + 1)) * s = b - a - s /\ b \in Int
    <3>1. k - (i + 1) \in Nat /\ i \in Int /\ k \in Int
      BY <1>1, <1>5
    <3>. QED  BY <1>1, <3>1
  <2>3. x < a + len
    <3>1. x \in a .. a + len - 1
      BY <1>5
    <3>. HIDE DEF a, len
    <3>. QED  BY <2>1, <3>1
  <2>4. b <= x
    <3>1. x \in b .. b + EffectiveDimension(m, s, b) - 1
      BY <1>5
    <3>. HIDE DEF b
    <3>. QED  BY <2>2, <3>1
  <2>. HIDE DEF a, b, len
  <2>. QED  BY <1>1, <2>1, <2>2, <2>3, <2>4
<1>6. ASSUME NEW i \in 0 .. c - 1, In(i) PROVE i = j
  <2>. HIDE DEF In
  <2>1. ~ (i < j) /\ ~ (j < i)
    BY <1>3, <1>4, <1>5, <1>6
  <2>. QED  BY <1>1, <1>3, <2>1
<1>. QED  BY <1>3, <1>4, <1>6

(* The i-th swatch of a walk over c columns: they are counted along a row. *)
SwatchAt(w, h, s, c, i) ==
  LET x == ((i - 1) % c) * s[1]
      y == ((i - 1) \div c) * s[2]
  IN [x |-> x, y |-> y, w |-> EffectiveDimension(w, s[1], x), h |-> EffectiveDimension(h, s[2], y)]

(* From one swatch to the next.                                            *)
LEMMA NextInRow ==
  ASSUME NEW c \in Nat \ {0}, NEW r \in Nat \ {0}, NEW i \in 1 .. c * r
  PROVE  /\ (i - 1) % c \in 0 .. c - 1 /\ (i - 1) \div c \in 0 .. r - 1
         /\ i = c * ((i - 1) \div c) + ((i - 1) % c) + 1
         /\ i > 1 =>
              IF (i - 2) % c = c - 1
                THEN /\ (i - 1) % c = 0 /\ (i - 1) \div c = (i - 2) \div c + 1
                     /\ (i - 2) \div c < r - 1
                ELSE (i - 1) % c = ((i - 2) % c) + 1 /\ (i - 1) \div c = (i - 2) \div c
<1>1. c * r \in Nat /\ i \in Nat /\ i >= 1 /\ i <= c * r
  OBVIOUS
<1>. DEFINE p == (i - 1) \div c
            q == (i - 1) % c
<1>2. p \in Int /\ q \in 0 .. c - 1 /\ i - 1 = c * p + q
  BY <1>1, Indexed
<1>3. p \in 0 .. r - 1
  <2>. HIDE DEF p, q
  <2>1. c * p \in Int
    BY <1>2
  <2>2. ~ (p <= -1)
    <3>. SUFFICES ASSUME p <= -1 PROVE FALSE
      OBVIOUS
    <3>1. (-1 - p) \in Nat /\ c * (-1 - p) \in Nat
      BY <1>2
    <3>2. c * (-1 - p) = 0 - c - c * p
      BY <1>2
    <3>. QED  BY <1>1, <1>2, <2>1, <3>1, <3>2
  <2>3. ~ (r <= p)
    <3>. SUFFICES ASSUME r <= p PROVE FALSE
      OBVIOUS
    <3>1. (p - r) \in Nat /\ c * (p - r) \in Nat
      BY <1>2
    <3>2. c * (p - r) = c * p - c * r
      BY <1>2
    <3>. QED  BY <1>1, <1>2, <2>1, <3>1, <3>2
  <2>. QED  BY <1>2, <2>2, <2>3
<1>4. i = c * p + q + 1
  <2>. HIDE DEF p, q
  <2>1. c * p \in Int
    BY <1>2
  <2>. QED  BY <1>1, <1>2, <2>1
<1>5. ASSUME i > 1
      PROVE  IF (i - 2) % c = c - 1
               THEN /\ q = 0 /\ p = (i - 2) \div c + 1
                    /\ (i - 2) \div c < r - 1
               ELSE q = ((i - 2) % c) + 1 /\ p = (i - 2) \div c
  <2>. DEFINE u == (i - 2) \div c
              v == (i - 2) % c
  <2>1. u \in Int /\ v \in 0 .. c - 1 /\ i - 2 = c * u + v
    BY <1>1, Indexed
  <2>2. CASE v = c - 1
    <3>1. i - 1 = c * (u + 1) + 0
      <4>. HIDE DEF u, v
      <4>1. c * u \in Int /\ c * (u + 1) = c * u + c
        BY <2>1
      <4>. QED  BY <1>1, <2>1, <2>2, <4>1
    <3>2. 0 \in 0 .. c - 1 /\ u + 1 \in Int
      BY <2>1
    <3>3. (c * (u + 1) + 0) % c = 0 /\ (c * (u + 1) + 0) \div c = u + 1
      <4>. HIDE DEF u
      <4>. QED  BY <3>2, Indexed
    <3>4. q = 0 /\ p = u + 1
      BY <3>1, <3>3
    <3>5. u < r - 1
      <4>. HIDE DEF u, p, q
      <4>. QED  BY <1>3, <2>1, <3>4
    <3>. QED  BY <2>2, <3>4, <3>5
  <2>3. CASE v # c - 1
    <3>1. i - 1 = c * u + (v + 1)
      <4>. HIDE DEF u, v
      <4>1. c * u \in Int
        BY <2>1
      <4>. QED  BY <1>1, <2>1, <4>1
    <3>2. v + 1 \in 0 .. c - 1
      <4>. HIDE DEF u, v
      <4>. QED  BY <2>1, <2>3
    <3>3. (c * u + (v + 1)) % c = v + 1 /\ (c * u + (v + 1)) \div c = u
      <4>. HIDE DEF u, v
      <4>. QED  BY <2>1, <3>2, Indexed
    <3>4. q = v + 1 /\ p = u
      BY <3>1, <3>3
    <3>. QED  BY <2>3, <3>4
  <2>. QED  BY <2>2, <2>3
<1>. QED  BY <1>2, <1>3, <1>4, <1>5

(* The walk goes over c columns and r rows.                                *)
LEMMA WalkIs ==
  ASSUME NEW w, NEW h, NEW s, NEW c, NEW r, CutInto(w, c, s[1]), CutInto(h, r, s[2])
  PROVE  Walk(w, h, s, c * r) = {SwatchAt(w, h, s, c, i) : i \in 1 .. c * r}
<1>. DEFINE n == c * r
            Place(f, i) ==
              IF i = 1 THEN <<0, 0>>
              ELSE LET q == f[i - 1] IN
                   IF q.x + q.w >= w THEN <<0, q.y + q.h>> ELSE <<q.x + q.w, q.y>>
            Swatch(p) == [x |-> p[1], y |-> p[2],
                          w |-> EffectiveDimension(w, s[1], p[1]),
                          h |-> EffectiveDimension(h, s[2], p[2])]
            Step(f) == [i \in 1 .. n |->
                          LET p == IF i = 1 THEN <<0, 0>>
                                   ELSE LET q == f[i - 1] IN
                                        IF q.x + q.w >= w THEN <<0, q.y + q.h>>
                                        ELSE <<q.x + q.w, q.y>>
                          IN [x |-> p[1], y |-> p[2],
                              w |-> EffectiveDimension(w, s[1], p[1]),
                              h |-> EffectiveDimension(h, s[2], p[2])]]
            step == CHOOSE f : f = Step(f)
            At(i) == SwatchAt(w, h, s, c, i)
            all == [i \in 1 .. n |-> At(i)]
<1>1. Walk(w, h, s, n) = {step[i] : i \in 1 .. n}
  BY Zenon DEF Walk
<1>2. c \in Nat \ {0} /\ r \in Nat \ {0} /\ n \in Nat \ {0}
  <2>1. c \in Nat \ {0} /\ r \in Nat \ {0}
    BY DEF CutInto
  <2>2. n \in Nat /\ n # 0
    BY <2>1
  <2>. QED  BY <2>1, <2>2
<1>3. \A f, i : i \in 1 .. n => Step(f)[i] = Swatch(Place(f, i))
  OBVIOUS
<1>4. ASSUME NEW f, NEW i \in 1 .. n, i # 1 => f[i - 1] = At(i - 1)
      PROVE  Swatch(Place(f, i)) = At(i)
  <2>. DEFINE a == (i - 1) % c
              b == (i - 1) \div c
              x == a * s[1]
              y == b * s[2]
  <2>1. At(i) = Swatch(<<x, y>>)
    BY DEF SwatchAt
  <2>2. Place(f, i) = <<x, y>>
    <3>1. CASE i = 1
      <4>1. 0 % c = 0 /\ 0 \div c = 0
        BY <1>2
      <4>2. s[1] \in Nat /\ s[2] \in Nat /\ 0 * s[1] = 0 /\ 0 * s[2] = 0
        BY DEF CutInto
      <4>3. a = 0 /\ b = 0
        BY <3>1, <4>1
      <4>. HIDE DEF a, b
      <4>. QED  BY <3>1, <4>2, <4>3
    <3>2. CASE i # 1
      <4>. DEFINE u == (i - 2) % c
                  v == (i - 2) \div c
                  q == At(i - 1)
      <4>0. i - 1 \in 1 .. n /\ i > 1 /\ (i - 1) - 1 = i - 2
        BY <1>2, <3>2
      <4>1. /\ u \in 0 .. c - 1 /\ v \in 0 .. r - 1
            /\ a \in 0 .. c - 1 /\ b \in 0 .. r - 1
            /\ IF u = c - 1 THEN a = 0 /\ b = v + 1 /\ v < r - 1 ELSE a = u + 1 /\ b = v
        <5>1. i - 1 \in 1 .. c * r /\ i \in 1 .. c * r
          BY <4>0
        <5>2. ((i - 1) - 1) % c \in 0 .. c - 1 /\ ((i - 1) - 1) \div c \in 0 .. r - 1
          BY <1>2, <5>1, NextInRow
        <5>. QED  BY <1>2, <4>0, <5>1, <5>2, NextInRow
      <4>2. /\ q.x = u * s[1] /\ q.w = EffectiveDimension(w, s[1], u * s[1])
            /\ q.y = v * s[2] /\ q.h = EffectiveDimension(h, s[2], v * s[2])
        BY <4>0 DEF SwatchAt
      <4>3. /\ u < c - 1 => q.x + q.w = (u + 1) * s[1] /\ q.x + q.w < w
            /\ u = c - 1 => q.x + q.w = w
            /\ q.x + q.w \in Int /\ w \in Nat
        <5>1. w \in Nat
          BY DEF CutInto
        <5>. HIDE DEF u, q
        <5>2. q.x \in Nat /\ q.w \in Nat
          BY <4>1, <4>2, Parts
        <5>. QED  BY <4>1, <4>2, <5>1, <5>2, Parts
      <4>4. v < r - 1 => q.y + q.h = (v + 1) * s[2]
        <5>. HIDE DEF v, q
        <5>. QED  BY <4>1, <4>2, Parts
      <4>5. Place(f, i) = IF q.x + q.w >= w THEN <<0, q.y + q.h>> ELSE <<q.x + q.w, q.y>>
        BY <1>4, <3>2
      <4>. HIDE DEF a, b, u, v, q, Place
      <4>6. CASE u = c - 1
        <5>1. 0 * s[1] = 0
          BY DEF CutInto
        <5>2. Place(f, i) = <<0, q.y + q.h>>
          BY <4>3, <4>5, <4>6
        <5>. QED  BY <4>1, <4>4, <4>6, <5>1, <5>2
      <4>7. CASE u # c - 1
        <5>1. u < c - 1
          BY <1>2, <4>1, <4>7
        <5>2. Place(f, i) = <<q.x + q.w, q.y>>
          BY <4>3, <4>5, <5>1
        <5>. QED  BY <4>1, <4>2, <4>3, <4>7, <5>1, <5>2
      <4>. QED  BY <4>6, <4>7
    <3>. QED  BY <3>1, <3>2
  <2>. HIDE DEF Place, Swatch, At, x, y
  <2>. QED  BY <2>1, <2>2
<1>. HIDE DEF Swatch, Place, At
<1>5. all = Step(all)
  <2>1. ASSUME NEW i \in 1 .. n PROVE Step(all)[i] = At(i)
    <3>1. i # 1 => all[i - 1] = At(i - 1)
      <4>1. i # 1 => i - 1 \in 1 .. n
        BY <1>2
      <4>. QED  BY <4>1
    <3>2. Swatch(Place(all, i)) = At(i)
      <4>. HIDE DEF all
      <4>. QED  BY <1>4, <3>1
    <3>. HIDE DEF Step, all
    <3>. QED  BY <1>3, <3>2
  <2>2. \A f : Step(f) = [i \in 1 .. n |-> Step(f)[i]]
    OBVIOUS
  <2>. HIDE DEF Step
  <2>. QED  BY <2>1, <2>2
<1>6. step = Step(step)
  <2>. HIDE DEF Step, all
  <2>. QED  BY <1>5
<1>. HIDE DEF step, all
<1>7. \A i \in 1 .. n : step[i] = At(i)
  <2>. DEFINE T == {i \in Nat : i + 1 \in 1 .. n => step[i + 1] = At(i + 1)}
  <2>1. \A i \in 1 .. n : step[i] = Swatch(Place(step, i))
    <3>. HIDE DEF Step
    <3>. QED  BY <1>3, <1>6
  <2>2. 0 \in T
    <3>1. 1 \in 1 .. n => step[1] = At(1)
      <4>. SUFFICES ASSUME 1 \in 1 .. n PROVE step[1] = At(1)
        OBVIOUS
      <4>1. Swatch(Place(step, 1)) = At(1)
        BY <1>4
      <4>. QED  BY <2>1, <4>1
    <3>. QED  BY <3>1
  <2>3. ASSUME NEW i \in Nat, i \in T PROVE i + 1 \in T
    <3>. SUFFICES ASSUME (i + 1) + 1 \in 1 .. n PROVE step[(i + 1) + 1] = At((i + 1) + 1)
      OBVIOUS
    <3>. DEFINE k == (i + 1) + 1
    <3>1. i + 1 \in 1 .. n /\ k \in 1 .. n /\ k - 1 = i + 1
      BY <1>2
    <3>2. step[k - 1] = At(k - 1)
      BY <2>3, <3>1
    <3>. HIDE DEF k
    <3>3. Swatch(Place(step, k)) = At(k)
      BY <1>4, <3>1, <3>2
    <3>4. step[k] = At(k)
      BY <2>1, <3>1, <3>3
    <3>. QED  BY <3>4 DEF k
  <2>4. \A i \in Nat : i \in T
    <3>. HIDE DEF T
    <3>. QED  BY <2>2, <2>3, Inductive
  <2>5. ASSUME NEW i \in 1 .. n PROVE step[i] = At(i)
    <3>1. i - 1 \in Nat /\ (i - 1) + 1 = i
      BY <1>2
    <3>2. i - 1 \in T
      BY <2>4, <3>1
    <3>. QED  BY <3>1, <3>2
  <2>. QED  BY <2>5
<1>. HIDE DEF n
<1>8. Walk(w, h, s, n) = {At(i) : i \in 1 .. n}
  BY <1>1, <1>7
<1>. QED  BY <1>8 DEF n, At

(* So each cell of the map is in one swatch.                               *)
LEMMA WalkCovers ==
  ASSUME NEW w, NEW h, NEW s, NEW c, NEW r, CutInto(w, c, s[1]), CutInto(h, r, s[2])
  PROVE  Covers(Walk(w, h, s, c * r), w, h)
<1>. DEFINE n == c * r
            At(i) == SwatchAt(w, h, s, c, i)
            In(x, y, t) == x \in t.x .. t.x + t.w - 1 /\ y \in t.y .. t.y + t.h - 1
            InX(x, a) == x \in a * s[1] .. a * s[1] + EffectiveDimension(w, s[1], a * s[1]) - 1
            InY(y, b) == y \in b * s[2] .. b * s[2] + EffectiveDimension(h, s[2], b * s[2]) - 1
<1>1. Walk(w, h, s, n) = {At(i) : i \in 1 .. n}
  BY WalkIs
<1>2. c \in Nat \ {0} /\ r \in Nat \ {0} /\ n \in Nat
  <2>1. c \in Nat \ {0} /\ r \in Nat \ {0}
    BY DEF CutInto
  <2>. QED  BY <2>1
<1>3. \A i \in 1 .. n : /\ (i - 1) % c \in 0 .. c - 1 /\ (i - 1) \div c \in 0 .. r - 1
                        /\ i = c * ((i - 1) \div c) + ((i - 1) % c) + 1
  BY <1>2, NextInRow
<1>4. \A x, y : \A i \in 1 .. n :
         In(x, y, At(i)) <=> InX(x, (i - 1) % c) /\ InY(y, (i - 1) \div c)
  BY DEF SwatchAt
<1>5. ASSUME NEW x \in 0 .. w - 1, NEW y \in 0 .. h - 1
      PROVE  Cardinality({t \in Walk(w, h, s, n) : In(x, y, t)}) = 1
  <2>1. PICK a \in 0 .. c - 1 : \A i \in 0 .. c - 1 : InX(x, i) <=> i = a
    BY OnePart
  <2>2. PICK b \in 0 .. r - 1 : \A i \in 0 .. r - 1 : InY(y, i) <=> i = b
    BY OnePart
  <2>. DEFINE k == c * b + a + 1
  <2>3. k \in 1 .. n /\ (k - 1) % c = a /\ (k - 1) \div c = b
    <3>1. c * b \in Nat /\ c * (r - 1 - b) \in Nat /\ c * (r - 1 - b) = n - c - c * b
      <4>1. r - 1 - b \in Nat /\ b \in Nat
        BY <1>2
      <4>. QED  BY <1>2, <4>1
    <3>2. k - 1 = c * b + a /\ k \in 1 .. n
      BY <1>2, <3>1
    <3>3. (c * b + a) % c = a /\ (c * b + a) \div c = b
      <4>1. b \in Int
        BY <1>2
      <4>. QED  BY <1>2, <4>1, Indexed
    <3>. QED  BY <3>2, <3>3
  <2>. HIDE DEF n, At, In, InX, InY
  <2>4. \A i \in 1 .. n : In(x, y, At(i)) <=> i = k
    <3>1. ASSUME NEW i \in 1 .. n PROVE In(x, y, At(i)) <=> i = k
      <4>1. In(x, y, At(i)) <=> (i - 1) % c = a /\ (i - 1) \div c = b
        BY <1>3, <1>4, <2>1, <2>2
      <4>2. (i - 1) % c = a /\ (i - 1) \div c = b => i = k
        BY <1>3
      <4>. HIDE DEF k
      <4>. QED  BY <2>3, <4>1, <4>2
    <3>. QED  BY <3>1
  <2>. HIDE DEF k
  <2>5. {t \in Walk(w, h, s, n) : In(x, y, t)} = {At(k)}
    BY <1>1, <2>3, <2>4
  <2>. QED  BY <2>5, FS_Singleton
<1>. QED  BY <1>5 DEF Covers

(* The swatches after some halvings, as long as none of them is too small. *)
Halvings(w, h, s, i) ==
  \E c, r \in Nat \ {0} :
    /\ c * r = 2 ^ i
    /\ CutInto(w, c, s[1]) /\ c <= s[1] /\ w < c * s[1] + c
    /\ CutInto(h, r, s[2]) /\ r <= s[2] /\ h < r * s[2] + r

LEMMA HalfOf ==
  ASSUME NEW m, NEW c \in 1 .. 4, NEW s, CutInto(m, c, s), m < c * s + c, s >= 17
  PROVE  CutInto(m, 2 * c, s \div 2) /\ 2 * c <= s \div 2 /\ m < (2 * c) * (s \div 2) + 2 * c
<1>. DEFINE u == s \div 2
            v == s % 2
<1>1. m \in Nat /\ s \in Nat /\ c * s <= m
  BY DEF CutInto
<1>2. u \in Nat /\ v \in 0 .. 1 /\ s = 2 * u + v
  BY <1>1
<1>. HIDE DEF u, v
<1>3. u >= 8
  BY <1>2
<1>4. c * s = (2 * c) * u + c * v /\ (2 * c) * u \in Nat /\ c * v \in 0 .. c
  <2>1. c \in Nat
    OBVIOUS
  <2>2. c * s = (2 * c) * u + c * v /\ (2 * c) * u \in Nat
    BY <1>2, <2>1
  <2>3. v = 0 \/ v = 1
    BY <1>2
  <2>. QED  BY <2>1, <2>2, <2>3
<1>. DEFINE p == (2 * c) * u
<1>. HIDE DEF p
<1>5. p <= m /\ m < p + 2 * c /\ m < p + u /\ 2 * c <= u /\ p \in Nat
  <2>. DEFINE e == c * v
              g == c * s
  <2>1. e \in 0 .. c /\ g = p + e /\ p \in Nat /\ g <= m /\ m < g + c
    BY <1>1, <1>4 DEF p
  <2>. HIDE DEF e, g
  <2>. QED  BY <1>1, <1>2, <1>3, <2>1
<1>6. 2 * c \in Nat \ {0} /\ u \in Nat \ {0}
  BY <1>2, <1>3
<1>. QED  BY <1>1, <1>5, <1>6 DEF CutInto, p, u

(* Textures that are too large are halved along the larger side.           *)
LEMMA HalvedOnce ==
  ASSUME NEW w, NEW h, NEW s, NEW i \in 0 .. 2, Halvings(w, h, s, i),
         \E t \in Walk(w, h, s, 2 ^ i) : ~ TextureFits(t)
  PROVE  Halvings(w, h, Halved(s), i + 1)
<1>1. PICK c \in Nat \ {0}, r \in Nat \ {0} :
        /\ c * r = 2 ^ i
        /\ CutInto(w, c, s[1]) /\ c <= s[1] /\ w < c * s[1] + c
        /\ CutInto(h, r, s[2]) /\ r <= s[2] /\ h < r * s[2] + r
  BY DEF Halvings
<1>2. 2 ^ i \in 1 .. 4
  <2>1. 2 ^ 0 = 1 /\ 2 ^ 1 = 2 /\ 2 ^ 2 = 4
    OBVIOUS
  <2>2. i = 0 \/ i = 1 \/ i = 2
    OBVIOUS
  <2>3. 1 \in 1 .. 4 /\ 2 \in 1 .. 4 /\ 4 \in 1 .. 4
    OBVIOUS
  <2>. QED  BY <2>1, <2>2, <2>3, Zenon
<1>3. c \in 1 .. 4 /\ r \in 1 .. 4
  <2>1. c * r = c + c * (r - 1) /\ c * (r - 1) \in Nat
    BY <1>1
  <2>2. c * r = r + r * (c - 1) /\ r * (c - 1) \in Nat
    BY <1>1
  <2>. QED  BY <1>1, <1>2, <2>1, <2>2
<1>4. 2 ^ (i + 1) = 2 * (c * r)
  <2>1. i \in Nat
    OBVIOUS
  <2>. QED  BY <1>1, <2>1, PowerDoubles
<1>5. s[1] \in Nat /\ s[2] \in Nat
  BY <1>1 DEF CutInto
<1>6. s[1] >= 17 \/ s[2] >= 17
  <2>1. PICK k \in 1 .. c * r : ~ TextureFits(SwatchAt(w, h, s, c, k))
    BY <1>1, WalkIs
  <2>. DEFINE a == (k - 1) % c
              b == (k - 1) \div c
              lenw == EffectiveDimension(w, s[1], a * s[1])
              lenh == EffectiveDimension(h, s[2], b * s[2])
  <2>2. a \in 0 .. c - 1 /\ b \in 0 .. r - 1
    BY <1>1, NextInRow
  <2>3. ~ (lenw <= MaxTexture /\ lenh <= MaxTexture)
    BY <2>1 DEF TextureFits, SwatchAt
  <2>. HIDE DEF a, b
  <2>4. lenw \in Nat /\ lenw < 2 * s[1] /\ lenh \in Nat /\ lenh < 2 * s[2]
    BY <1>1, <2>2, Parts
  <2>. HIDE DEF lenw, lenh
  <2>. QED  BY <1>5, <2>3, <2>4, TextureAssumption
<1>7. CASE s[1] > s[2]
  <2>1. s[1] >= 17
    BY <1>5, <1>6, <1>7
  <2>. DEFINE z == s[1] \div 2
  <2>2. CutInto(w, 2 * c, z) /\ 2 * c <= z /\ w < (2 * c) * z + 2 * c
    BY <1>1, <1>3, <2>1, HalfOf
  <2>3. Halved(s) = <<z, s[2]>>
    BY <1>7 DEF Halved
  <2>4. (2 * c) * r = 2 ^ (i + 1) /\ 2 * c \in Nat \ {0}
    <3>1. (2 * c) * r = 2 * (c * r) /\ 2 * c \in Nat \ {0}
      BY <1>1
    <3>. QED  BY <1>4, <3>1
  <2>. HIDE DEF z
  <2>5. Halved(s)[1] = z /\ Halved(s)[2] = s[2]
    BY <2>3
  <2>. QED  BY <1>1, <2>2, <2>4, <2>5 DEF Halvings
<1>8. CASE ~ (s[1] > s[2])
  <2>1. s[2] >= 17
    BY <1>5, <1>6, <1>8
  <2>. DEFINE z == s[2] \div 2
  <2>2. CutInto(h, 2 * r, z) /\ 2 * r <= z /\ h < (2 * r) * z + 2 * r
    BY <1>1, <1>3, <2>1, HalfOf
  <2>3. Halved(s) = <<s[1], z>>
    BY <1>8 DEF Halved
  <2>4. c * (2 * r) = 2 ^ (i + 1) /\ 2 * r \in Nat \ {0}
    <3>1. c * (2 * r) = 2 * (c * r) /\ 2 * r \in Nat \ {0}
      BY <1>1
    <3>. QED  BY <1>4, <3>1
  <2>. HIDE DEF z
  <2>5. Halved(s)[1] = s[1] /\ Halved(s)[2] = z
    BY <2>3
  <2>. QED  BY <1>1, <2>2, <2>4, <2>5 DEF Halvings
<1>. QED  BY <1>7, <1>8

(* createSwatches covers a map of any size, if it finds a size that fits.  *)
LEMMA SwatchesCover ==
  ASSUME NEW w \in Nat \ {0}, NEW h \in Nat \ {0}, Swatches(w, h) # {}
  PROVE  Covers(Swatches(w, h), w, h)
<1>. DEFINE Step(f) == [i \in 0 .. 3 |-> IF i = 0 THEN <<w, h>> ELSE Halved(f[i - 1])]
            size == CHOOSE f : f = Step(f)
            fits == {i \in 0 .. 3 : \A t \in Walk(w, h, size[i], 2 ^ i) : TextureFits(t)}
            k == Min(fits)
<1>1. Swatches(w, h) = IF fits = {} THEN {} ELSE Walk(w, h, size[k], 2 ^ k)
  BY Zenon DEF Swatches
<1>2. size = Step(size)
  <2>. DEFINE one == Halved(<<w, h>>)
              two == Halved(one)
              three == Halved(two)
              f == [i \in 0 .. 3 |-> IF i = 0 THEN <<w, h>> ELSE IF i = 1 THEN one
                                     ELSE IF i = 2 THEN two ELSE three]
  <2>1. ASSUME NEW i \in 0 .. 3 PROVE f[i] = Step(f)[i]
    <3>1. f[0] = <<w, h>> /\ f[1] = one /\ f[2] = two /\ f[3] = three
      BY Zenon, SMT
    <3>2. i = 0 \/ i = 1 \/ i = 2 \/ i = 3
      OBVIOUS
    <3>3. Step(f)[i] = IF i = 0 THEN <<w, h>> ELSE Halved(f[i - 1])
      OBVIOUS
    <3>4. 1 - 1 = 0 /\ 2 - 1 = 1 /\ 3 - 1 = 2
      OBVIOUS
    <3>. HIDE DEF f, Step
    <3>. QED  BY <3>1, <3>2, <3>3, <3>4
  <2>2. f = Step(f)
    <3>1. f = [i \in 0 .. 3 |-> f[i]]
      OBVIOUS
    <3>2. Step(f) = [i \in 0 .. 3 |-> Step(f)[i]]
      OBVIOUS
    <3>. HIDE DEF f, Step
    <3>. QED  BY <2>1, <3>1, <3>2
  <2>. HIDE DEF f, Step
  <2>. QED  BY <2>2
<1>. HIDE DEF size
<1>3. size[0] = <<w, h>> /\ \A i \in 0 .. 2 : size[i + 1] = Halved(size[i])
  <2>1. size[0] = <<w, h>>
    BY <1>2
  <2>2. ASSUME NEW i \in 0 .. 2 PROVE size[i + 1] = Halved(size[i])
    <3>1. i + 1 \in 0 .. 3 /\ i + 1 # 0 /\ (i + 1) - 1 = i
      OBVIOUS
    <3>. QED  BY <1>2, <3>1
  <2>. QED  BY <2>1, <2>2
<1>4. fits # {} /\ k \in fits /\ \A i \in fits : k <= i
  <2>1. fits # {} /\ fits \subseteq 0 .. 3 /\ 0 \in Int /\ 3 \in Int
    BY <1>1
  <2>. HIDE DEF fits
  <2>. QED  BY <2>1, LeastAndGreatest
<1>5. Halvings(w, h, size[0], 0)
  <2>1. 2 ^ 0 = 1 /\ 1 * 1 = 1 /\ 1 * w = w /\ 1 * h = h
    OBVIOUS
  <2>2. CutInto(w, 1, w) /\ CutInto(h, 1, h)
    BY <2>1 DEF CutInto
  <2>3. size[0][1] = w /\ size[0][2] = h
    BY <1>3
  <2>4. 1 <= w /\ 1 <= h /\ w < 1 * w + 1 /\ h < 1 * h + 1
    BY <2>1
  <2>. QED  BY <2>1, <2>2, <2>3, <2>4 DEF Halvings
<1>6. k \in 0 .. 3 /\ \A i \in 0 .. 2 : i < k => i \notin fits
  <2>1. k \in 0 .. 3
    BY <1>4
  <2>. HIDE DEF k, fits
  <2>. QED  BY <1>4, <2>1
<1>7. \A i \in 0 .. 2 : i < k /\ Halvings(w, h, size[i], i) => Halvings(w, h, size[i + 1], i + 1)
  <2>1. ASSUME NEW i \in 0 .. 2, i < k
        PROVE  \E t \in Walk(w, h, size[i], 2 ^ i) : ~ TextureFits(t)
    <3>1. i \in 0 .. 3 /\ i \notin fits
      <4>. HIDE DEF fits, k
      <4>. QED  BY <1>6, <2>1
    <3>. QED  BY <3>1
  <2>. QED  BY <1>3, <2>1, HalvedOnce
<1>8. Halvings(w, h, size[k], k)
  <2>. HIDE DEF k
  <2>1. 0 + 1 = 1 /\ 1 + 1 = 2 /\ 2 + 1 = 3
    OBVIOUS
  <2>2. k > 0 => Halvings(w, h, size[1], 1)
    BY <1>5, <1>7, <2>1
  <2>3. k > 1 => Halvings(w, h, size[2], 2)
    BY <1>6, <1>7, <2>1, <2>2
  <2>4. k > 2 => Halvings(w, h, size[3], 3)
    BY <1>6, <1>7, <2>1, <2>3
  <2>5. k = 0 \/ k = 1 \/ k = 2 \/ k = 3
    BY <1>6
  <2>. QED  BY <1>5, <2>2, <2>3, <2>4, <2>5
<1>9. Covers(Walk(w, h, size[k], 2 ^ k), w, h)
  <2>. HIDE DEF k
  <2>. QED  BY <1>8, WalkCovers DEF Halvings
<1>. QED  BY <1>1, <1>4, <1>9
------------------------------------------------------------------------------
(* What a map is, and what is on display of it.                            *)
IsMap(g) ==
  /\ g = [x0 |-> g.x0, y0 |-> g.y0, width |-> g.width, height |-> g.height, res |-> g.res,
          data |-> g.data]
  /\ g.width \in Nat \ {0} /\ g.height \in Nat \ {0} /\ g.res \in Nat \ {0}

PictureInv ==
  /\ octree_depth_ \in 0 .. Depth
  /\ shown_size_ = NoSize => swatches_ = {}
  /\ loaded_ =>
       /\ IsMap(current_map_)
       /\ shown_size_ = SizeOf(current_map_)
       /\ swatches_ = Swatches(current_map_.width, current_map_.height)
       /\ swatches_ # {} => texture = current_map_
       /\ hidden \/ place = <<current_map_.x0, current_map_.y0>>
  /\ ~ loaded_ => shown_size_ = NoSize

(* The tree has a lowest voxel and an extent.                              *)
LEMMA LowestIs ==
  ASSUME NEW t, TreeOK(t), NEW i \in 1 .. 3
  PROVE  /\ LowestOf(t, i) \in Nat /\ ExtentOf(t, i) \in Nat
         /\ \A k \in DOMAIN t : LowestOf(t, i) <= k[i] /\ k[i] < LowestOf(t, i) + ExtentOf(t, i)
<1>. DEFINE C == {k[i] : k \in DOMAIN t}
<1>1. Side \in Nat \ {0} /\ Zero \in Nat
  BY Widths
<1>2. \A k \in DOMAIN t : k[i] \in 0 .. Side - 1
  BY <1>1, KeysAreVoxels, VoxelIs DEF TreeOK
<1>3. CASE DOMAIN t = {}
  BY <1>1, <1>3 DEF LowestOf, ExtentOf
<1>4. CASE DOMAIN t # {}
  <2>1. C \subseteq 0 .. Side - 1 /\ C # {} /\ 0 \in Int /\ Side - 1 \in Int
    BY <1>1, <1>2, <1>4
  <2>2. /\ Min(C) \in C /\ \A n \in C : Min(C) <= n
        /\ Max(C) \in C /\ \A n \in C : Max(C) >= n
    <3>. HIDE DEF C
    <3>. QED  BY <2>1, LeastAndGreatest
  <2>3. LowestOf(t, i) = Min(C) /\ ExtentOf(t, i) = Max(C) + 1 - Min(C)
    BY <1>4 DEF LowestOf, ExtentOf
  <2>4. \A k \in DOMAIN t : k[i] \in C
    OBVIOUS
  <2>. HIDE DEF C
  <2>5. Min(C) \in 0 .. Side - 1 /\ Max(C) \in 0 .. Side - 1 /\ Min(C) <= Max(C)
    BY <2>1, <2>2
  <2>6. LowestOf(t, i) \in Nat /\ ExtentOf(t, i) \in Nat
    BY <1>1, <2>3, <2>5
  <2>7. ASSUME NEW k \in DOMAIN t
        PROVE  LowestOf(t, i) <= k[i] /\ k[i] < LowestOf(t, i) + ExtentOf(t, i)
    <3>1. Min(C) <= k[i] /\ Max(C) >= k[i] /\ k[i] \in Int
      BY <1>2, <2>2, <2>4
    <3>. QED  BY <1>1, <2>3, <2>5, <3>1
  <2>. QED  BY <2>6, <2>7
<1>. QED  BY <1>3, <1>4

LEMMA MapIs ==
  ASSUME NEW t, TreeOK(t), NEW m \in 0 .. Depth
  PROVE  /\ IsMap(MapOf(t, m))
         /\ MapOf(t, m).width = ExtentOf(t, 1) \div WidthAt(m) + 1
         /\ MapOf(t, m).height = ExtentOf(t, 2) \div WidthAt(m) + 1
         /\ MapOf(t, m).res = WidthAt(m)
         /\ MapOf(t, m).x0 = LowestOf(t, 1) - 1 + WidthAt(m)
         /\ MapOf(t, m).y0 = LowestOf(t, 2) - 1
<1>. DEFINE w == ExtentOf(t, 1) \div WidthAt(m) + 1
            h == ExtentOf(t, 2) \div WidthAt(m) + 1
            occ == UNION {CellsUnder(t, n, m, w) : n \in {l \in Leaves(t, m) : Occupied(LeafValue(t, l))}}
            all == UNION {CellsUnder(t, n, m, w) : n \in Leaves(t, m)}
            data == [i \in 0 .. w * h - 1 |->
                       IF i \in occ THEN 100 ELSE IF i \in all THEN 0 ELSE -1]
<1>1. MapOf(t, m) = [x0 |-> LowestOf(t, 1) - 1 + WidthAt(m), y0 |-> LowestOf(t, 2) - 1,
                     width |-> w, height |-> h, res |-> WidthAt(m), data |-> data]
  BY DEF MapOf
<1>. HIDE DEF data
<1>2. w \in Nat \ {0} /\ h \in Nat \ {0} /\ WidthAt(m) \in Nat \ {0}
  <2>1. ExtentOf(t, 1) \in Nat /\ ExtentOf(t, 2) \in Nat /\ WidthAt(m) \in Nat \ {0}
    BY LowestIs, Widths
  <2>2. \A e \in Nat, v \in Nat \ {0} : e \div v \in Nat
    OBVIOUS
  <2>3. ExtentOf(t, 1) \div WidthAt(m) \in Nat /\ ExtentOf(t, 2) \div WidthAt(m) \in Nat
    BY <2>1, <2>2
  <2>. QED  BY <2>1, <2>3
<1>. HIDE DEF w, h
<1>. QED  BY <1>1, <1>2 DEF IsMap, w, h

(* What showMap leaves on display, for a map of any size.                  *)
LEMMA MapShown ==
  ASSUME NEW g, IsMap(g), PictureInv, NEW transformed \in BOOLEAN, ShowMap(g, transformed),
         \/ shown_size_ = NoSize
         \/ shown_size_ = SizeOf(g) => swatches_ = Swatches(g.width, g.height)
  PROVE  /\ shown_size_' = SizeOf(g) /\ shown_size_' # NoSize
         /\ swatches_' = Swatches(g.width, g.height)
         /\ swatches_' # {} => texture' = g
         /\ hidden' \/ place' = <<g.x0, g.y0>>
<1>1. SizeOf(g) # NoSize
  BY DEF IsMap, SizeOf, NoSize
<1>2. swatches_' = Swatches(g.width, g.height)
  BY <1>1 DEF ShowMap
<1>3. hidden' \/ place' = <<g.x0, g.y0>>
  BY DEF ShowMap
<1>. QED  BY <1>1, <1>2, <1>3 DEF ShowMap

LEMMA SizeShown ==
  ASSUME PictureInv, NEW g
  PROVE  \/ shown_size_ = NoSize
         \/ shown_size_ = SizeOf(g) => swatches_ = Swatches(g.width, g.height)
<1>. SUFFICES ASSUME loaded_, shown_size_ = SizeOf(g)
              PROVE  swatches_ = Swatches(g.width, g.height)
  BY DEF PictureInv
<1>1. SizeOf(g) = SizeOf(current_map_)
  BY DEF PictureInv
<1>2. g.width = current_map_.width /\ g.height = current_map_.height
  BY <1>1 DEF SizeOf
<1>. QED  BY <1>2 DEF PictureInv

LEMMA ClearedAway ==
  ASSUME PictureInv, ClearMap, UNCHANGED octree_depth_
  PROVE  PictureInv'
BY DEF PictureInv, ClearMap

LEMMA PictureInvKept == TopicInv /\ PictureInv /\ [DisplaysNext]_dvars => PictureInv'
<1>. SUFFICES ASSUME TopicInv, PictureInv, [DisplaysNext]_dvars PROVE PictureInv'
  OBVIOUS
<1>1. CASE UNCHANGED map_display_vars
  BY <1>1 DEF map_display_vars, picture_vars, PictureInv, IsMap
<1>2. CASE ProcessMapMessage
  <2>1. Head(taken) \in Messages
    BY <1>2, TakenKept DEF ProcessMapMessage
  <2>2. CASE Head(taken).id # "OcTree"
    BY <1>1, <1>2, <2>2 DEF ProcessMapMessage
  <2>3. CASE Head(taken).id = "OcTree"
    <3>. DEFINE g == MapOf(Head(taken).tree, octree_depth_)
    <3>1. IsMap(g)
      BY <2>1, MessagesAssumption, MapIs DEF TreeOK, PictureInv
    <3>2. /\ current_map_' = g /\ loaded_' = TRUE /\ octree_depth_' = octree_depth_
          /\ \E transformed \in BOOLEAN : ShowMap(current_map_', transformed)
      BY <1>2, <2>3 DEF ProcessMapMessage
    <3>. HIDE DEF g
    <3>3. PICK transformed \in BOOLEAN : ShowMap(g, transformed)
      BY <3>2
    <3>4. /\ shown_size_' = SizeOf(g) /\ shown_size_' # NoSize
          /\ swatches_' = Swatches(g.width, g.height)
          /\ swatches_' # {} => texture' = g
          /\ hidden' \/ place' = <<g.x0, g.y0>>
      BY <3>1, <3>3, MapShown, SizeShown
    <3>. QED  BY <3>1, <3>2, <3>4 DEF PictureInv
  <2>. QED  BY <2>2, <2>3
<1>3. ASSUME NEW u \in Updates, IncomingUpdate(u) PROVE PictureInv'
  <2>1. CASE ~loaded_ \/ OutOfBounds(u, current_map_)
    BY <1>1, <1>3, <2>1 DEF IncomingUpdate
  <2>2. CASE ~ (~loaded_ \/ OutOfBounds(u, current_map_))
    <3>. DEFINE g == WithUpdate(current_map_, u)
    <3>1. IsMap(g)
      <4>1. IsMap(current_map_)
        BY <2>2 DEF PictureInv
      <4>2. PICK d : g = [current_map_ EXCEPT !.data = d]
        BY DEF WithUpdate
      <4>. HIDE DEF g
      <4>. QED  BY <4>1, <4>2 DEF IsMap
    <3>2. /\ current_map_' = g /\ loaded_' = loaded_ /\ octree_depth_' = octree_depth_
          /\ \E transformed \in BOOLEAN : ShowMap(current_map_', transformed)
      BY <1>3, <2>2 DEF IncomingUpdate
    <3>. HIDE DEF g
    <3>3. PICK transformed \in BOOLEAN : ShowMap(g, transformed)
      BY <3>2
    <3>4. /\ shown_size_' = SizeOf(g) /\ shown_size_' # NoSize
          /\ swatches_' = Swatches(g.width, g.height)
          /\ swatches_' # {} => texture' = g
          /\ hidden' \/ place' = <<g.x0, g.y0>>
      BY <3>1, <3>3, MapShown, SizeShown
    <3>. QED  BY <2>2, <3>1, <3>2, <3>4 DEF PictureInv
  <2>. QED  BY <2>1, <2>2
<1>4. CASE UpdateMapDisplay
  BY <1>4 DEF UpdateMapDisplay, TransformMap, PictureInv, IsMap
<1>5. ASSUME NEW m \in MapDepths, UpdateMapDepth(m) PROVE PictureInv'
  BY <1>5, MapDepthsAssumption, Widths DEF UpdateMapDepth, picture_vars, PictureInv, IsMap
<1>6. ASSUME NEW on \in BOOLEAN, EnableMapDisplay(on) PROVE PictureInv'
  BY <1>6, ClearedAway DEF EnableMapDisplay, picture_vars, PictureInv, IsMap
<1>7. CASE ResetMapDisplay
  BY <1>7, ClearedAway DEF ResetMapDisplay
<1>8. CASE MapDisplayNext
  BY <1>1, <1>2, <1>3, <1>4, <1>5, <1>6, <1>7, <1>8 DEF MapDisplayNext
<1>. QED  BY <1>1, <1>8 DEF DisplaysNext, dvars

LEMMA PictureInvInit == DisplaysInit => PictureInv
BY Widths DEF DisplaysInit, MapDisplayInit, PictureInv

LEMMA DisplaysInvAlways == DisplaysSpec => [](TopicInv /\ VoxelsInv /\ PictureInv)
<1>. QED  BY VoxelsInvInit, VoxelsInvKept, PictureInvInit, PictureInvKept, PTL DEF DisplaysSpec

(* The picture is that of current_map_, its swatches cover each cell of it *)
(* once and it is in its place or hidden (showMap, createSwatches,         *)
(* incomingUpdate, update), for maps of any size and any graphics card     *)
(* that takes the smallest textures OpenGL asks for.                       *)
THEOREM PictureIsAlwaysCurrent == DisplaysSpec => []PictureIsCurrent
<1>1. PictureInv => PictureIsCurrent
  <2>. SUFFICES ASSUME PictureInv, loaded_, swatches_ # {} PROVE PictureIsCurrent
    BY DEF PictureIsCurrent
  <2>1. Covers(swatches_, current_map_.width, current_map_.height)
    BY SwatchesCover DEF PictureInv, IsMap
  <2>. QED  BY <2>1 DEF PictureInv, PictureIsCurrent
<1>. QED  BY <1>1, DisplaysInvAlways, PTL

(* The column or row of a voxel, and its cell.                             *)
Along(t, m, i, k) == Max({0, Corner(k, m)[i] - LowestOf(t, i)}) \div WidthAt(m)
CellAt(t, m, k) == MapOf(t, m).width * Along(t, m, 2, k) + Along(t, m, 1, k)

(* Along an axis the cell is in the map, and at most two cells away from   *)
(* the voxel, wherever the first cell is put.                              *)
LEMMA AlongAxis ==
  ASSUME NEW t, TreeOK(t), NEW m \in 0 .. Depth, NEW k \in DOMAIN t, NEW i \in 1 .. 3,
         NEW p \in {LowestOf(t, i) - 1, LowestOf(t, i) - 1 + WidthAt(m)}
  PROVE  /\ Along(t, m, i, k) \in 0 .. ExtentOf(t, i) \div WidthAt(m)
         /\ Max({p + Along(t, m, i, k) * WidthAt(m) - k[i],
                 k[i] - p - Along(t, m, i, k) * WidthAt(m)}) <= 2 * WidthAt(m)
<1>. DEFINE v == WidthAt(m)
            low == LowestOf(t, i)
            e == ExtentOf(t, i)
            c == Corner(k, m)[i]
            x == k[i]
            z == Max({0, c - low})
            q == z \div v
<1>1. v \in Nat \ {0} /\ low \in Nat /\ e \in Nat /\ low <= x /\ x < low + e
  BY LowestIs, Widths
<1>2. k \in Voxels
  BY KeysAreVoxels DEF TreeOK
<1>3. c \in Int /\ x \in Int /\ c <= x /\ x < c + v
  BY <1>2, Corners, VoxelIs
<1>. HIDE DEF v, low, e, c, x
<1>4. z = IF 0 <= c - low THEN c - low ELSE 0
  <2>1. 0 \in Int /\ c - low \in Int
    BY <1>1, <1>3
  <2>. QED  BY <2>1, LeastOfTwo
<1>5. z \in Nat /\ z <= x - low /\ x - low < z + v
  BY <1>1, <1>3, <1>4
<1>. HIDE DEF z
<1>6. q \in Int /\ q * v <= z /\ z < q * v + v
  BY <1>1, <1>5, RoundedDown, Quotients
<1>7. q \in Nat
  BY <1>1, <1>5
<1>8. q <= e \div v
  <2>1. z \in Int /\ e \in Int /\ z <= e
    BY <1>1, <1>3, <1>5
  <2>. QED  BY <1>1, <2>1, Quotients
<1>9. e \div v \in Int
  BY <1>1
<1>10. Along(t, m, i, k) = q
  BY DEF Along, q, z, c, low, v
<1>. HIDE DEF q
<1>. DEFINE a == q * v
<1>11. a \in Int /\ a <= z /\ z < a + v
  BY <1>1, <1>6
<1>. HIDE DEF a
<1>12. p \in Int /\ (p = low - 1 \/ p = low - 1 + v)
  BY <1>1 DEF low, v
<1>13. p + a - x <= 2 * v /\ x - p - a <= 2 * v
  BY <1>1, <1>3, <1>5, <1>11, <1>12
<1>14. Max({p + a - x, x - p - a}) <= 2 * v
  <2>. DEFINE one == p + a - x
              two == x - p - a
  <2>1. one \in Int /\ two \in Int /\ one <= 2 * v /\ two <= 2 * v
    BY <1>3, <1>11, <1>12, <1>13
  <2>. HIDE DEF one, two
  <2>2. Max({one, two}) = IF one <= two THEN two ELSE one
    BY <2>1, LeastOfTwo
  <2>3. Max({one, two}) <= 2 * v
    BY <2>1, <2>2
  <2>. QED  BY <2>3 DEF one, two
<1>15. q \in 0 .. e \div v
  BY <1>7, <1>8, <1>9
<1>. QED  BY <1>10, <1>14, <1>15 DEF a, v, e, x

LEMMA CellIs ==
  ASSUME NEW t, TreeOK(t), NEW m \in 0 .. Depth, NEW k \in DOMAIN t
  PROVE  LET g == MapOf(t, m) IN
           /\ CellAt(t, m, k) \in 0 .. g.width * g.height - 1
           /\ Near(g, CellAt(t, m, k), k)
<1>. DEFINE g == MapOf(t, m)
            v == WidthAt(m)
            w == g.width
            h == g.height
            x == Along(t, m, 1, k)
            y == Along(t, m, 2, k)
<1>1. /\ w \in Nat \ {0} /\ h \in Nat \ {0} /\ g.res = v
      /\ g.x0 = LowestOf(t, 1) - 1 + v /\ g.y0 = LowestOf(t, 2) - 1
  BY MapIs DEF IsMap
<1>0. \A i \in 1 .. 3 : \A p \in {LowestOf(t, i) - 1, LowestOf(t, i) - 1 + v} :
        /\ Along(t, m, i, k) \in 0 .. ExtentOf(t, i) \div v
        /\ Max({p + Along(t, m, i, k) * v - k[i], k[i] - p - Along(t, m, i, k) * v}) <= 2 * v
  BY AlongAxis
<1>2. x \in 0 .. w - 1 /\ y \in 0 .. h - 1
  <2>1. /\ x \in 0 .. ExtentOf(t, 1) \div v /\ y \in 0 .. ExtentOf(t, 2) \div v
        /\ w = ExtentOf(t, 1) \div v + 1 /\ h = ExtentOf(t, 2) \div v + 1
    <3>1. \A i \in 1 .. 3 : Along(t, m, i, k) \in 0 .. ExtentOf(t, i) \div v
      BY <1>0, Zenon
    <3>2. 1 \in 1 .. 3 /\ 2 \in 1 .. 3
      OBVIOUS
    <3>3. w = ExtentOf(t, 1) \div v + 1 /\ h = ExtentOf(t, 2) \div v + 1
      BY MapIs
    <3>. QED  BY <3>1, <3>2, <3>3, Zenon
  <2>2. w - 1 = ExtentOf(t, 1) \div v /\ h - 1 = ExtentOf(t, 2) \div v
    <3>1. ExtentOf(t, 1) \div v \in Int /\ ExtentOf(t, 2) \div v \in Int
      <4>1. ExtentOf(t, 1) \in Int /\ ExtentOf(t, 2) \in Int /\ v \in Nat \ {0}
        BY LowestIs, Widths
      <4>. HIDE DEF v
      <4>. QED  BY <4>1, Quotients
    <3>. HIDE DEF w, h, v
    <3>. QED  BY <2>1, <3>1
  <2>. HIDE DEF x, y, w, h, v
  <2>. QED  BY <2>1, <2>2
<1>3. /\ Max({g.x0 + x * v - k[1], k[1] - g.x0 - x * v}) <= 2 * v
      /\ Max({g.y0 + y * v - k[2], k[2] - g.y0 - y * v}) <= 2 * v
  <2>1. /\ g.x0 \in {LowestOf(t, 1) - 1, LowestOf(t, 1) - 1 + v}
        /\ g.y0 \in {LowestOf(t, 2) - 1, LowestOf(t, 2) - 1 + v}
    BY <1>1
  <2>2. 1 \in 1 .. 3 /\ 2 \in 1 .. 3
    OBVIOUS
  <2>. HIDE DEF g, v
  <2>. QED  BY <1>0, <2>1, <2>2, Zenon
<1>. HIDE DEF g, v, w, h, x, y
<1>4. (w * y + x) % w = x /\ (w * y + x) \div w = y
  <2>1. y \in Int
    BY <1>2
  <2>. QED  BY <1>1, <1>2, <2>1, Indexed
<1>5. w * y + x \in 0 .. w * h - 1
  <2>1. w * y \in Nat /\ w * (h - 1 - y) \in Nat /\ w * (h - 1 - y) = w * h - w - w * y
    <3>1. h - 1 - y \in Nat /\ y \in Nat
      BY <1>1, <1>2
    <3>. QED  BY <1>1, <3>1
  <2>2. w * h \in Int
    BY <1>1
  <2>. DEFINE a == w * y
              b == w * h
  <2>. HIDE DEF a, b
  <2>3. a \in Nat /\ b \in Int /\ b - w - a \in Nat
    BY <2>1, <2>2 DEF a, b
  <2>4. a + x \in 0 .. b - 1
    BY <1>1, <1>2, <2>3
  <2>. QED  BY <2>4 DEF a, b
<1>6. CellAt(t, m, k) = w * y + x
  BY DEF CellAt, w, x, y, g
<1>7. Near(g, w * y + x, k)
  BY <1>1, <1>3, <1>4 DEF Near, w
<1>. QED  BY <1>5, <1>6, <1>7 DEF g, w, h

(* A leaf is written to the cells of its voxels.                           *)
LEMMA CellsOfLeaf ==
  ASSUME NEW t, TreeOK(t), NEW m \in 0 .. Depth, NEW n, NEW k, LeafOf(n, t, m, k),
         n.depth = m \/ m = Depth
  PROVE  /\ \A j \in Block(n.corner, n.depth) \cap DOMAIN t :
              CellAt(t, m, j) \in CellsUnder(t, n, m, MapOf(t, m).width)
         /\ Occupied(LeafValue(t, n)) =>
              \A c \in CellsUnder(t, n, m, MapOf(t, m).width) :
                \E j \in OccupiedKeys(t) : c = CellAt(t, m, j)
<1>. DEFINE b == n.corner
            w == MapOf(t, m).width
            B == Block(b, n.depth) \cap DOMAIN t
            Slot(a, x) == Max({0, x - LowestOf(t, a)}) \div WidthAt(m)
<1>1. /\ n.depth \in 0 .. Depth /\ b \in Voxels /\ k \in Voxels /\ k \in DOMAIN t
      /\ n.depth \in 0 .. m /\ b = Corner(k, n.depth)
      /\ Occupied(LeafValue(t, n)) => \E j \in B : Occupied(t[j])
      /\ n.depth = m \/ \A j \in Block(b, n.depth) : j \in DOMAIN t /\ t[j] = t[k]
  BY LeafValueIs, LeafOnGrid DEF LeafOf
<1>2. \A i \in 1 .. 3 : b[i] \in Int
  BY <1>1, VoxelIs
<1>3. \A j, i : Along(t, m, i, j) = Slot(i, Corner(j, m)[i])
  BY DEF Along
<1>4. \A i \in 1 .. 3 :
        CellsAlong(t, n, i, m) = {Slot(i, b[i] + d) : d \in 0 .. 2 ^ (m - n.depth) - 1}
  <2>1. ASSUME NEW i \in 1 .. 3
        PROVE  CellsAlong(t, n, i, m) = {Slot(i, b[i] + d) : d \in 0 .. 2 ^ (m - n.depth) - 1}
    <3>1. b[i] \in Int /\ LowestOf(t, i) \in Int
      BY <1>2, LowestIs
    <3>2. \A d \in Int : n.corner[i] + d - LowestOf(t, i) = (b[i] + d) - LowestOf(t, i)
      BY <3>1
    <3>3. \A d \in Int : Max({0, n.corner[i] + d - LowestOf(t, i)}) \div WidthAt(m)
                          = Slot(i, b[i] + d)
      BY <3>2, Zenon
    <3>4. 0 .. 2 ^ (m - n.depth) - 1 \subseteq Int
      OBVIOUS
    <3>. HIDE DEF Slot
    <3>. QED  BY <3>3, <3>4 DEF CellsAlong
  <2>. QED  BY <2>1
<1>5. CellsUnder(t, n, m, w)
        = {w * y + x : x \in CellsAlong(t, n, 1, m), y \in CellsAlong(t, n, 2, m)}
  BY DEF CellsUnder
<1>6. \A j : CellAt(t, m, j) = w * Along(t, m, 2, j) + Along(t, m, 1, j)
  BY DEF CellAt
<1>. HIDE DEF Slot, w
<1>7. CASE n.depth = m
  <2>1. 2 ^ (m - n.depth) - 1 = 0
    <3>1. m - n.depth = 0
      BY <1>7
    <3>2. 2 ^ 0 = 1
      OBVIOUS
    <3>3. 2 ^ (m - n.depth) = 1
      BY <3>1, <3>2, Zenon
    <3>. QED  BY <3>3
  <2>2. \A i \in 1 .. 3 : CellsAlong(t, n, i, m) = {Slot(i, b[i])}
    <3>1. 0 .. 2 ^ (m - n.depth) - 1 = {0}
      BY <2>1
    <3>2. \A i \in 1 .. 3 : b[i] + 0 = b[i]
      BY <1>2
    <3>3. \A i \in 1 .. 3 : CellsAlong(t, n, i, m) = {Slot(i, b[i] + d) : d \in {0}}
      BY <1>4, <3>1, Zenon
    <3>. HIDE DEF b
    <3>. QED  BY <3>2, <3>3
  <2>3. CellsUnder(t, n, m, w) = {w * Slot(2, b[2]) + Slot(1, b[1])}
    <3>1. CellsAlong(t, n, 1, m) = {Slot(1, b[1])} /\ CellsAlong(t, n, 2, m) = {Slot(2, b[2])}
      BY <2>2
    <3>. QED  BY <1>5, <3>1
  <2>4. \A j \in B : Corner(j, m) = b
    BY <1>1, <1>7, Corners
  <2>5. \A j \in B : CellAt(t, m, j) = w * Slot(2, b[2]) + Slot(1, b[1])
    BY <1>3, <1>6, <2>4
  <2>6. \A j \in B : Occupied(t[j]) => j \in OccupiedKeys(t)
    BY DEF OccupiedKeys
  <2>. HIDE DEF B
  <2>7. \A j \in B : CellAt(t, m, j) \in CellsUnder(t, n, m, w)
    BY <2>3, <2>5
  <2>8. Occupied(LeafValue(t, n)) =>
          \A c \in CellsUnder(t, n, m, w) : \E j \in OccupiedKeys(t) : c = CellAt(t, m, j)
    BY <1>1, <2>3, <2>5, <2>6
  <2>. QED  BY <2>7, <2>8 DEF B, w
<1>8. CASE n.depth # m
  <2>1. m = Depth /\ \A j \in Block(b, n.depth) : j \in DOMAIN t /\ t[j] = t[k]
    BY <1>1, <1>8
  <2>. DEFINE v == WidthAt(n.depth)
  <2>2. 2 ^ (m - n.depth) = v /\ v \in Nat \ {0}
    <3>1. WidthAt(n.depth) \in Nat \ {0}
      BY <1>1, Widths
    <3>. QED  BY <2>1, <3>1 DEF WidthAt
  <2>3. \A j \in Voxels : Corner(j, m) = j
    BY <2>1, Corners
  <2>. HIDE DEF v
  <2>4. ASSUME NEW j \in Block(b, n.depth)
        PROVE  CellAt(t, m, j) \in CellsUnder(t, n, m, w)
    <3>1. j \in Voxels
      BY <1>1, BlockInVoxels
    <3>2. \A i \in 1 .. 3 : j[i] \in Int /\ b[i] <= j[i] /\ j[i] < b[i] + v
      BY <1>1, <3>1, InBlock, VoxelIs DEF v
    <3>3. \A i \in 1 .. 3 : j[i] - b[i] \in 0 .. v - 1 /\ b[i] + (j[i] - b[i]) = j[i]
      BY <1>2, <2>2, <3>2
    <3>4. \A i \in 1 .. 3 : Slot(i, j[i]) \in CellsAlong(t, n, i, m)
      BY <1>4, <2>2, <3>3
    <3>5. Along(t, m, 1, j) \in CellsAlong(t, n, 1, m) /\ Along(t, m, 2, j) \in CellsAlong(t, n, 2, m)
      BY <1>3, <2>3, <3>1, <3>4
    <3>. QED  BY <1>5, <1>6, <3>5
  <2>5. ASSUME Occupied(LeafValue(t, n)), NEW c \in CellsUnder(t, n, m, w)
        PROVE  \E j \in OccupiedKeys(t) : c = CellAt(t, m, j)
    <3>1. PICK x \in CellsAlong(t, n, 1, m), y \in CellsAlong(t, n, 2, m) : c = w * y + x
      BY <1>5
    <3>2. PICK d1 \in 0 .. v - 1 : x = Slot(1, b[1] + d1)
      BY <1>4, <2>2, <3>1
    <3>3. PICK d2 \in 0 .. v - 1 : y = Slot(2, b[2] + d2)
      BY <1>4, <2>2, <3>1
    <3>. DEFINE j == <<b[1] + d1, b[2] + d2, b[3]>>
    <3>4. j \in Voxels
      BY <1>2 DEF Voxels
    <3>5. j[1] = b[1] + d1 /\ j[2] = b[2] + d2 /\ j[3] = b[3]
      OBVIOUS
    <3>. HIDE DEF j
    <3>6. \A i \in 1 .. 3 : b[i] <= j[i] /\ j[i] < b[i] + v
      <4>1. \A i \in 1 .. 3 : i = 1 \/ i = 2 \/ i = 3
        OBVIOUS
      <4>2. d1 >= 0 /\ d1 < v /\ d2 >= 0 /\ d2 < v
        BY <2>2
      <4>. QED  BY <1>2, <2>2, <3>5, <4>1, <4>2
    <3>7. j \in Block(b, n.depth)
      BY <1>1, <3>4, <3>6, InBlock DEF v
    <3>8. j \in OccupiedKeys(t)
      BY <1>1, <2>1, <2>5, <3>7 DEF OccupiedKeys
    <3>9. c = CellAt(t, m, j)
      BY <1>3, <1>6, <2>3, <3>1, <3>2, <3>3, <3>4, <3>5
    <3>. QED  BY <3>8, <3>9
  <2>. QED  BY <2>4, <2>5 DEF w
<1>. QED  BY <1>7, <1>8

(* So the occupied cells are those of the occupied voxels.                 *)
LEMMA ObstacleCells ==
  ASSUME NEW t, TreeOK(t), NEW m \in 0 .. Depth,
         \A n \in Leaves(t, Depth) : m = Depth \/ n.depth >= m
  PROVE  LET g == MapOf(t, m) IN
           {i \in DOMAIN g.data : g.data[i] = 100} = {CellAt(t, m, k) : k \in OccupiedKeys(t)}
<1>. DEFINE g == MapOf(t, m)
            w == ExtentOf(t, 1) \div WidthAt(m) + 1
            h == ExtentOf(t, 2) \div WidthAt(m) + 1
            shown == {l \in Leaves(t, m) : Occupied(LeafValue(t, l))}
            occ == UNION {CellsUnder(t, n, m, w) : n \in shown}
            all == UNION {CellsUnder(t, n, m, w) : n \in Leaves(t, m)}
            cells == {CellAt(t, m, k) : k \in OccupiedKeys(t)}
<1>1. g.data = [i \in 0 .. w * h - 1 |-> IF i \in occ THEN 100 ELSE IF i \in all THEN 0 ELSE -1]
  BY DEF MapOf
<1>2. g.width = w /\ g.height = h
  BY MapIs
<1>3. \A n \in Leaves(t, m) : \E k : LeafOf(n, t, m, k)
  BY LeavesAre
<1>4. ASSUME NEW n \in Leaves(t, m) PROVE n.depth = m \/ m = Depth
  <2>1. PICK k \in DOMAIN t : n.depth = Min({m, LeafDepth(t, k)})
    BY DEF Leaves
  <2>2. LeafDepth(t, k) \in 0 .. Depth /\ Depth \in Nat
    BY LeafDepthIs, Widths
  <2>3. Min({Depth, LeafDepth(t, k)}) = LeafDepth(t, k)
    <3>1. Depth \in Int /\ LeafDepth(t, k) \in Int /\ LeafDepth(t, k) <= Depth
      BY <2>2
    <3>. QED  BY <3>1, LeastOfTwo
  <2>4. \E l \in Leaves(t, Depth) : l.depth = LeafDepth(t, k)
    <3>1. [depth |-> Min({Depth, LeafDepth(t, k)}),
           corner |-> Corner(k, Min({Depth, LeafDepth(t, k)}))] \in Leaves(t, Depth)
      BY DEF Leaves
    <3>. QED  BY <2>3, <3>1
  <2>5. CASE m = Depth
    BY <2>5
  <2>6. CASE m # Depth
    <3>1. LeafDepth(t, k) >= m
      BY <2>4, <2>6
    <3>2. m \in Int /\ LeafDepth(t, k) \in Int
      BY <2>2
    <3>3. Min({m, LeafDepth(t, k)}) = m
      BY <3>1, <3>2, LeastOfTwo
    <3>. QED  BY <2>1, <3>3
  <2>. QED  BY <2>5, <2>6
<1>. HIDE DEF w, h
<1>5. occ \subseteq cells
  <2>1. ASSUME NEW n \in shown, NEW c \in CellsUnder(t, n, m, w) PROVE c \in cells
    <3>1. PICK k : LeafOf(n, t, m, k)
      BY <1>3
    <3>2. n.depth = m \/ m = Depth
      BY <1>4
    <3>3. \E j \in OccupiedKeys(t) : c = CellAt(t, m, j)
      BY <1>2, <3>1, <3>2, CellsOfLeaf
    <3>. QED  BY <3>3
  <2>. QED  BY <2>1
<1>6. cells \subseteq occ
  <2>1. ASSUME NEW k \in OccupiedKeys(t) PROVE CellAt(t, m, k) \in occ
    <3>1. k \in DOMAIN t /\ Occupied(t[k])
      BY DEF OccupiedKeys
    <3>2. PICK n \in Leaves(t, m) : LeafOf(n, t, m, k)
      BY <3>1, LeavesAre
    <3>3. k \in Block(n.corner, n.depth) \cap DOMAIN t
      BY <3>1, <3>2, LeafValueIs
    <3>4. Occupied(LeafValue(t, n))
      BY <3>1, <3>2, <3>3, LeafValueIs
    <3>5. CellAt(t, m, k) \in CellsUnder(t, n, m, w)
      BY <1>2, <1>4, <3>2, <3>3, CellsOfLeaf
    <3>. QED  BY <3>4, <3>5
  <2>. QED  BY <2>1
<1>7. cells \subseteq 0 .. w * h - 1
  BY <1>2, CellIs DEF OccupiedKeys
<1>8. cells = occ
  BY <1>5, <1>6
<1>. HIDE DEF cells, occ, all
<1>9. {i \in DOMAIN g.data : g.data[i] = 100} = cells
  <2>. HIDE DEF g
  <2>. QED  BY <1>1, <1>7, <1>8
<1>. QED  BY <1>9 DEF cells, g

(* Only processMessage takes a message away.                               *)
LEMMA TakenByProcess ==
  ASSUME TopicInv, display = "map", [DisplaysNext]_dvars, taken # <<>>, taken' = Tail(taken)
  PROVE  ProcessMapMessage
<1>. DEFINE n == Len(taken)
<1>1. n \in Nat /\ n > 0 /\ Len(taken') = n - 1 /\ \A m : Len(Append(taken, m)) = n + 1
  BY DEF TopicInv
<1>2. ~ (taken' = taken) /\ \A m : ~ (taken' = Append(taken, m))
  <2>1. ASSUME taken' = taken PROVE FALSE
    <3>1. Len(taken') = n
      BY <2>1
    <3>. HIDE DEF n
    <3>. QED  BY <1>1, <3>1
  <2>2. ASSUME NEW m, taken' = Append(taken, m) PROVE FALSE
    <3>1. Len(taken') = n + 1
      BY <1>1, <2>2
    <3>. HIDE DEF n
    <3>. QED  BY <1>1, <3>1
  <2>. QED  BY <2>1, <2>2
<1>3. MapDisplayNext
  BY <1>2 DEF DisplaysNext, dvars, topic_vars
<1>4. ASSUME NEW m \in Messages, Publish(m) PROVE FALSE
  BY <1>2, <1>4 DEF Publish
<1>5. ASSUME NEW u \in Updates, IncomingUpdate(u) PROVE FALSE
  BY <1>2, <1>5 DEF IncomingUpdate
<1>6. ASSUME UpdateMapDisplay PROVE FALSE
  BY <1>2, <1>6 DEF UpdateMapDisplay, topic_vars
<1>7. ASSUME NEW m \in MapDepths, UpdateMapDepth(m) PROVE FALSE
  BY <1>2, <1>7 DEF UpdateMapDepth, Command
<1>8. ASSUME NEW on \in BOOLEAN, EnableMapDisplay(on) PROVE FALSE
  BY <1>2, <1>8 DEF EnableMapDisplay, Resubscribe
<1>9. ASSUME ResetMapDisplay PROVE FALSE
  BY <1>2, <1>9 DEF ResetMapDisplay, Command
<1>. QED  BY <1>3, <1>4, <1>5, <1>6, <1>7, <1>8, <1>9 DEF MapDisplayNext

(* The projection of the map display (processMessage) loses no obstacle    *)
(* and invents none, for every tree and every depth that is not above a    *)
(* leaf of the tree.                                                       *)
THEOREM ObstaclesAlwaysDrawn == DisplaysSpec => ObstaclesDrawn
<1>. DEFINE A ==
       display = "map" /\ taken # <<>> /\ taken' = Tail(taken) /\ Head(taken).id = "OcTree"
         /\ (\A n \in Leaves(Head(taken).tree, Depth) :
               octree_depth_ = Depth \/ n.depth >= octree_depth_) =>
         LET occ == OccupiedKeys(Head(taken).tree)
             cells == {i \in DOMAIN current_map_'.data : current_map_'.data[i] = 100}
         IN /\ \A k \in occ : \E i \in cells : Near(current_map_', i, k)
            /\ \A i \in cells : \E k \in occ : Near(current_map_', i, k)
<1>1. TopicInv /\ PictureInv /\ [DisplaysNext]_dvars => A
  <2>. DEFINE t == Head(taken).tree
              m == octree_depth_
              g == MapOf(t, m)
              occ == OccupiedKeys(t)
              cells == {i \in DOMAIN g.data : g.data[i] = 100}
  <2>. SUFFICES ASSUME TopicInv, PictureInv, [DisplaysNext]_dvars,
                       display = "map", taken # <<>>, taken' = Tail(taken),
                       Head(taken).id = "OcTree",
                       \A n \in Leaves(t, Depth) : m = Depth \/ n.depth >= m
                PROVE  LET u == current_map_'
                           full == {i \in DOMAIN u.data : u.data[i] = 100}
                       IN /\ \A k \in occ : \E i \in full : Near(u, i, k)
                          /\ \A i \in full : \E k \in occ : Near(u, i, k)
    OBVIOUS
  <2>1. ProcessMapMessage
    BY TakenByProcess
  <2>2. TreeOK(t) /\ m \in 0 .. Depth
    BY <2>1, TakenKept, MessagesAssumption DEF ProcessMapMessage, TreeOK, PictureInv
  <2>3. current_map_' = g
    BY <2>1 DEF ProcessMapMessage
  <2>4. cells = {CellAt(t, m, k) : k \in occ}
    BY <2>2, ObstacleCells
  <2>5. \A k \in occ : Near(g, CellAt(t, m, k), k)
    BY <2>2, CellIs DEF OccupiedKeys
  <2>. HIDE DEF g, occ, t, m
  <2>6. /\ \A k \in occ : \E i \in cells : Near(g, i, k)
        /\ \A i \in cells : \E k \in occ : Near(g, i, k)
    <3>. HIDE DEF cells
    <3>. QED  BY <2>4, <2>5
  <2>. QED  BY <2>3, <2>6
<1>. QED  BY <1>1, DisplaysInvAlways, PTL DEF DisplaysSpec, ObstaclesDrawn
==============================================================================

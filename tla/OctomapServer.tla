---------------------------- MODULE OctomapServer -----------------------------
(***************************************************************************)
(* The octomap server: an occupancy octree built from clouds of points,    *)
(* and the topics and services that show it.  The callbacks of a node run  *)
(* one at a time, so each is one action.  The projected map keeps the      *)
(* layout of the code: an origin, a width and a row-major array that every *)
(* write indexes.                                                          *)
(*                                                                         *)
(* A coordinate is a voxel: coordinate 0.0 is the lower corner of voxel    *)
(* Zero.  Log-odds are integers, and the sensor model adds Hit or Miss.    *)
(***************************************************************************)
EXTENDS Octree

CONSTANTS
  Hit, Miss,    \* what a hit adds to the log-odds, and a miss takes away
  MapZ,         \* occupancy_min_z_ .. occupancy_max_z_: the projected heights
  PointZ,       \* point_cloud_min_z_ .. point_cloud_max_z_
  MinPlane,     \* clouds smaller than this have no plane looked for (50)
  Launches,     \* the parameter sets a server is launched with, and the
                \*   clouds it gets
  Boxes         \* the boxes the clear_bbox service is called with

ASSUME SensorModel == Hit \in Nat /\ Miss \in Nat

(* max_depth is at least 1, and the sensor stands in the space.            *)
ASSUME LaunchAssumption ==
  \A p \in Launches :
    /\ p.maxRange \in Int /\ p.half \in Nat /\ p.depths \subseteq 1 .. Depth
    /\ p.topics \subseteq {"map", "binary", "full", "markers"}
    /\ \A c \in p.clouds : c.pose \in Key /\ c.points \subseteq Int \X Int \X Int

ASSUME BoxesAssumption == Boxes \subseteq SUBSET Key

VARIABLES
  params,       \* the launch parameters
  health,       \* "down", "up", "aborted" (an assertion), "stray" (a bad index)
  tree,         \* octree_
  box,          \* update_bbox_min_, update_bbox_max_: x and y of the last scan
  grid,         \* gridmap_
  proj,         \* padded_min_key_, multires_2d_scale_, project_complete_map_
  depth,        \* max_tree_depth_
  incremental,  \* incremental_2D_projection_
  out,          \* the last message of each topic
  file          \* the map file on disk, and what it was saved from

server_vars == <<params, health, tree, box, grid, proj, depth, incremental, out, file>>
------------------------------------------------------------------------------
(* updateNode for every voxel of a scan: one that is seen for the first    *)
(* time starts at 0.                                                       *)
Updated(t, free, occupied) ==
  [k \in DOMAIN t \cup free \cup occupied |->
     LET v == IF k \in DOMAIN t THEN t[k] ELSE 0 IN
     IF k \in occupied THEN Clamp(v + Hit)
     ELSE IF k \in free THEN Clamp(v - Miss)
     ELSE v]

------------------------------------------------------------------------------
(* A scan: the rays from the sensor at o to the points.                    *)
Abs(i) == IF i < 0 THEN -i ELSE i
Distance(o, p) == Max({Abs(p[i] - o[i]) : i \in 1 .. 3})
Toward(o, p, i, n) == <<o[1] + ((p[1] - o[1]) * i) \div n,
                        o[2] + ((p[2] - o[2]) * i) \div n,
                        o[3] + ((p[3] - o[3]) * i) \div n>>

(* computeRayKeys: from the sensor's voxel to the one before the end.      *)
Ray(o, p) ==
  IF {o, p} \subseteq Key
    THEN {Toward(o, p, i, Distance(o, p)) : i \in 0 .. Distance(o, p) - 1}
    ELSE {}

Clipped(o, p) ==
  IF Distance(o, p) > params.maxRange THEN Toward(o, p, params.maxRange, Distance(o, p))
                                      ELSE p
InRange(o, p) == params.maxRange < 0 \/ Distance(o, p) <= params.maxRange

(* The ends of the rays: where a ground point or one that is out of range  *)
(* ends the ray is free, at any other point there is something.            *)
GroundEnds(o, ground) ==
  IF params.maxRange > 0 THEN {Clipped(o, p) : p \in ground} ELSE ground
FarEnds(o, nonground) == {Clipped(o, p) : p \in {q \in nonground : ~InRange(o, q)}}
Hits(o, nonground) == {p \in nonground : InRange(o, p)} \cap Key

OccupiedCells(o, nonground) == Hits(o, nonground)
FreeCells(o, ground, nonground) ==
  (UNION {Ray(o, p) : p \in GroundEnds(o, ground) \cup FarEnds(o, nonground)
                              \cup {q \in nonground : InRange(o, q)}})
    \cup (FarEnds(o, nonground) \cap Key)

BoxOf(S) == [x0 |-> Min({k[1] : k \in S}), x1 |-> Max({k[1] : k \in S}),
             y0 |-> Min({k[2] : k \in S}), y1 |-> Max({k[2] : k \in S})]
ScanBox(o, ground, nonground) ==
  BoxOf({o} \cup ((GroundEnds(o, ground) \cup FarEnds(o, nonground)
                     \cup Hits(o, nonground)) \cap Key))

InsertScan(o, ground, nonground) ==
  LET occ == OccupiedCells(o, nonground) IN
  /\ tree' = Updated(tree, FreeCells(o, ground, nonground) \ occ, occ)
  /\ box' = ScanBox(o, ground, nonground)
------------------------------------------------------------------------------
(* The projected 2D map: -1 unknown, 0 free, 100 occupied.  x0 and y0 are  *)
(* the lower corner of the map's origin, res the width of a cell.          *)
ClearedGrid == [x0 |-> Zero, y0 |-> Zero, width |-> 0, height |-> 0,
                res |-> 0, data |-> [i \in {} |-> -1]]

Blank(w, h) == [i \in 0 .. w * h - 1 |-> -1]

(* Mutant: the rows end at the last voxel.                                 *)
GridInfoLow(t, m) ==
  LET xs == {k[1] : k \in DOMAIN t}
      ys == {k[2] : k \in DOMAIN t}
      w == WidthAt(m)
      x0 == Min({Min(xs), Zero - params.half}) \div w
      y0 == Min({Min(ys), Zero - params.half}) \div w
      x1 == Max({Max(xs) + 1, Zero + params.half}) \div w
      y1 == Max({Max(ys), Zero + params.half}) \div w
  IN [x0 |-> x0 * w, y0 |-> y0 * w,
      width |-> x1 - x0 + 1, height |-> y1 - y0, res |-> w]

(* The area of the tree, widened to the configured size around the origin  *)
(* of the world, in cells of depth m.                                      *)
GridInfo(t, m) ==
  LET xs == {k[1] : k \in DOMAIN t}
      ys == {k[2] : k \in DOMAIN t}
      w == WidthAt(m)
      x0 == Min({Min(xs), Zero - params.half}) \div w
      y0 == Min({Min(ys), Zero - params.half}) \div w
      x1 == Max({Max(xs) + 1, Zero + params.half}) \div w
      y1 == Max({Max(ys) + 1, Zero + params.half}) \div w
  IN [x0 |-> x0 * w, y0 |-> y0 * w,
      width |-> x1 - x0 + 1, height |-> y1 - y0 + 1, res |-> w]

SameArea(g, h) == \A f \in {"x0", "y0", "width", "height"} : g[f] = h[f]

(* static_cast<int>(old - new + 0.5) rounds towards zero.                  *)
Offset(old, new) == IF old >= new THEN old - new ELSE 1 - (new - old)

(* Mutant: the offset of the columns is used for the rows as well.         *)
AdjustedSquare(g, info) ==
  LET i0 == Offset(g.x0, info.x0) IN
  IF i0 < 0 \/ g.width + i0 > info.width \/ g.height + i0 > info.height
    THEN g.data
    ELSE [n \in DOMAIN Blank(info.width, info.height) |->
            LET i == (n % info.width) - i0
                j == (n \div info.width) - i0
            IN IF i \in 0 .. g.width - 1 /\ j \in 0 .. g.height - 1
                 THEN g.data[j * g.width + i] ELSE -1]

(* adjustMapData: the rows of the old map g in a map of the size of info;  *)
(* the data stays as it is when the new map does not contain the old one.  *)
Adjusted(g, info) ==
  LET i0 == Offset(g.x0, info.x0)
      j0 == Offset(g.y0, info.y0)
  IN IF i0 < 0 \/ j0 < 0 \/ g.width + i0 > info.width \/ g.height + j0 > info.height
       THEN g.data
       ELSE [n \in DOMAIN Blank(info.width, info.height) |->
               LET i == (n % info.width) - i0
                   j == (n \div info.width) - j0
               IN IF i \in 0 .. g.width - 1 /\ j \in 0 .. g.height - 1
                    THEN g.data[j * g.width + i] ELSE -1]

(* The columns and rows of the update box in a map of full resolution; an  *)
(* end to the left of the map becomes a huge size_t.                       *)
BoxInGrid(b, info) ==
  [x0 |-> Max({0, b.x0 - info.x0}), x1 |-> Min({info.width - 1, b.x1 - info.x0}),
   y0 |-> Max({0, b.y0 - info.y0}), y1 |-> Min({info.height - 1, b.y1 - info.y0})]
Huge(i) == i < 0
AssertedBox(c) == (Huge(c.x1) \/ c.x1 > c.x0) /\ (Huge(c.y1) \/ c.y1 > c.y0)

(* handlePreNodeTraversal when the ends of the padded area have keys: the  *)
(* grid before the leaves are projected, what it did to the node, and how  *)
(* the leaves are projected.                                               *)
Resize(t, b, g, m, inc) ==
  LET info == GridInfo(t, m)
      complete == ~inc \/ info.res # g.res \/ m < Depth
      data == IF SameArea(g, info) THEN g.data ELSE Adjusted(g, info)
      c == BoxInGrid(b, info)
      filled == {info.width * j + i : i \in c.x0 .. c.x1, j \in c.y0 .. c.y1}
      ended == IF complete THEN "up"
               ELSE IF ~AssertedBox(c) THEN "aborted"
               ELSE IF Huge(c.x1) \/ Huge(c.y1) \/ ~(filled \subseteq DOMAIN data)
                      THEN "stray" ELSE "up"
  IN [grid |-> [x0 |-> info.x0, y0 |-> info.y0, width |-> info.width,
                height |-> info.height, res |-> info.res,
                data |-> IF complete THEN Blank(info.width, info.height)
                         ELSE [n \in DOMAIN data |-> IF n \in filled THEN -1 ELSE data[n]]],
      health |-> ended,
      proj |-> [x0 |-> info.x0, y0 |-> info.y0, scale |-> WidthAt(m), complete |-> complete]]

(* When one of them has none - the tree has a voxel at an upper edge of    *)
(* the space, or the padding reaches over an edge - the grid stays as it   *)
(* is, and so do the scale and project_complete_map_, but the key of the   *)
(* lower end has moved already.                                            *)
HasKeys(t) ==
  /\ Zero + params.half < Side
  /\ \A k \in DOMAIN t : \A i \in 1 .. 3 : k[i] + 1 < Side

Displaced(t, p, m) ==
  IF params.half > Zero THEN p
  ELSE [p EXCEPT !.x0 = GridInfo(t, m).x0, !.y0 = GridInfo(t, m).y0]

PreTraversal(t, b, g, p, m, inc) ==
  IF HasKeys(t) THEN Resize(t, b, g, m, inc)
                ELSE [grid |-> g, health |-> "up", proj |-> Displaced(t, p, m)]

(* mapIdx and update2DMap: the cells a leaf is written to, counted from    *)
(* padded_min_key_ in steps of the scale.  The keys of coarse cells are    *)
(* their centres; a negative difference is divided as an unsigned number   *)
(* and, unless the scale is 1, indexes far behind the data.  The           *)
(* multilayer server has an update2DMap of its own, which walks over more  *)
(* of a large leaf.                                                        *)
Reach(n, m) == IF params.class = "multilayer" THEN WidthAt(n.depth) ELSE 2 ^ (m - n.depth)

Cell(p, g, n, i, m) ==
  LET first == IF i = 1 THEN p.x0 ELSE p.y0
      centre == IF WidthAt(m) = 1 THEN first ELSE first + WidthAt(m) \div 2
      steps == IF n.depth = m THEN {n.corner[i] - first}
               ELSE {n.corner[i] + d - centre : d \in 0 .. Reach(n, m) - 1}
  IN {IF s < 0 /\ p.scale > 1 THEN g.width * g.height ELSE s \div p.scale : s \in steps}

CellsOf(p, g, n, m) ==
  {g.width * j + i : i \in Cell(p, g, n, 1, m), j \in Cell(p, g, n, 2, m)}

InMapZ(n) == \E z \in MapZ : z \in n.corner[3] .. n.corner[3] + WidthAt(n.depth) - 1

(* Mutant: free leaves override occupied ones.                             *)
ProjectedFree(p, g, t, m, shown) ==
  LET occ == UNION {CellsOf(p, g, n, m) : n \in {l \in shown : Occupied(LeafValue(t, l))}}
      free == UNION {CellsOf(p, g, n, m) : n \in {l \in shown : ~Occupied(LeafValue(t, l))}}
  IN [g EXCEPT !.data = [n \in DOMAIN g.data |->
        IF n \in free THEN 0 ELSE IF n \in occ THEN 100 ELSE g.data[n]]]

(* Occupied leaves override free ones, whatever their order.               *)
Projected(p, g, t, m, shown) ==
  LET occ == UNION {CellsOf(p, g, n, m) : n \in {l \in shown : Occupied(LeafValue(t, l))}}
      free == UNION {CellsOf(p, g, n, m) : n \in {l \in shown : ~Occupied(LeafValue(t, l))}}
  IN [g EXCEPT !.data = [n \in DOMAIN g.data |->
        IF n \in occ THEN 100
        ELSE IF n \in free /\ g.data[n] = -1 THEN 0 ELSE g.data[n]]]

InData(p, g, m, shown) == \A n \in shown : CellsOf(p, g, n, m) \subseteq DOMAIN g.data

(* publishAll, the end of every handler below but resetSrv's: params.topics*)
(* are the topics that are latched or have a subscriber; the multilayer    *)
(* server projects its map in any case.  A subclass that projects more     *)
(* than one map tells whether its own writes go astray.                    *)
ProjectsMap == params.class = "multilayer" \/ "map" \in params.topics

Published(t, g) ==
  LET shown == {n \in Leaves(t, depth') : InMapZ(n)} IN
  [map |-> IF ProjectsMap THEN g ELSE out.map,
   occupied |-> IF "markers" \in params.topics
                  THEN {n \in shown : Occupied(LeafValue(t, n))} ELSE out.occupied,
   binary |-> IF "binary" \in params.topics THEN MaxLikelihood(t) ELSE out.binary,
   full |-> IF "full" \in params.topics THEN t ELSE out.full]

PublishAll(astray) ==
  IF NothingToPublish(tree')
    THEN health' = "up" /\ UNCHANGED <<grid, proj, out>>
  ELSE IF ~ProjectsMap
    THEN health' = "up" /\ out' = Published(tree', grid) /\ UNCHANGED <<grid, proj>>
  ELSE \E pre \in {PreTraversal(tree', box', grid, proj, depth', incremental')},
          shown \in {{n \in Leaves(tree', depth') : InMapZ(n)}} :
         LET bad == pre.proj.complete /\ (astray \/ ~InData(pre.proj, pre.grid, depth', shown))
         IN /\ proj' = pre.proj
            /\ IF pre.health # "up" \/ bad
                 THEN /\ health' = IF bad THEN "stray" ELSE pre.health
                      /\ grid' = pre.grid
                      /\ UNCHANGED out
                 ELSE /\ health' = "up"
                      /\ grid' = IF pre.proj.complete
                                   THEN Projected(pre.proj, pre.grid, tree', depth', shown)
                                   ELSE pre.grid
                      /\ out' = Published(tree', grid')
------------------------------------------------------------------------------
(* insertCloudCallback.  A cloud is taken from the sensor at c.pose, and   *)
(* its points are relative to the sensor.  A cloud whose transform to the  *)
(* world is missing is dropped.  When the transforms of the ground filter  *)
(* are missing, the points pass as if the sensor stood at the origin.      *)
InWorld(c, o) == {<<o[1] + p[1], o[2] + p[2], o[3] + p[3]>> : p \in c.points}

(* filterGroundPlane: a small cloud has no ground; otherwise a plane near  *)
(* height zero is the ground, or, when none is found, the points near      *)
(* height zero are.  The rest is not ground.                               *)
GroundOf(points) ==
  IF Cardinality(points) < MinPlane THEN {{}}
  ELSE ((SUBSET points) \ {{}}) \cup {{p \in points : p[3] = Zero}}

InsertCloud(c) ==
  \E from \in IF params.ground THEN {c.pose, <<Zero, Zero, Zero>>} ELSE {c.pose} :
    LET points == {p \in InWorld(c, from) : p[3] \in PointZ} IN
    \E ground \in IF params.ground THEN GroundOf(points) ELSE {{}} :
      InsertScan(c.pose, ground, points \ ground)

OnCloud(c) ==
  /\ health = "up"
  /\ InsertCloud(c)
  /\ UNCHANGED <<params, depth, incremental, file>>

(* clearBBoxSrv: the leaves that reach into the box become free as a       *)
(* whole, as sure as can be.                                               *)
LeafBlock(t, k) == Block(Corner(k, LeafDepth(t, k)), LeafDepth(t, k))
Cleared(t, b) ==
  [k \in DOMAIN t |-> IF LeafBlock(t, k) \cap b # {} THEN ClampMin ELSE t[k]]
ClearBBox(b) ==
  /\ health = "up"
  /\ tree' = Cleared(tree, b)
  /\ UNCHANGED <<params, box, depth, incremental, file>>

(* Mutant: the binary map is left to publishAll.                           *)
ResetUnpublished ==
  /\ health = "up"
  /\ tree' = NoTree
  /\ grid' = ClearedGrid
  /\ out' = [out EXCEPT !.occupied = {}]
  /\ UNCHANGED <<params, health, box, proj, depth, incremental, file>>

(* resetSrv: publishAll has nothing to publish; the binary map and the     *)
(* markers are published here.                                             *)
Reset ==
  /\ health = "up"
  /\ tree' = NoTree
  /\ grid' = ClearedGrid
  /\ out' = [out EXCEPT !.binary = NoTree, !.occupied = {}]
  /\ UNCHANGED <<params, health, box, proj, depth, incremental, file>>

(* onParameter, for the parameters that change what the callbacks do: it   *)
(* sets max_tree_depth_ to the parameter max_depth whichever was set.      *)
SetParameter(m, inc) ==
  /\ health = "up"
  /\ depth' = m
  /\ incremental' = inc
  /\ UNCHANGED <<params, tree, box, file>>
------------------------------------------------------------------------------
(* The node's life.  A node that is launched with a map file starts from   *)
(* the tree in the file (openFile) and publishes it.  The members of proj  *)
(* are not initialised; before the first map has data, only               *)
(* project_complete_map_ is told apart.                                    *)
NoFile == [kind |-> "none", tree |-> NoTree, occupied |-> {}]
FreshGrid == [ClearedGrid EXCEPT !.res = 1]
NothingPublished == [map |-> FreshGrid, occupied |-> {}, binary |-> NoTree, full |-> NoTree]
NoBox == [x0 |-> Zero, x1 |-> Zero, y0 |-> Zero, y1 |-> Zero]

Unset == {[x0 |-> Zero, y0 |-> Zero, scale |-> 1, complete |-> c] : c \in BOOLEAN}

Off ==
  /\ health = "down"
  /\ tree = NoTree
  /\ box = NoBox
  /\ grid = FreshGrid
  /\ proj \in Unset
  /\ depth = Depth
  /\ incremental = FALSE
  /\ out = NothingPublished

Init == params \in Launches /\ Off /\ file = NoFile

Opened(f) == IF f.kind = "bt" THEN MaxLikelihood(f.tree) ELSE f.tree

(* The box of a loaded tree ends at its upper edges, whose keys wrap round.*)
TreeBox(t) == LET b == BoxOf(DOMAIN t)
              IN [b EXCEPT !.x1 = (@ + 1) % Side, !.y1 = (@ + 1) % Side]

(* The constructor's last declare_parameter calls onParameter, which takes *)
(* max_depth over; a file that is opened sets the full depth again.        *)
Launch ==
  /\ health = "down"
  /\ IF params.load /\ file.kind # "none" THEN depth' = Depth ELSE depth' \in params.depths
  /\ incremental' = params.incremental
  /\ tree' = IF params.load THEN Opened(file) ELSE NoTree
  /\ box' = IF tree' = NoTree THEN NoBox ELSE TreeBox(tree')
  /\ UNCHANGED <<params, file>>

(* The process ends, by itself or because it is stopped.                   *)
Stop ==
  /\ health # "down"
  /\ health' = "down"
  /\ tree' = NoTree
  /\ box' = NoBox
  /\ grid' = FreshGrid
  /\ proj' \in Unset
  /\ depth' = Depth
  /\ incremental' = FALSE
  /\ out' = NothingPublished
  /\ UNCHANGED <<params, file>>
------------------------------------------------------------------------------
(* octomap_saver: asks for the full or the binary map, and writes it in    *)
(* the form the suffix of the file names.  octomap_server_static serves    *)
(* the tree of a file, and its map can be saved as well.                   *)
Served(t, full) == IF full THEN t ELSE MaxLikelihood(t)
(* Mutant: a voxel at the threshold is written as free.                    *)
WrittenAbove(t, suffix) ==
  IF suffix = "bt" THEN [k \in DOMAIN t |-> IF t[k] > 0 THEN ClampMax ELSE ClampMin]
                   ELSE t

Written(t, suffix) == IF suffix = "bt" THEN MaxLikelihood(t) ELSE t

SaveMap(full, suffix) ==
  /\ health = "up"
  /\ file' = [kind |-> suffix, tree |-> Written(Served(tree, full), suffix),
              occupied |-> OccupiedKeys(tree)]
  /\ UNCHANGED <<params, health, tree, box, grid, proj, depth, incremental, out>>

SaveStatic(full, suffix) ==
  /\ file.kind # "none"
  /\ file' = [file EXCEPT !.kind = suffix,
                          !.tree = Written(Served(Opened(file), full), suffix)]
  /\ UNCHANGED <<params, health, tree, box, grid, proj, depth, incremental, out>>
------------------------------------------------------------------------------
(* The handlers that end in publishAll, and the steps of the plain server. *)
PublishingHandler ==
  \/ Launch
  \/ \E c \in params.clouds : OnCloud(c)
  \/ \E b \in Boxes : ClearBBox(b)
  \/ \E m \in params.depths, inc \in {params.incremental, FALSE} : SetParameter(m, inc)

FileStep == \E full \in BOOLEAN, suffix \in {"bt", "ot"} :
  SaveMap(full, suffix) \/ SaveStatic(full, suffix)

ServerNext ==
  \/ PublishingHandler /\ PublishAll(FALSE)
  \/ Reset
  \/ Stop
  \/ params.load /\ FileStep
==============================================================================

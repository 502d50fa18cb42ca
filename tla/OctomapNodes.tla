----------------------------- MODULE OctomapNodes -----------------------------
(***************************************************************************)
(* The nodes of the octomap packages, as a launch file starts them: a      *)
(* plain, a tracking or a multilayer server, by params.class, and for a    *)
(* tracking one a listener.                                                *)
(***************************************************************************)
EXTENDS TrackingOctomapServer, OctomapServerMultilayer

nvars == <<server_vars, tracking_vars, layers>>

NodesInit == Init /\ TrackingInit /\ LayersInit

NodesNext ==
  \/ params.class = "plain" /\ ServerNext /\ UNCHANGED <<tracking_vars, layers>>
  \/ params.class = "tracking" /\ TrackingNext /\ UNCHANGED layers
  \/ params.class = "multilayer" /\ MultilayerNext /\ UNCHANGED tracking_vars

NodesSpec == NodesInit /\ [][NodesNext]_nvars
------------------------------------------------------------------------------
(* The voxels above a cell, and what the map is to show there: occupied if *)
(* one of them is, else free if one of them is known.                      *)
Above(g, n) ==
  {k \in DOMAIN tree : /\ g.x0 + (n % g.width) * g.res = Corner(k, depth)[1]
                       /\ g.y0 + (n \div g.width) * g.res = Corner(k, depth)[2]}
Projection(S) == IF S = {} THEN -1 ELSE IF \E k \in S : Occupied(tree[k]) THEN 100 ELSE 0

Shows(g, S) ==
  /\ \A n \in DOMAIN g.data : g.data[n] = Projection(Above(g, n) \cap S)
  /\ S \subseteq UNION {Above(g, n) : n \in DOMAIN g.data}

(* The listener of a tracking server follows it: see ListenerAgrees.       *)
ListenerFollows == params.class = "tracking" => ListenerAgrees

(* Whether each leaf is at most as large as a cell of the projected map,   *)
(* or the map is of full resolution.  (At a lower resolution the cells of  *)
(* a larger leaf are counted from the centre of a cell.)                   *)
LeavesInCells == \A n \in Leaves(tree, Depth) : n.depth >= depth
CellsHoldLeaves == depth = Depth \/ LeavesInCells

(* A consumer that reads the last projected map by its origin, width and   *)
(* resolution finds the projection of the tree, after every callback, in   *)
(* whatever order scans, clears, resets and parameter changes came; and so *)
(* for each layer, as long as no leaf reaches into a layer from outside.   *)
(* (A tree at an upper edge of the space, or a padding over an edge, leaves*)
(* the area without keys: the code reports an error and keeps the old map, *)
(* into which it may still write leaves.)                                  *)
MapsShowTree ==
  health = "up" /\ ProjectsMap /\ HasKeys(tree) /\ ~incremental /\ ~NothingToPublish(tree) =>
    /\ CellsHoldLeaves =>
         Shows(out.map, {k \in DOMAIN tree :
                           InMapZ([depth |-> depth, corner |-> Corner(k, depth)])})
    /\ params.class = "multilayer" /\ LeavesInCells =>
         \A l \in DOMAIN layers :
           Shows(layers[l].grid,
                 {k \in DOMAIN tree : LET n == [depth |-> depth, corner |-> Corner(k, depth)]
                                      IN InMapZ(n) /\ InLayer(n, layers[l].z)})

(* On the topics that are latched or have a subscriber, the binary map and *)
(* the markers are those of the tree as it is, after a reset as well; the  *)
(* full map is, until a reset, which does not publish it.  (A tree of one  *)
(* node counts as an empty one.)                                           *)
BinaryMapCurrent ==
  health = "up" /\ (NothingToPublish(tree) => tree = NoTree) =>
    /\ "binary" \in params.topics => out.binary = MaxLikelihood(tree)
    /\ "full" \in params.topics /\ tree # NoTree => out.full = tree
    /\ "markers" \in params.topics =>
         (UNION {Block(n.corner, n.depth) : n \in out.occupied}) \cap DOMAIN tree
           \subseteq UNION {Block(Corner(k, depth), depth) : k \in OccupiedKeys(tree)}

(* In the incremental mode, which maps of full resolution have, a scan     *)
(* changes the map inside its own box only: what the map knows elsewhere,  *)
(* it keeps while the map grows around it.  (Not when the area of the tree *)
(* has no keys: the leaves of a map that was projected as a whole before   *)
(* are then written again, by the moved key.)                              *)
InBox(x, y) == x \in box'.x0 .. box'.x1 /\ y \in box'.y0 .. box'.y1
IncrementalKeepsRest ==
  [][ incremental /\ incremental' /\ health = "up" /\ health' = "up" /\ grid.res = grid'.res
        /\ depth' = Depth /\ HasKeys(tree') /\ grid' # grid =>
        \A n \in DOMAIN grid.data :
          LET x == grid.x0 + (n % grid.width)
              y == grid.y0 + (n \div grid.width)
              i == x - grid'.x0
              j == y - grid'.y0
          IN InBox(x, y)
               \/ (/\ i \in 0 .. grid'.width - 1
                   /\ j * grid'.width + i \in DOMAIN grid'.data
                   /\ grid'.data[j * grid'.width + i] = grid.data[n])
    ]_nvars

(* A server that is launched again with the file it was saved to has the   *)
(* occupancy of every voxel it had when the map was asked for, through     *)
(* whatever formats and servers the file has gone since.                   *)
SavedMapReturns ==
  [][ health = "down" /\ health' = "up" /\ file.kind # "none" =>
        OccupiedKeys(tree') = file.occupied /\ DOMAIN tree' = DOMAIN file.tree ]_nvars

(* No handler indexes outside of its data, however scans, clears, resets   *)
(* and parameter changes follow each other, but for a tracking server that *)
(* keeps changes back and is reset, a map whose cells are smaller than a   *)
(* leaf but larger than a voxel, a tree whose area has no keys, and an     *)
(* incremental map of which the last scan's box covers less than two       *)
(* columns and two rows, which the code asserts and a scan along one row   *)
(* or column does not fulfil.  A multilayer server needs the transforms of *)
(* the arms as well, or its layers have no data.                           *)
BoxCoversCells ==
  LET c == BoxInGrid(box, grid) IN c.x0 < c.x1 /\ c.y0 < c.y1
StaysUp ==
  /\ params.minChange = 0 /\ CellsHoldLeaves /\ HasKeys(tree)
  /\ incremental /\ depth = Depth => BoxCoversCells
  => health \in {"down", "up"}
==============================================================================

----------------------- MODULE OctomapServerMultilayer ------------------------
(***************************************************************************)
(* The multilayer server projects the voxels of some heights to maps of    *)
(* their own: a layer for the base, one for the spine and one for the      *)
(* arms, whose heights follow the arms' links.  Each layer has the area of *)
(* the projected map, and is written at the indices of that map.           *)
(***************************************************************************)
EXTENDS OctomapServer, Sequences

CONSTANTS
  Heights,      \* the heights of the layers, from multi_gridmap_'s min_z to max_z
  ArmHeights    \* the heights the arms' links can take; empty when their
                \*   transforms are not known

VARIABLES layers    \* multi_gridmap_

NoLayers == [l \in DOMAIN Heights |-> [z |-> Heights[l], grid |-> ClearedGrid]]

LayersInit == layers = NoLayers

ArmLayer == 3

(* The layers after handlePreNodeTraversal made grid g of the old grid g0: *)
(* without the transforms of the arms it returns before it touches them.   *)
Resized(l, g0, g, complete) ==
  [g EXCEPT !.data = IF complete THEN Blank(g.width, g.height)
                     ELSE IF SameArea(g0, g) THEN l.grid.data
                     ELSE Adjusted([g0 EXCEPT !.data = l.grid.data], g)]

LayersReady(g, complete) ==
  IF ArmHeights = {} THEN {layers}
  ELSE {[l \in DOMAIN layers |->
           [z |-> IF l = ArmLayer THEN arms ELSE layers[l].z,
            grid |-> Resized(layers[l], grid, g, complete)]] : arms \in ArmHeights}

(* update2DMap: a leaf is written to the layers it reaches into.           *)
InLayer(n, z) == n.corner[3] + WidthAt(n.depth) >= z.lo /\ n.corner[3] <= z.hi

LayerLeaves(t, m, l) == {n \in Leaves(t, m) : InMapZ(n) /\ InLayer(n, l.z)}

(* The indices are those of the projected map g, whatever the layer's size.*)
WrittenLayer(p, g, t, m, l) ==
  [l EXCEPT !.grid.data =
     Projected(p, [g EXCEPT !.data = l.grid.data], t, m, LayerLeaves(t, m, l)).data]

LayerAstray(p, g, t, m, l) ==
  \E n \in LayerLeaves(t, m, l) : ~(CellsOf(p, g, n, m) \subseteq DOMAIN l.grid.data)

(* A handler of the base class, with the hooks of this one.                *)
ProjectLayers ==
  /\ PublishingHandler
  /\ LET pre == PreTraversal(tree', box', grid, proj, depth', incremental') IN
     IF NothingToPublish(tree')
       THEN PublishAll(FALSE) /\ UNCHANGED layers
       ELSE \E ready \in LayersReady(pre.grid, pre.proj.complete) :
              /\ PublishAll(\E l \in DOMAIN ready :
                              LayerAstray(pre.proj, pre.grid, tree', depth', ready[l]))
              /\ layers' = IF health' = "up" /\ pre.proj.complete
                             THEN [l \in DOMAIN ready |->
                                     WrittenLayer(pre.proj, pre.grid, tree', depth', ready[l])]
                             ELSE ready

MultilayerNext ==
  \/ ProjectLayers
  \/ Reset /\ UNCHANGED layers
  \/ Stop /\ layers' = NoLayers
==============================================================================

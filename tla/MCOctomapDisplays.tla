-------------------------- MODULE MCOctomapDisplays ---------------------------
(***************************************************************************)
(* Maps of 128 voxels across: a solid block with a free voxel beside it,   *)
(* one voxel that appeared, two long maps that need several swatches, and  *)
(* a map of another type.                                                  *)
(***************************************************************************)
EXTENDS OctomapDisplays

MCClampMin == -1

Box3(x, y, z) == (x .. x + 2) \X (y .. y + 2) \X (z .. z + 2)
Tree(occ, free) == [k \in occ \cup free |-> IF k \in occ THEN 1 ELSE -1]
OfType(id, t) == [id |-> id, tree |-> t]

MCMessages ==
  { OfType("OcTree", Tree(Box3(64, 64, 64), {<<67, 65, 65>>})),
    OfType("OcTree", Tree({<<65, 66, 64>>}, {<<66, 66, 64>>})),
    OfType("OcTree", Tree({<<3, 10, 64>>, <<125, 15, 64>>}, {<<60, 12, 64>>})),
    OfType("OcTree", Tree({<<20, 30, 64>>, <<59, 89, 64>>}, {})),
    OfType("ColorOcTree", Tree({<<65, 66, 64>>}, {})) }

MCSettings ==
  { [show |-> {"occupied"}, depth |-> Depth, heights |-> 0 .. 2 * Side],
    [show |-> {"free", "occupied"}, depth |-> Depth, heights |-> 0 .. 2 * Side],
    [show |-> {"occupied"}, depth |-> Depth - 1, heights |-> 0 .. 130] }

MCUpdates ==
  { [x |-> 1, y |-> 0, width |-> 2, height |-> 2, data |-> <<0, 100, 100, 0>>] }
==============================================================================

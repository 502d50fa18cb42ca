-------------------------------- MODULE Octree --------------------------------
(***************************************************************************)
(* The occupancy octree the octomap packages share: a function from the    *)
(* voxels seen so far to their log-odds.  The nodes of the tree are        *)
(* derived from it.  The octomap library itself is not in the repository.  *)
(***************************************************************************)
EXTENDS Integers, FiniteSets, FiniteSetsExt, Functions

CONSTANTS
  Depth,        \* the depth of the tree: its deepest leaves are single voxels
  ClampMin,     \* log-odds are kept in ClampMin .. ClampMax,
  ClampMax      \*   and a voxel is occupied when they are not negative

ASSUME ClampAssumption ==
  ClampMin \in Int /\ ClampMax \in Int /\ ClampMin < 0 /\ ClampMax >= 0

ASSUME DepthAssumption == Depth \in Nat

Side == 2 ^ Depth
Zero == Side \div 2
Key == (0 .. Side - 1) \X (0 .. Side - 1) \X (0 .. Side - 1)
LogOdds == ClampMin .. ClampMax
NoTree == [k \in {} |-> 0]

Occupied(v) == v >= 0
Clamp(v) == IF v < ClampMin THEN ClampMin ELSE IF v > ClampMax THEN ClampMax ELSE v

OccupiedKeys(t) == {k \in DOMAIN t : Occupied(t[k])}

(* A block of depth d is 2^(Depth - d) voxels wide.  Blocks whose voxels   *)
(* are all known and equal are pruned to one leaf; a traversal that stops  *)
(* at depth m shows the blocks of depth m with the largest of their values.*)
WidthAt(d) == 2 ^ (Depth - d)
Corner(k, d) == [i \in 1 .. 3 |-> (k[i] \div WidthAt(d)) * WidthAt(d)]
Block(c, d) ==
  (c[1] .. c[1] + WidthAt(d) - 1) \X (c[2] .. c[2] + WidthAt(d) - 1)
                                  \X (c[3] .. c[3] + WidthAt(d) - 1)
Pruned(t, k, d) == \A j \in Block(Corner(k, d), d) : j \in DOMAIN t /\ t[j] = t[k]
LeafDepth(t, k) == Min({d \in 0 .. Depth : Pruned(t, k, d)})
Leaves(t, m) ==
  {LET d == Min({m, LeafDepth(t, k)}) IN [depth |-> d, corner |-> Corner(k, d)]
     : k \in DOMAIN t}
LeafValue(t, n) == Max({t[k] : k \in Block(n.corner, n.depth) \cap DOMAIN t})

NothingToPublish(t) == DOMAIN t = {} \/ \E k \in DOMAIN t : Pruned(t, k, 0)

(* What is left of a map in the binary form: occupied or free.             *)
MaxLikelihood(t) == [k \in DOMAIN t |-> IF Occupied(t[k]) THEN ClampMax ELSE ClampMin]
==============================================================================

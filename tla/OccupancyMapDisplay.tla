-------------------------- MODULE OccupancyMapDisplay --------------------------
(***************************************************************************)
(* The RViz display that shows the projection of an octomap as a map.      *)
(* processMessage builds current_map_, showMap brings it to the scene: the *)
(* map is cut into swatches, whose textures are filled from it, and the    *)
(* scene node is put where the map's frame is.  The update topic carries   *)
(* changes of a part of the map.                                           *)
(*                                                                         *)
(* Positions are in voxels; the map starts at the lowest voxel of the tree.*)
(***************************************************************************)
EXTENDS DisplayTopic

CONSTANTS
  MapDepths,    \* the depths the user may set: those of the tree
  Updates,      \* the updates of a part of the map: position, size and data
  MaxTexture    \* the largest texture the graphics card takes, in cells

(* At depth 0, which the property admits, begin(0) walks over the leaves   *)
(* while the cells are those of the whole space: the user sets at least 1. *)
ASSUME MapDepthsAssumption == MapDepths \subseteq 1 .. Depth

(* OpenGL asks for textures of 64 cells at least.                          *)
ASSUME TextureAssumption == MaxTexture \in Nat /\ MaxTexture >= 32

VARIABLES
  octree_depth_,
  update_subscription_,   \* whether there is one
  loaded_,
  current_map_,
  shown_size_,  \* width_, height_, resolution_
  swatches_,    \* the parts of the map that have a texture
  texture,      \* the map the textures were filled from
  hidden,       \* the scene node is not visible
  place         \* the origin the scene node was put at

picture_vars == <<loaded_, current_map_, shown_size_, swatches_, texture, hidden, place>>
map_display_vars == <<octree_depth_, update_subscription_, picture_vars>>

NoMap == [x0 |-> 0, y0 |-> 0, width |-> 0, height |-> 0, res |-> 0,
          data |-> [i \in {} |-> -1]]
NoSize == <<0, 0, 0>>

MapDisplayInit ==
  /\ octree_depth_ = Depth
  /\ update_subscription_ = TRUE
  /\ loaded_ = FALSE
  /\ current_map_ = NoMap
  /\ shown_size_ = NoSize
  /\ swatches_ = {}
  /\ texture = NoMap
  /\ hidden = FALSE
  /\ place = <<0, 0>>
------------------------------------------------------------------------------
(* The projection.  Cells are counted from the lowest voxel, at the depth  *)
(* of the display; the origin is one cell less one voxel further in x, and *)
(* one voxel less far in y.  A leaf is written to the cells of its first   *)
(* voxels, as many as there are cells across it.                           *)
LowestOf(t, i) == IF DOMAIN t = {} THEN Zero ELSE Min({k[i] : k \in DOMAIN t})
ExtentOf(t, i) ==
  IF DOMAIN t = {} THEN 0 ELSE Max({k[i] : k \in DOMAIN t}) + 1 - LowestOf(t, i)

CellsAlong(t, n, i, m) ==
  {Max({0, n.corner[i] + d - LowestOf(t, i)}) \div WidthAt(m)
     : d \in 0 .. 2 ^ (m - n.depth) - 1}

CellsUnder(t, n, m, w) ==
  {w * y + x : x \in CellsAlong(t, n, 1, m), y \in CellsAlong(t, n, 2, m)}

(* Mutant: free leaves override occupied ones.                             *)
MapOfFree(t, m) ==
  LET w == ExtentOf(t, 1) \div WidthAt(m) + 1
      h == ExtentOf(t, 2) \div WidthAt(m) + 1
      free == UNION {CellsUnder(t, n, m, w) : n \in {l \in Leaves(t, m) : ~Occupied(LeafValue(t, l))}}
      all == UNION {CellsUnder(t, n, m, w) : n \in Leaves(t, m)}
  IN [x0 |-> LowestOf(t, 1) - 1 + WidthAt(m), y0 |-> LowestOf(t, 2) - 1,
      width |-> w, height |-> h, res |-> WidthAt(m),
      data |-> [i \in 0 .. w * h - 1 |->
                  IF i \in free THEN 0 ELSE IF i \in all THEN 100 ELSE -1]]

MapOf(t, m) ==
  LET w == ExtentOf(t, 1) \div WidthAt(m) + 1
      h == ExtentOf(t, 2) \div WidthAt(m) + 1
      occ == UNION {CellsUnder(t, n, m, w) : n \in {l \in Leaves(t, m) : Occupied(LeafValue(t, l))}}
      all == UNION {CellsUnder(t, n, m, w) : n \in Leaves(t, m)}
  IN [x0 |-> LowestOf(t, 1) - 1 + WidthAt(m), y0 |-> LowestOf(t, 2) - 1,
      width |-> w, height |-> h, res |-> WidthAt(m),
      data |-> [i \in 0 .. w * h - 1 |->
                  IF i \in occ THEN 100 ELSE IF i \in all THEN 0 ELSE -1]]
------------------------------------------------------------------------------
(* The swatches.  The map is shown in 1, 2, 4 or 8 of them: the larger     *)
(* side of a swatch is halved as long as a texture is too large.  The last *)
(* swatch of a row or a column takes what is left over.                    *)
(* Mutant: the last swatch is as large as the others.                      *)
SameDimension(map, swatch, position) == swatch

EffectiveDimension(map, swatch, position) ==
  IF map - position - swatch >= swatch THEN swatch ELSE map - position

(* doubleSwatchNumber                                                      *)
Halved(s) == IF s[1] > s[2] THEN <<s[1] \div 2, s[2]>> ELSE <<s[1], s[2] \div 2>>

(* tryCreateSwatches: n swatches, one beside and then one above the other. *)
Walk(w, h, s, n) ==
  LET step[i \in 1 .. n] ==
        LET p == IF i = 1 THEN <<0, 0>>
                 ELSE LET q == step[i - 1] IN
                      IF q.x + q.w >= w THEN <<0, q.y + q.h>> ELSE <<q.x + q.w, q.y>>
        IN [x |-> p[1], y |-> p[2],
            w |-> EffectiveDimension(w, s[1], p[1]),
            h |-> EffectiveDimension(h, s[2], p[2])]
  IN {step[i] : i \in 1 .. n}

TextureFits(swatch) == swatch.w <= MaxTexture /\ swatch.h <= MaxTexture

(* createSwatches *)
Swatches(w, h) ==
  LET size[i \in 0 .. 3] == IF i = 0 THEN <<w, h>> ELSE Halved(size[i - 1])
      fits == {i \in 0 .. 3 : \A s \in Walk(w, h, size[i], 2 ^ i) : TextureFits(s)}
  IN IF fits = {} THEN {} ELSE Walk(w, h, size[Min(fits)], 2 ^ Min(fits))
------------------------------------------------------------------------------
(* showMap, for map g: it looks at the data and the size, cuts the map if  *)
(* its size is a new one, fills the textures and puts it in its place.     *)
(* A node that was hidden is seen again when its swatches are.             *)
SizeOf(g) == <<g.width, g.height, g.res>>

TransformMap(g, transformed) ==
  IF transformed THEN place' = <<g.x0, g.y0>> /\ UNCHANGED hidden
                 ELSE hidden' = TRUE /\ UNCHANGED place

ShowMap(g, transformed) ==
  /\ swatches_' = IF SizeOf(g) # shown_size_ THEN Swatches(g.width, g.height) ELSE swatches_
  /\ shown_size_' = SizeOf(g)
  /\ texture' = IF swatches_' # {} THEN g ELSE texture
  /\ IF transformed
       THEN place' = <<g.x0, g.y0>> /\ hidden' = (hidden /\ swatches_' = {})
       ELSE hidden' = TRUE /\ UNCHANGED place

ClearMap ==
  /\ loaded_' = FALSE
  /\ swatches_' = IF loaded_ THEN {} ELSE swatches_
  /\ shown_size_' = IF loaded_ THEN NoSize ELSE shown_size_
  /\ UNCHANGED <<current_map_, texture, hidden, place>>
------------------------------------------------------------------------------
(* processMessage *)
ProcessMapMessage ==
  /\ Take
  /\ LET m == Head(taken) IN
     IF m.id # "OcTree" THEN UNCHANGED map_display_vars
     ELSE /\ current_map_' = MapOf(m.tree, octree_depth_)
          /\ loaded_' = TRUE
          /\ \E transformed \in BOOLEAN : ShowMap(current_map_', transformed)
          /\ UNCHANGED <<octree_depth_, update_subscription_>>

(* incomingUpdate.  Every row of the updated part gets the first row of    *)
(* the data (updateMapDataInMemory copies from update->data.begin() for    *)
(* each of them).                                                          *)
OutOfBounds(u, g) == u.x < 0 \/ u.y < 0 \/ g.width < u.x + u.width \/ g.height < u.y + u.height

WithUpdate(g, u) ==
  [g EXCEPT !.data = [i \in DOMAIN g.data |->
     LET x == (i % g.width) - u.x
         y == (i \div g.width) - u.y
     IN IF x \in 0 .. u.width - 1 /\ y \in 0 .. u.height - 1
          THEN u.data[x + 1] ELSE g.data[i]]]

IncomingUpdate(u) ==
  /\ messages < MaxMessages
  /\ update_subscription_
  /\ messages' = messages + 1
  /\ IF ~loaded_ \/ OutOfBounds(u, current_map_) THEN UNCHANGED map_display_vars
     ELSE /\ current_map_' = WithUpdate(current_map_, u)
          /\ \E transformed \in BOOLEAN : ShowMap(current_map_', transformed)
          /\ UNCHANGED <<octree_depth_, update_subscription_, loaded_>>
  /\ UNCHANGED <<published, enabled, durable, taken, commands>>

(* update, in the render loop, and fixedFrameChanged.                      *)
UpdateMapDisplay ==
  /\ loaded_
  /\ \E transformed \in BOOLEAN : TransformMap(current_map_, transformed)
  /\ UNCHANGED <<topic_vars, octree_depth_, update_subscription_, loaded_, current_map_,
                 shown_size_, swatches_, texture>>

(* updateTreeDepth: the next message is projected to it.                   *)
UpdateMapDepth(m) ==
  /\ m # octree_depth_
  /\ Command
  /\ octree_depth_' = m
  /\ UNCHANGED <<update_subscription_, picture_vars>>

(* updateTopic, onEnable and onDisable: the subscriptions end and begin    *)
(* anew, and a reset clears the map.                                       *)
EnableMapDisplay(on) ==
  /\ Resubscribe(on)
  /\ update_subscription_' = on
  /\ IF on /\ ~enabled THEN UNCHANGED picture_vars ELSE ClearMap
  /\ UNCHANGED octree_depth_

(* reset, and updateMapUpdateTopic, which subscribes to the updates also   *)
(* when the display is disabled.                                           *)
ResetMapDisplay ==
  /\ Command
  /\ ClearMap
  /\ update_subscription_' \in {update_subscription_, TRUE}
  /\ UNCHANGED octree_depth_

MapDisplayNext ==
  \/ \E m \in Messages : Publish(m) /\ UNCHANGED map_display_vars
  \/ ProcessMapMessage
  \/ \E u \in Updates : IncomingUpdate(u)
  \/ UpdateMapDisplay
  \/ \E m \in MapDepths : UpdateMapDepth(m)
  \/ \E on \in BOOLEAN : EnableMapDisplay(on)
  \/ ResetMapDisplay
==============================================================================

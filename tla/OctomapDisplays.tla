---------------------------- MODULE OctomapDisplays ----------------------------
(***************************************************************************)
(* The octomap displays of RViz on the topic of an octomap server: one     *)
(* that shows voxels, or one that shows the projected map.                 *)
(***************************************************************************)
EXTENDS OccupancyGridDisplay, OccupancyMapDisplay

VARIABLE display    \* "grid" or "map"

dvars == <<topic_vars, grid_display_vars, map_display_vars, display>>

DisplaysInit ==
  /\ TopicInit /\ GridDisplayInit /\ MapDisplayInit
  /\ display \in {"grid", "map"}

DisplaysNext ==
  \/ display = "grid" /\ GridDisplayNext /\ UNCHANGED <<map_display_vars, display>>
  \/ display = "map" /\ MapDisplayNext /\ UNCHANGED <<grid_display_vars, display>>

(* The user interface processes what was taken, and renders.               *)
Fairness ==
  /\ WF_dvars(display = "grid" /\ ProcessGridMessage /\ UNCHANGED <<map_display_vars, display>>)
  /\ WF_dvars(display = "grid" /\ UpdateGridDisplay /\ UNCHANGED <<map_display_vars, display>>)

DisplaysSpec == DisplaysInit /\ [][DisplaysNext]_dvars /\ Fairness
------------------------------------------------------------------------------
(* The voxel display shows the visible surface of one message's voxels     *)
(* under one choice of the properties: every voxel to be shown that has an *)
(* open face, seen at the depth of the display, and no other; never the    *)
(* voxels of two messages or of two choices.                               *)
SeenAt(t, s) ==
  {k \in DOMAIN t :
     Kind(Max({t[j] : j \in Block(Corner(k, ShownDepth(s)), ShownDepth(s)) \cap DOMAIN t}))
       \in s.show}
OpenFace(n, seen, s) ==
  \E axis \in 1 .. 3, at \in {-1, WidthAt(n.depth)} :
    \E j \in Block(n.corner, n.depth) :
      LET k == [j EXCEPT ![axis] = n.corner[axis] + at] IN
      {i \in seen : Corner(i, ShownDepth(s)) = Corner(k, ShownDepth(s))} = {}
Surface(t, s) ==
  {n \in Leaves(t, ShownDepth(s)) :
     /\ Height(n) \in s.heights
     /\ n.corner \in UNION {Block(Corner(k, ShownDepth(s)), ShownDepth(s)) : k \in SeenAt(t, s)}
     /\ OpenFace(n, SeenAt(t, s), s)}
ShowsOneSurface ==
  cloud_ = {} \/ \E m \in Messages, s \in Settings : cloud_ = Surface(m.tree, s)

(* Once the server and the user are done, the voxel display comes to show  *)
(* the last message under the properties as they are, if the display gets  *)
(* the latched message and anything is selected of it, in whatever order   *)
(* messages, properties and renderings came before.                        *)
SettlesOnCurrent ==
  <>[]( /\ display = "grid" /\ enabled /\ durable /\ ~dropped
        /\ TypeChecked(published) /\ Selected(published.tree, properties) # {}
        => cloud_ = Selected(published.tree, properties) )

(* The picture is that of current_map_, whichever messages and updates     *)
(* made it: every texture was filled from it, its swatches cover each of   *)
(* its cells once, and it is where its frame is, or not visible.  (What an *)
(* update leaves in current_map_ is another matter: see WithUpdate.)       *)
Covers(S, w, h) ==
  \A x \in 0 .. w - 1, y \in 0 .. h - 1 :
    Cardinality({s \in S : x \in s.x .. s.x + s.w - 1 /\ y \in s.y .. s.y + s.h - 1}) = 1
PictureIsCurrent ==
  loaded_ /\ swatches_ # {} =>
    /\ texture = current_map_
    /\ Covers(swatches_, current_map_.width, current_map_.height)
    /\ hidden \/ place = <<current_map_.x0, current_map_.y0>>

(* No obstacle is lost in the map and none is invented: an occupied voxel  *)
(* has an occupied cell, and an occupied cell an occupied voxel, at most   *)
(* two cells away.  (When the display is coarser than the tree, as long as *)
(* no leaf of the tree is larger than a cell.)                             *)
Near(g, i, k) ==
  /\ Max({g.x0 + (i % g.width) * g.res - k[1], k[1] - g.x0 - (i % g.width) * g.res})
       <= 2 * g.res
  /\ Max({g.y0 + (i \div g.width) * g.res - k[2], k[2] - g.y0 - (i \div g.width) * g.res})
       <= 2 * g.res
ObstaclesDrawn ==
  [][ display = "map" /\ taken # <<>> /\ taken' = Tail(taken) /\ Head(taken).id = "OcTree"
        /\ (\A n \in Leaves(Head(taken).tree, Depth) :
              octree_depth_ = Depth \/ n.depth >= octree_depth_) =>
        LET occ == OccupiedKeys(Head(taken).tree)
            cells == {i \in DOMAIN current_map_'.data : current_map_'.data[i] = 100}
        IN /\ \A k \in occ : \E i \in cells : Near(current_map_', i, k)
           /\ \A i \in cells : \E k \in occ : Near(current_map_', i, k)
    ]_dvars
==============================================================================

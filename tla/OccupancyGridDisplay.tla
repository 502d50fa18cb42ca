------------------------- MODULE OccupancyGridDisplay --------------------------
(***************************************************************************)
(* The RViz display that shows the voxels of an octomap.  processMessage   *)
(* selects the voxels to show and leaves them in new_points_; the next     *)
(* update of the render loop takes them over.  Every change of a property  *)
(* clears the display and subscribes again, so that the message is         *)
(* selected from anew.  Colours and the pose of the frame are left out,    *)
(* and so is the size of the boxes: the voxels of a server have one size.  *)
(***************************************************************************)
EXTENDS DisplayTopic

CONSTANT Settings   \* the properties: what to show, and to which depth and
                    \*   between which heights

ASSUME SettingsAssumption == \A s \in Settings : s.depth \in Nat

VARIABLES
  properties,           \* the settings
  new_points_received_,
  new_points_,          \* the leaves processMessage selected
  cloud_,               \* the leaves on display
  dropped               \* history: the message on the topic was not transformed,
                        \*   or was cleared away, and is not to come again

grid_display_vars == <<properties, new_points_received_, new_points_, cloud_, dropped>>

GridDisplayInit ==
  /\ properties \in Settings
  /\ new_points_received_ = FALSE
  /\ new_points_ = {}
  /\ cloud_ = {}
  /\ dropped = FALSE

TypeChecked(m) == m.id = "OcTree"
------------------------------------------------------------------------------
(* The selection.  A voxel is hidden when there are nodes to be shown next *)
(* to all of its faces; they are looked up at the depth of the display, at *)
(* every step-th voxel of a face.                                          *)
ShownDepth(s) == Min({s.depth, Depth})
Kind(v) == IF Occupied(v) THEN "occupied" ELSE "free"

FoundAt(t, s, k) ==
  LET b == Block(Corner(k, ShownDepth(s)), ShownDepth(s)) \cap DOMAIN t
  IN b # {} /\ Kind(Max({t[j] : j \in b})) \in s.show

(* Keys are unsigned and wrap around at the ends of the space.  A voxel at *)
(* an upper end has an end of its face that no key reaches: the loop goes  *)
(* round until a node is missing (for ever, in a row without gaps).        *)
AlongFace(n, s, i) ==
  LET end == IF n.corner[i] + WidthAt(n.depth) < Side THEN WidthAt(n.depth) ELSE Side
  IN {d \in 0 .. end - 1 : d % WidthAt(ShownDepth(s)) = 0}

FaceKeys(n, s, axis, side) ==
  LET w == WidthAt(n.depth)
      next == (axis % 3) + 1
  IN {[i \in 1 .. 3 |->
         (n.corner[i] + (IF i = axis THEN IF side = "low" THEN -1 ELSE w
                         ELSE IF i = next THEN d[1] ELSE d[2])) % Side]
        : d \in AlongFace(n, s, next) \X AlongFace(n, s, (next % 3) + 1)}

(* Mutant: the faces above and below are not looked at.                    *)
SideNeighborsFound(t, s, n) ==
  \A axis \in 1 .. 2, side \in {"low", "high"} :
    \A k \in FaceKeys(n, s, axis, side) : FoundAt(t, s, k)

AllNeighborsFound(t, s, n) ==
  \A axis \in 1 .. 3, side \in {"low", "high"} :
    \A k \in FaceKeys(n, s, axis, side) : FoundAt(t, s, k)

(* The height of the centre of a voxel, in half voxels.                    *)
Height(n) == 2 * n.corner[3] + WidthAt(n.depth)

Selected(t, s) ==
  {n \in Leaves(t, ShownDepth(s)) :
     /\ Height(n) \in s.heights
     /\ Kind(LeafValue(t, n)) \in s.show
     /\ ~AllNeighborsFound(t, s, n)}
------------------------------------------------------------------------------
(* processMessage.  A message of another type or whose frame cannot be     *)
(* transformed is dropped; one that selects nothing leaves the new points  *)
(* of the message before.                                                  *)
ProcessGridMessage ==
  /\ Take
  /\ LET m == Head(taken)
         points == Selected(m.tree, properties)
     IN \E transformed \in BOOLEAN :
          /\ dropped' = IF m = published /\ TypeChecked(m) THEN ~transformed ELSE dropped
          /\ IF TypeChecked(m) /\ transformed /\ points # {}
               THEN new_points_' = points /\ new_points_received_' = TRUE
               ELSE UNCHANGED <<new_points_, new_points_received_>>
  /\ UNCHANGED <<properties, cloud_>>

(* update, in the render loop.                                             *)
UpdateGridDisplay ==
  /\ new_points_received_
  /\ new_points_received_' = FALSE
  /\ cloud_' = new_points_
  /\ new_points_' = {}
  /\ UNCHANGED <<topic_vars, properties, dropped>>

(* Mutant: the subscription is left as it is.                              *)
UpdatePropertyOnly(s) ==
  /\ properties' = s
  /\ properties' # properties
  /\ Command
  /\ cloud_' = {}
  /\ UNCHANGED <<new_points_received_, new_points_, dropped>>

(* updateTreeDepth, updateOctreeRenderMode, updateMaxHeight, ...: clear,   *)
(* unsubscribe and subscribe.                                              *)
UpdateProperty(s) ==
  /\ properties' = s
  /\ properties' # properties
  /\ Resubscribe(enabled)
  /\ cloud_' = {}
  /\ UNCHANGED <<new_points_received_, new_points_, dropped>>

(* onEnable and onDisable: subscribe, or unsubscribe and reset.            *)
EnableGridDisplay(on) ==
  /\ on # enabled
  /\ Resubscribe(on)
  /\ cloud_' = IF on THEN cloud_ ELSE {}
  /\ UNCHANGED <<properties, new_points_received_, new_points_, dropped>>

ResetGridDisplay ==
  /\ Command
  /\ cloud_' = {}
  /\ dropped' = TRUE
  /\ UNCHANGED <<properties, new_points_received_, new_points_>>

GridDisplayNext ==
  \/ \E m \in Messages :
       /\ Publish(m)
       /\ dropped' = FALSE
       /\ UNCHANGED <<properties, new_points_received_, new_points_, cloud_>>
  \/ ProcessGridMessage
  \/ UpdateGridDisplay
  \/ \E s \in Settings : UpdateProperty(s)
  \/ \E on \in BOOLEAN : EnableGridDisplay(on)
  \/ ResetGridDisplay
==============================================================================

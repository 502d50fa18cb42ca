------------------------ MODULE TrackingOctomapServer -------------------------
(***************************************************************************)
(* Two octomap servers on two robots or machines: the tracking one builds  *)
(* the tree and sends the voxels whose occupancy changed, the listening    *)
(* one applies them to a tree of its own.  The topic keeps one message:    *)
(* one that is not taken before the next is sent is lost.                  *)
(***************************************************************************)
EXTENDS OctomapServer

VARIABLES
  changed,      \* the keys that changed since the last message, and whether
                \*   the voxel was created since then
  wire,         \* the message under way: what each voxel in it is now
  copy,         \* the listener's tree: whether each known voxel is occupied
  missed        \* history: the voxels with a change that no message told

tracking_vars == <<changed, wire, copy, missed>>

NoVoxels == [k \in {} |-> FALSE]

TrackingInit ==
  /\ changed = NoVoxels
  /\ wire = NoVoxels
  /\ copy = NoVoxels
  /\ missed = {}

(* The change detection of the tree: a voxel that changes back is taken    *)
(* out again, unless it was created since the last message.                *)
Toggled(t, u) == {k \in DOMAIN t : Occupied(t[k]) # Occupied(u[k])}
(* Mutant: every voxel that changes back is taken out.                     *)
ChangesBack(ch, t, u) ==
  LET back == Toggled(t, u) \cap DOMAIN ch
  IN [k \in (DOMAIN ch \ back) \cup (DOMAIN u \ DOMAIN t) \cup (Toggled(t, u) \ back) |->
        IF k \in DOMAIN ch THEN ch[k] ELSE k \notin DOMAIN t]

Changes(ch, t, u) ==
  LET back == {k \in Toggled(t, u) \cap DOMAIN ch : ~ch[k]}
  IN [k \in (DOMAIN ch \ back) \cup (DOMAIN u \ DOMAIN t) \cup (Toggled(t, u) \ back) |->
        IF k \in DOMAIN ch THEN ch[k] ELSE k \notin DOMAIN t]

Message(t, ch) == [k \in DOMAIN ch |-> Occupied(t[k])]

(* trackChanges, after a scan made tree' of tree.                          *)
TrackChanges(ch) ==
  IF Cardinality(DOMAIN ch) > params.minChange
    THEN /\ changed' = NoVoxels
         /\ wire' = Message(tree', ch)
         /\ missed' = (missed \cup DOMAIN wire) \ DOMAIN ch
         /\ UNCHANGED copy
    ELSE /\ changed' = ch
         /\ UNCHANGED <<wire, copy, missed>>

(* insertCloudCallback of the tracking server.  A changed key without a    *)
(* node, left over from before a reset, is looked up in vain.              *)
OnCloudTracked(c) ==
  /\ health = "up"
  /\ InsertCloud(c)
  /\ UNCHANGED <<params, depth, incremental, file>>
  /\ LET ch == Changes(changed, tree, tree') IN
     IF DOMAIN ch \subseteq DOMAIN tree'
       THEN TrackChanges(ch) /\ PublishAll(FALSE)
       ELSE /\ health' = "stray"
            /\ changed' = ch
            /\ UNCHANGED <<grid, proj, out, wire, copy, missed>>

(* A map file and the services change the tree behind the back of the      *)
(* change detection, and a server that is started again has forgotten its  *)
(* tree.                                                                   *)
LaunchTracked ==
  /\ Launch
  /\ PublishAll(FALSE)
  /\ missed' = missed \cup DOMAIN tree'
  /\ UNCHANGED <<changed, wire, copy>>

SetParameterTracked(m) ==
  /\ SetParameter(m, incremental)
  /\ PublishAll(FALSE)
  /\ UNCHANGED tracking_vars

ClearBBoxTracked(b) ==
  /\ ClearBBox(b)
  /\ PublishAll(FALSE)
  /\ missed' = missed \cup Toggled(tree, tree')
  /\ UNCHANGED <<changed, wire, copy>>

ResetTracked ==
  /\ Reset
  /\ missed' = missed \cup DOMAIN tree
  /\ UNCHANGED <<changed, wire, copy>>

StopTracked ==
  /\ Stop
  /\ changed' = NoVoxels
  /\ missed' = missed \cup DOMAIN tree \cup DOMAIN changed
  /\ UNCHANGED <<wire, copy>>

(* trackCallback: +1000 and -1000 clamp a voxel whatever it was.           *)
Deliver ==
  /\ wire # NoVoxels
  /\ copy' = [k \in DOMAIN copy \cup DOMAIN wire |->
                IF k \in DOMAIN wire THEN wire[k] ELSE copy[k]]
  /\ wire' = NoVoxels
  /\ UNCHANGED <<server_vars, changed, missed>>

TrackingNext ==
  \/ LaunchTracked
  \/ \E m \in params.depths : SetParameterTracked(m)
  \/ \E c \in params.clouds : OnCloudTracked(c)
  \/ \E b \in Boxes : ClearBBoxTracked(b)
  \/ ResetTracked
  \/ StopTracked
  \/ Deliver
------------------------------------------------------------------------------
(* The listener agrees with the tracking server on every voxel whose       *)
(* change is neither waiting to be sent, nor under way, nor lost: lost are *)
(* only the changes of an overwritten message and those a service made,    *)
(* and they are made good by the next change of the voxel that is sent.    *)
ListenerAgrees ==
  \A k \in (DOMAIN tree \cup DOMAIN copy)
             \ (DOMAIN changed \cup DOMAIN wire \cup missed) :
    /\ k \in DOMAIN tree /\ k \in DOMAIN copy
    /\ copy[k] = Occupied(tree[k])
==============================================================================

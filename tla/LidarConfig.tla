----------------------------- MODULE LidarConfig -----------------------------
(***************************************************************************)
(* How livox_ros_driver2 brings a lidar up.  When the SDK finds a lidar it *)
(* calls LidarInfoChangeCallback, again whenever the lidar's information   *)
(* changes.  The callback looks the lidar up in the table of slots         *)
(* (CacheIndex), gives it a slot when it has none, or sends it the         *)
(* settings of its slot.  The lidar answers each setting on its own; when  *)
(* no setting waits for an answer any more the lidar counts as sampling    *)
(* and DriverPipeline starts to publish its data.                          *)
(*                                                                         *)
(* The callbacks run on threads of the SDK, which is not part of the       *)
(* repository.  Nothing is assumed about their number: what a callback     *)
(* does between two lock operations is one step.  The requests for the     *)
(* installation attitude, the work mode and the IMU are left out: their    *)
(* callbacks send them again or forget them, and change no state.          *)
(***************************************************************************)
EXTENDS Naturals

CONSTANTS
  NumHandles,     \* lidars on the network, handles 1 .. NumHandles
  NumConfigured,  \* the first of them are those of the configuration file
  NumSlots,       \* kMaxSourceLidar
  Params,         \* the settings: data type, scan pattern, blind spot, dual emit
  Threads,        \* the SDK threads that report lidars
  MaxInfo         \* bound: how often lidars are reported

ASSUME ConfigAssumption ==
  /\ NumHandles \in Nat \ {0}
  /\ NumSlots \in Nat
  /\ NumConfigured \in 0 .. NumHandles
  /\ MaxInfo \in Nat

Handles == 1 .. NumHandles
Slots == 1 .. NumSlots
NoSlot == 0

VARIABLES
  map_index,      \* CacheIndex::map_index_: the slot of a lidar
  index_cache,    \* CacheIndex::index_cache_: the slots in use
  livox_config,   \* the settings a slot has a value for, that is not -1
  set_bits,       \* the settings of a slot that wait for an answer
  connect_state,
  in_flight,      \* the settings sent to a lidar and not answered yet
  pc, handle,     \* the reporting threads
  infos,          \* how often lidars were reported
  acked,          \* history: the settings a lidar has confirmed
  refused         \* history: the settings a lidar has refused

table_vars == <<map_index, index_cache>>
device_vars == <<livox_config, set_bits, connect_state>>
history_vars == <<acked, refused>>
vars == <<table_vars, device_vars, in_flight, pc, handle, infos,
          history_vars>>

Configured == {h \in 1 .. NumConfigured : h <= NumSlots}

(* InitLivoxLidar fills a slot for each lidar of the file before it        *)
(* registers the callback.  The other slots are static storage: all their  *)
(* settings are 0, a value, and not -1.                                    *)
Init ==
  /\ map_index = [h \in Handles |-> IF h \in Configured THEN h ELSE NoSlot]
  /\ index_cache = Configured
  /\ livox_config \in [Slots -> SUBSET Params]
  /\ \A s \in Slots \ Configured : livox_config[s] = Params
  /\ set_bits = [s \in Slots |-> {}]
  /\ connect_state = [s \in Slots |-> "Off"]
  /\ in_flight = [h \in Handles |-> [p \in Params |-> 0]]
  /\ pc = [t \in Threads |-> "idle"]
  /\ handle = [t \in Threads |-> 1]
  /\ infos = 0
  /\ acked = [h \in Handles |-> {}]
  /\ refused = [h \in Handles |-> {}]

Goto(t, label) == pc' = [pc EXCEPT ![t] = label]

Send(h, settings) ==
  in_flight' = [in_flight EXCEPT ![h] =
                  [p \in Params |-> IF p \in settings THEN @[p] + 1 ELSE @[p]]]

-----------------------------------------------------------------------------
(* LivoxLidarCallback::LidarInfoChangeCallback.                            *)

LidarInfoChange(t, h) ==
  /\ pc[t] = "idle"
  /\ infos < MaxInfo
  /\ infos' = infos + 1
  /\ handle' = [handle EXCEPT ![t] = h]
  /\ Goto(t, IF map_index[h] = NoSlot THEN "find" ELSE "configure")
  /\ UNCHANGED <<table_vars, device_vars, in_flight, history_vars>>

(* CacheIndex::GetFreeIndex takes its lock twice: to look the lidar up     *)
(* again, and to take the first free slot.                                 *)
FindIndex(t) ==
  /\ pc[t] = "find"
  /\ Goto(t, IF map_index[handle[t]] = NoSlot THEN "allocate" ELSE "idle")
  /\ UNCHANGED <<table_vars, device_vars, in_flight, handle, infos,
                 history_vars>>

FreeSlots == Slots \ index_cache

IsFirstFree(s) == s \in FreeSlots /\ \A r \in FreeSlots : s <= r

(* Mutant: the slot taken is not marked as used.                           *)
AllocateUnmarked(t) ==
  /\ pc[t] = "allocate"
  /\ \E s \in FreeSlots :
       /\ IsFirstFree(s)
       /\ map_index' = [map_index EXCEPT ![handle[t]] = s]
  /\ Goto(t, "idle")
  /\ UNCHANGED <<index_cache, device_vars, in_flight, handle, infos, history_vars>>

Allocate(t) ==
  /\ pc[t] = "allocate"
  /\ \E s \in FreeSlots :
       /\ IsFirstFree(s)
       /\ map_index' = [map_index EXCEPT ![handle[t]] = s]
       /\ index_cache' = index_cache \cup {s}
  /\ Goto(t, "idle")
  /\ UNCHANGED <<device_vars, in_flight, handle, infos, history_vars>>

AllocateFails(t) ==
  /\ pc[t] = "allocate"
  /\ FreeSlots = {}
  /\ Goto(t, "idle")
  /\ UNCHANGED <<table_vars, device_vars, in_flight, handle, infos,
                 history_vars>>

(* With config_mutex_ held: mark every setting that has a value and send   *)
(* it.                                                                     *)
Configure(t) ==
  LET s == map_index[handle[t]]
  IN  /\ pc[t] = "configure"
      /\ set_bits' = [set_bits EXCEPT ![s] = @ \cup livox_config[s]]
      /\ Send(handle[t], livox_config[s])
      /\ Goto(t, "idle")
      /\ UNCHANGED <<table_vars, livox_config, connect_state, handle, infos,
                     history_vars>>

-----------------------------------------------------------------------------
(* The answers.  A request ends with an answer or, in the SDK, a timeout.  *)

Answered(h, p) ==
  /\ in_flight[h][p] > 0
  /\ in_flight' = [in_flight EXCEPT ![h][p] = @ - 1]

(* Mutant: the lidar counts as sampling with its first setting.            *)
SettingDoneAtOnce(h, p) ==
  LET s == map_index[h]
  IN  /\ Answered(h, p)
      /\ set_bits' = [set_bits EXCEPT ![s] = @ \ {p}]
      /\ connect_state' = [connect_state EXCEPT ![s] = "Sampling"]
      /\ acked' = [acked EXCEPT ![h] = @ \cup {p}]
      /\ UNCHANGED <<table_vars, livox_config, pc, handle, infos, refused>>

(* SetDataTypeCallback, SetPatternModeCallback, SetBlindSpotCallback and   *)
(* SetDualEmitCallback, with config_mutex_ held: the last setting          *)
(* confirmed makes the lidar a sampling one.                               *)
SettingDone(h, p) ==
  LET s == map_index[h]
  IN  /\ Answered(h, p)
      /\ set_bits' = [set_bits EXCEPT ![s] = @ \ {p}]
      /\ connect_state' = [connect_state EXCEPT ![s] =
                             IF set_bits[s] \ {p} = {} THEN "Sampling" ELSE @]
      /\ acked' = [acked EXCEPT ![h] = @ \cup {p}]
      /\ UNCHANGED <<table_vars, livox_config, pc, handle, infos, refused>>

(* A refused setting keeps its bit for good: the lidar is not sampling     *)
(* unless it is reported again.                                            *)
SettingRefused(h, p) ==
  /\ Answered(h, p)
  /\ refused' = [refused EXCEPT ![h] = @ \cup {p}]
  /\ UNCHANGED <<table_vars, device_vars, pc, handle, infos, acked>>

(* Mutant: a setting that timed out is not sent again.                     *)
SettingGivenUp(h, p) ==
  /\ Answered(h, p)
  /\ UNCHANGED <<table_vars, device_vars, pc, handle, infos, history_vars>>

(* The callback sends the same setting again.                              *)
SettingTimedOut(h, p) ==
  /\ in_flight[h][p] > 0
  /\ UNCHANGED vars

-----------------------------------------------------------------------------
Report(t) == FindIndex(t) \/ Allocate(t) \/ AllocateFails(t) \/ Configure(t)

Next ==
  \/ \E t \in Threads, h \in Handles : LidarInfoChange(t, h)
  \/ \E t \in Threads : Report(t)
  \/ \E h \in Handles, p \in Params :
       SettingDone(h, p) \/ SettingRefused(h, p) \/ SettingTimedOut(h, p)

Spec == Init /\ [][Next]_vars

(* A callback that runs ends, and a setting sent again and again is        *)
(* confirmed or refused at last.                                           *)
Fairness ==
  /\ \A t \in Threads : WF_vars(Report(t))
  /\ \A h \in Handles, p \in Params :
       WF_vars(SettingDone(h, p) \/ SettingRefused(h, p))

FairSpec == Spec /\ Fairness

-----------------------------------------------------------------------------
(* Correctness.                                                            *)

TypeOK ==
  /\ map_index \in [Handles -> Slots \cup {NoSlot}]
  /\ index_cache \subseteq Slots
  /\ livox_config \in [Slots -> SUBSET Params]
  /\ set_bits \in [Slots -> SUBSET Params]
  /\ connect_state \in [Slots -> {"Off", "Sampling"}]
  /\ in_flight \in [Handles -> [Params -> Nat]]
  /\ pc \in [Threads -> {"idle", "find", "allocate", "configure"}]
  /\ handle \in [Threads -> Handles]
  /\ infos \in 0 .. MaxInfo
  /\ acked \in [Handles -> SUBSET Params]
  /\ refused \in [Handles -> SUBSET Params]

(* Two lidars never share a slot, and with it a queue and a publisher,     *)
(* however their reports interleave between the two locked parts of        *)
(* GetFreeIndex and although there may be fewer slots than lidars.         *)
SlotsApart ==
  /\ \A h, k \in Handles :
       map_index[h] = map_index[k] /\ h # k => map_index[h] = NoSlot
  /\ \A h \in Handles : map_index[h] # NoSlot => map_index[h] \in index_cache

(* A lidar of the configuration file is published only after it has        *)
(* confirmed every setting of its entry, whatever was reported twice,      *)
(* confirmed out of order, refused or sent again in between.               *)
SamplesAsConfigured ==
  \A h \in Configured :
    connect_state[h] = "Sampling" => livox_config[h] \subseteq acked[h]

(* The inductive strengthening: a lidar of the file keeps the slot it was  *)
(* given, only its own callbacks touch the slot, and a setting that was    *)
(* sent is waited for or confirmed.                                        *)
HasItsSlot == \A h \in Configured : map_index[h] = h

SlotlessIsSilent ==
  /\ \A h \in Handles : map_index[h] = NoSlot =>
       \A p \in Params : in_flight[h][p] = 0
  /\ \A t \in Threads : pc[t] = "configure" => map_index[handle[t]] # NoSlot
  /\ \A t \in Threads : pc[t] \in {"find", "allocate"} => handle[t] \notin Configured

WaitsOrConfirmed ==
  \A h \in Configured, p \in Params :
    in_flight[h][p] > 0 => livox_config[h] \subseteq set_bits[h] \cup acked[h]

ConfigInv ==
  /\ TypeOK
  /\ SlotsApart
  /\ HasItsSlot
  /\ SlotlessIsSilent
  /\ WaitsOrConfirmed
  /\ SamplesAsConfigured

(* A lidar of the file whose settings were sent samples at last, unless it *)
(* refuses one: a lost answer only delays it.                              *)
ConfiguredSamples ==
  \A h \in Configured :
    (\E p \in Params : in_flight[h][p] > 0) ~>
       (connect_state[h] = "Sampling" \/ refused[h] # {})
==============================================================================

-------------------------- MODULE LidarConfigProofs --------------------------
(***************************************************************************)
(* For every number of lidars, slots, settings and SDK threads: two lidars *)
(* never share a slot, and a lidar of the configuration file samples only  *)
(* with all its settings confirmed.                                        *)
(***************************************************************************)
EXTENDS LidarConfig, TLAPS

LEMMA InvInit == Init => ConfigInv
<1>. SUFFICES ASSUME Init PROVE ConfigInv
  OBVIOUS
<1>. USE ConfigAssumption DEF Init, Configured, Handles, Slots, NoSlot
<1>1. TypeOK
  <2>1. map_index \in [Handles -> Slots \cup {NoSlot}]
    OBVIOUS
  <2>2. index_cache \subseteq Slots
    OBVIOUS
  <2>3. /\ set_bits \in [Slots -> SUBSET Params]
        /\ connect_state \in [Slots -> {"Off", "Sampling"}]
    OBVIOUS
  <2>4. /\ in_flight \in [Handles -> [Params -> Nat]]
        /\ acked \in [Handles -> SUBSET Params]
        /\ refused \in [Handles -> SUBSET Params]
    OBVIOUS
  <2>5. /\ pc \in [Threads -> {"idle", "find", "allocate", "configure"}]
        /\ handle \in [Threads -> Handles]
        /\ infos \in 0 .. MaxInfo
    OBVIOUS
  <2>. QED  BY <2>1, <2>2, <2>3, <2>4, <2>5 DEF TypeOK
<1>2. SlotsApart /\ HasItsSlot
  <2>1. \A h \in Handles :
          \/ h \in Configured /\ map_index[h] = h
          \/ h \notin Configured /\ map_index[h] = NoSlot
    OBVIOUS
  <2>2. HasItsSlot
    BY <2>1 DEF HasItsSlot
  <2>3. SlotsApart
    BY <2>1 DEF SlotsApart
  <2>. QED  BY <2>2, <2>3
<1>3. SlotlessIsSilent /\ WaitsOrConfirmed /\ SamplesAsConfigured
  BY DEF SlotlessIsSilent, WaitsOrConfirmed, SamplesAsConfigured
<1>. QED  BY <1>1, <1>2, <1>3 DEF ConfigInv

(* The slot of a lidar of the file is the lidar's own.                     *)
LEMMA OwnSlot ==
  ASSUME SlotsApart, HasItsSlot, NEW h \in Handles, NEW k \in Configured,
         map_index[h] = k
  PROVE  h = k
<1>1. k \in Handles /\ k # NoSlot
  BY ConfigAssumption DEF Configured, Handles, NoSlot
<1>2. map_index[h] = map_index[k]
  BY DEF HasItsSlot
<1>. QED  BY <1>1, <1>2 DEF SlotsApart

(* A lidar that has something in flight has a slot.                        *)
LEMMA InFlightHasSlot ==
  ASSUME TypeOK, SlotlessIsSilent, NEW h \in Handles, NEW p \in Params,
         Answered(h, p)
  PROVE  map_index[h] \in Slots
BY DEF TypeOK, SlotlessIsSilent, Answered

-----------------------------------------------------------------------------
LEMMA TypeStep ==
  ASSUME ConfigInv, [Next]_vars
  PROVE  TypeOK'
<1>. USE DEF ConfigInv, TypeOK, table_vars, device_vars, history_vars, Goto
<1>1. ASSUME NEW t \in Threads, NEW h \in Handles, LidarInfoChange(t, h)
      PROVE  TypeOK'
  BY <1>1, ConfigAssumption DEF LidarInfoChange
<1>2. ASSUME NEW t \in Threads, FindIndex(t) \/ AllocateFails(t)
      PROVE  TypeOK'
  BY <1>2 DEF FindIndex, AllocateFails
<1>3. ASSUME NEW t \in Threads, Allocate(t)
      PROVE  TypeOK'
  BY <1>3 DEF Allocate, FreeSlots
<1>4. ASSUME NEW t \in Threads, Configure(t)
      PROVE  TypeOK'
  <2>1. map_index[handle[t]] \in Slots
    BY <1>4 DEF Configure, SlotlessIsSilent
  <2>2. set_bits' \in [Slots -> SUBSET Params]
    BY <1>4, <2>1 DEF Configure
  <2>3. in_flight' \in [Handles -> [Params -> Nat]]
    BY <1>4 DEF Configure, Send
  <2>. QED  BY <1>4, <2>2, <2>3 DEF Configure
<1>5. ASSUME NEW h \in Handles, NEW p \in Params,
             SettingDone(h, p) \/ SettingRefused(h, p)
      PROVE  TypeOK'
  <2>1. Answered(h, p)
    BY <1>5 DEF SettingDone, SettingRefused
  <2>2. in_flight' \in [Handles -> [Params -> Nat]]
    <3>1. in_flight[h][p] - 1 \in Nat
      BY <2>1 DEF Answered
    <3>. QED  BY <2>1, <3>1 DEF Answered
  <2>3. CASE SettingDone(h, p)
    BY <2>2, <2>3 DEF SettingDone
  <2>4. CASE SettingRefused(h, p)
    BY <2>2, <2>4 DEF SettingRefused
  <2>. QED  BY <1>5, <2>3, <2>4
<1>6. ASSUME NEW h \in Handles, NEW p \in Params, SettingTimedOut(h, p)
      PROVE  TypeOK'
  BY <1>6 DEF SettingTimedOut, vars
<1>7. CASE UNCHANGED vars
  BY <1>7 DEF vars
<1>. QED
  BY <1>1, <1>2, <1>3, <1>4, <1>5, <1>6, <1>7 DEF Next, Report

-----------------------------------------------------------------------------
LEMMA TableStep ==
  ASSUME ConfigInv, [Next]_vars
  PROVE  SlotsApart' /\ HasItsSlot' /\ SlotlessIsSilent'
<1>. USE DEF ConfigInv, TypeOK, SlotsApart, HasItsSlot, SlotlessIsSilent,
         table_vars, device_vars, history_vars, Goto
<1>1. ASSUME NEW t \in Threads, NEW h \in Handles, LidarInfoChange(t, h)
      PROVE  SlotsApart' /\ HasItsSlot' /\ SlotlessIsSilent'
  <2>1. h \in Configured => map_index[h] # NoSlot
    BY DEF Configured, Handles, Slots, NoSlot
  <2>. QED  BY <1>1, <2>1 DEF LidarInfoChange
<1>2. ASSUME NEW t \in Threads, FindIndex(t) \/ AllocateFails(t)
      PROVE  SlotsApart' /\ HasItsSlot' /\ SlotlessIsSilent'
  BY <1>2 DEF FindIndex, AllocateFails
<1>3. ASSUME NEW t \in Threads, Allocate(t)
      PROVE  SlotsApart' /\ HasItsSlot' /\ SlotlessIsSilent'
  <2>. DEFINE g == handle[t]
  <2>1. PICK s \in FreeSlots :
          /\ map_index' = [map_index EXCEPT ![g] = s]
          /\ index_cache' = index_cache \cup {s}
    BY <1>3 DEF Allocate
  <2>2. s \in Slots /\ s \notin index_cache /\ g \in Handles /\ g \notin Configured
    BY <1>3, <2>1 DEF Allocate, FreeSlots
  <2>3. s # NoSlot
    BY <2>2 DEF Slots, NoSlot
  <2>4. \A h \in Handles : map_index[h] # s
    BY <2>2, <2>3
  <2>5. SlotsApart'
    BY <2>1, <2>2, <2>3, <2>4
  <2>6. HasItsSlot'
    BY <2>1, <2>2 DEF Configured, Handles, Slots
  <2>7. SlotlessIsSilent'
    BY <1>3, <2>1, <2>2, <2>3 DEF Allocate
  <2>. QED  BY <2>5, <2>6, <2>7
<1>4. ASSUME NEW t \in Threads, Configure(t)
      PROVE  SlotsApart' /\ HasItsSlot' /\ SlotlessIsSilent'
  <2>1. SlotsApart' /\ HasItsSlot'
    BY <1>4 DEF Configure
  <2>2. SlotlessIsSilent'
    BY <1>4 DEF Configure, Send
  <2>. QED  BY <2>1, <2>2
<1>5. ASSUME NEW h \in Handles, NEW p \in Params,
             SettingDone(h, p) \/ SettingRefused(h, p)
      PROVE  SlotsApart' /\ HasItsSlot' /\ SlotlessIsSilent'
  <2>1. Answered(h, p) /\ UNCHANGED <<map_index, index_cache, pc, handle>>
    BY <1>5 DEF SettingDone, SettingRefused
  <2>2. map_index[h] \in Slots
    BY <2>1, InFlightHasSlot
  <2>3. map_index[h] # NoSlot
    BY <2>2 DEF Slots, NoSlot
  <2>. QED  BY <2>1, <2>3 DEF Answered
<1>6. ASSUME NEW h \in Handles, NEW p \in Params, SettingTimedOut(h, p)
      PROVE  SlotsApart' /\ HasItsSlot' /\ SlotlessIsSilent'
  BY <1>6 DEF SettingTimedOut, vars
<1>7. CASE UNCHANGED vars
  BY <1>7 DEF vars
<1>. QED
  BY <1>1, <1>2, <1>3, <1>4, <1>5, <1>6, <1>7 DEF Next, Report

-----------------------------------------------------------------------------
LEMMA SettingsStep ==
  ASSUME ConfigInv, [Next]_vars
  PROVE  WaitsOrConfirmed' /\ SamplesAsConfigured'
<1>. USE DEF ConfigInv, TypeOK, WaitsOrConfirmed, SamplesAsConfigured,
         table_vars, device_vars, history_vars
<1>0. \A k \in Configured : k \in Handles /\ k \in Slots
  BY ConfigAssumption DEF Configured, Handles, Slots
<1>1. ASSUME NEW t \in Threads, NEW h \in Handles, LidarInfoChange(t, h)
      PROVE  WaitsOrConfirmed' /\ SamplesAsConfigured'
  BY <1>1 DEF LidarInfoChange
<1>2. ASSUME NEW t \in Threads, FindIndex(t) \/ Allocate(t) \/ AllocateFails(t)
      PROVE  WaitsOrConfirmed' /\ SamplesAsConfigured'
  BY <1>2 DEF FindIndex, Allocate, AllocateFails
<1>3. ASSUME NEW t \in Threads, Configure(t)
      PROVE  WaitsOrConfirmed' /\ SamplesAsConfigured'
  <2>. DEFINE g == handle[t]  s == map_index[g]
  <2>1. g \in Handles /\ s \in Slots
    BY <1>3 DEF Configure, SlotlessIsSilent
  <2>2. /\ set_bits' = [set_bits EXCEPT ![s] = @ \cup livox_config[s]]
        /\ UNCHANGED <<livox_config, connect_state, acked>>
    BY <1>3 DEF Configure
  <2>3. ASSUME NEW k \in Configured, NEW p \in Params, in_flight'[k][p] > 0
        PROVE  livox_config[k] \subseteq set_bits'[k] \cup acked[k]
    <3>1. CASE k = g
      BY <1>0, <2>1, <2>2, <3>1 DEF HasItsSlot
    <3>2. CASE k # g
      <4>1. in_flight[k][p] > 0
        BY <1>0, <1>3, <2>3, <3>2 DEF Configure, Send
      <4>. QED  BY <1>0, <2>1, <2>2, <4>1
    <3>. QED  BY <3>1, <3>2
  <2>. QED  BY <2>2, <2>3
<1>4. ASSUME NEW h \in Handles, NEW p \in Params, SettingDone(h, p)
      PROVE  WaitsOrConfirmed' /\ SamplesAsConfigured'
  <2>. DEFINE s == map_index[h]
  <2>1. Answered(h, p)
    BY <1>4 DEF SettingDone
  <2>2. s \in Slots
    BY <2>1, InFlightHasSlot
  <2>3. /\ set_bits' = [set_bits EXCEPT ![s] = @ \ {p}]
        /\ connect_state' = [connect_state EXCEPT ![s] =
                               IF set_bits[s] \ {p} = {} THEN "Sampling" ELSE @]
        /\ acked' = [acked EXCEPT ![h] = @ \cup {p}]
        /\ UNCHANGED livox_config
    BY <1>4 DEF SettingDone
  <2>4. ASSUME NEW k \in Configured
        PROVE  /\ \A q \in Params : in_flight'[k][q] > 0 =>
                    livox_config[k] \subseteq set_bits'[k] \cup acked'[k]
               /\ connect_state'[k] = "Sampling" => livox_config[k] \subseteq acked'[k]
    <3>1. CASE k = h
      <4>1. s = k
        BY <3>1 DEF HasItsSlot
      <4>2. livox_config[k] \subseteq set_bits[k] \cup acked[k]
        BY <2>1, <3>1 DEF Answered
      <4>. QED  BY <1>0, <2>3, <3>1, <4>1, <4>2
    <3>2. CASE k # h
      <4>1. s # k
        BY <3>2, OwnSlot
      <4>2. in_flight'[k] = in_flight[k]
        BY <1>0, <2>1, <3>2 DEF Answered
      <4>. QED  BY <1>0, <2>2, <2>3, <3>2, <4>1, <4>2
    <3>. QED  BY <3>1, <3>2
  <2>. QED  BY <2>3, <2>4
<1>5. ASSUME NEW h \in Handles, NEW p \in Params, SettingRefused(h, p)
      PROVE  WaitsOrConfirmed' /\ SamplesAsConfigured'
  <2>1. UNCHANGED <<livox_config, set_bits, connect_state, acked>>
    BY <1>5 DEF SettingRefused
  <2>2. \A k \in Configured, q \in Params :
          in_flight'[k][q] > 0 => in_flight[k][q] > 0
    BY <1>0, <1>5 DEF SettingRefused, Answered
  <2>. QED  BY <2>1, <2>2
<1>6. ASSUME NEW h \in Handles, NEW p \in Params, SettingTimedOut(h, p)
      PROVE  WaitsOrConfirmed' /\ SamplesAsConfigured'
  BY <1>6 DEF SettingTimedOut, vars
<1>7. CASE UNCHANGED vars
  BY <1>7 DEF vars
<1>. QED
  BY <1>1, <1>2, <1>3, <1>4, <1>5, <1>6, <1>7 DEF Next, Report

-----------------------------------------------------------------------------
LEMMA InvStep == ConfigInv /\ [Next]_vars => ConfigInv'
<1>. SUFFICES ASSUME ConfigInv, [Next]_vars PROVE ConfigInv'
  OBVIOUS
<1>. QED  BY TypeStep, TableStep, SettingsStep DEF ConfigInv

(* The inductive invariant holds throughout.                               *)
THEOREM ConfigInvariant == Spec => []ConfigInv
BY InvInit, InvStep, PTL DEF Spec

(* The slot table, the bits and the requests keep their types; in          *)
(* particular no answer meets a lidar without a slot.                      *)
THEOREM ConfigTypeCorrect == Spec => []TypeOK
<1>1. ConfigInv => TypeOK
  BY DEF ConfigInv
<1>. QED  BY <1>1, ConfigInvariant, PTL

(* CacheIndex::GetFreeIndex gives no slot to two lidars, on however many   *)
(* threads it runs and however few slots there are.                        *)
THEOREM SlotsStayApart == Spec => []SlotsApart
<1>1. ConfigInv => SlotsApart
  BY DEF ConfigInv
<1>. QED  BY <1>1, ConfigInvariant, PTL

(* A lidar of the file samples only with every setting of its entry        *)
(* confirmed.                                                              *)
THEOREM SamplingIsConfigured == Spec => []SamplesAsConfigured
<1>1. ConfigInv => SamplesAsConfigured
  BY DEF ConfigInv
<1>. QED  BY <1>1, ConfigInvariant, PTL
==============================================================================

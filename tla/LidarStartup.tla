----------------------------- MODULE LidarStartup -----------------------------
(***************************************************************************)
(* How livox_ros_driver2 starts from its configuration file.  InitLdsLidar *)
(* reads the kind of lidar and the entries of the file, starts the SDK,    *)
(* gives each entry a slot of the table and keeps its mounting offset for  *)
(* the points (PubHandler), and only then registers the callbacks.  From   *)
(* there lidars report themselves and send points on threads of the SDK:   *)
(* a report sends the settings of the lidar's slot, the first points take  *)
(* over the offset once and for all.                                       *)
(*                                                                         *)
(* LidarConfig starts where this module ends, and follows the answers to   *)
(* the settings; here the values matter (dual emit is sent as whether its  *)
(* value is 0).  Of the mounting one coordinate, in millimetres, stands    *)
(* for all; a file is its entries, not its text.                           *)
(***************************************************************************)
EXTENDS Integers, Sequences

CONSTANTS
  Handles,     \* the lidars on the network
  NoIp,        \* an entry without the address of its lidar
  NumSlots,    \* kMaxSourceLidar
  Settings,    \* the settings of an entry
  Missing,     \* a setting that an entry leaves out
  DataType,    \* pcl_data_type, one of the settings
  Files,       \* the files the driver may be started with
  NoOffset,    \* no offset was kept, or no points have come yet
  BuiltIn      \* the transformation LidarPubHandler is constructed with

Slots == 1 .. NumSlots
NoSlot == 0

Entries == [ip : Handles \cup {NoIp},
            settings : [Settings -> Int \cup {Missing}],
            offset : Int]

ASSUME StartupAssumption ==
  /\ NoIp \notin Handles
  /\ Missing \notin Int
  /\ NumSlots \in Nat
  /\ DataType \in Settings
  /\ NoOffset # BuiltIn /\ NoOffset \notin Int /\ BuiltIn \notin Int
  /\ Files \subseteq [summary : {"bad", "other", "livox"}, entries : Seq(Entries)]

VARIABLES
  file,               \* the file the driver is started with
  phase,              \* how far InitLdsLidar is
  at,                 \* the entry the loop of this phase is at
  user_configs,       \* what was parsed
  map_index,          \* CacheIndex::map_index_
  index_cache,        \* CacheIndex::index_cache_: the slots in use
  livox_config,       \* LidarDevice::livox_config: the settings of a slot
  lidar_extrinsics,   \* PubHandler::lidar_extrinsics_: the offset of a lidar
  extrinsic,          \* LidarPubHandler::extrinsic_: the one its points get
  registered,         \* the SDK runs and has the driver's callback
  sent                \* history: the settings sent to a lidar, with the value

table_vars == <<map_index, index_cache, livox_config>>
point_vars == <<lidar_extrinsics, extrinsic>>
vars == <<file, phase, at, user_configs, table_vars, point_vars, registered, sent>>

(* Slots are static storage: until one is filled its settings are 0.       *)
Init ==
  /\ file \in Files
  /\ phase = "summary"
  /\ at = 1
  /\ user_configs = <<>>
  /\ map_index = [h \in Handles |-> NoSlot]
  /\ index_cache = {}
  /\ livox_config = [s \in Slots |-> [p \in Settings |-> 0]]
  /\ lidar_extrinsics = [h \in Handles |-> NoOffset]
  /\ extrinsic = [h \in Handles |-> NoOffset]
  /\ registered = FALSE
  /\ sent = [h \in Handles |-> {}]

-----------------------------------------------------------------------------
(* Reading the file.                                                       *)

(* A file that cannot be opened or parsed, or that names no kind of lidar, *)
(* ends the start; for another kind of lidar nothing is configured.        *)
ParseSummaryConfig ==
  /\ phase = "summary"
  /\ phase' = CASE file.summary = "bad" -> "failed"
                [] file.summary = "other" -> "observe"
                [] file.summary = "livox" -> "parse"
  /\ UNCHANGED <<file, at, user_configs, table_vars, point_vars, registered, sent>>

(* static_cast<int8_t>, for the blind spot too, although its field has 32  *)
(* bits; dual_emit_en passes through uint8_t to the same value.            *)
Int8(v) == ((v + 128) % 256) - 128

Unset == -1

(* Mutant: a setting that is not in the entry is 0.                        *)
MissingIsZero(e) ==
  [handle |-> e.ip,
   settings |-> [p \in Settings |->
                   IF e.settings[p] = Missing THEN 0 ELSE Int8(e.settings[p])],
   offset |-> e.offset]

UserConfig(e) ==
  [handle |-> e.ip,
   settings |-> [p \in Settings |->
                   IF e.settings[p] = Missing THEN Unset ELSE Int8(e.settings[p])],
   offset |-> e.offset]

(* ParseUserConfigs drops entries without an address.                      *)
ParseUserConfig ==
  /\ phase = "parse"
  /\ at <= Len(file.entries)
  /\ at' = at + 1
  /\ user_configs' = IF file.entries[at].ip = NoIp THEN user_configs
                     ELSE Append(user_configs, UserConfig(file.entries[at]))
  /\ UNCHANGED <<file, phase, table_vars, point_vars, registered, sent>>

(* A file without entries is only reported: the driver goes on.  Then the  *)
(* SDK starts, or the start of the driver ends here.                       *)
SdkInit ==
  /\ phase = "parse"
  /\ at > Len(file.entries)
  /\ at' = 1
  /\ phase' \in {"fill", "failed"}
  /\ UNCHANGED <<file, user_configs, table_vars, point_vars, registered, sent>>

-----------------------------------------------------------------------------
(* InitLivoxLidar: a slot for each parsed entry.                           *)

FreeSlots == Slots \ index_cache

(* GetFreeIndex: the slot the lidar has, or the first free one.            *)
IsFreeIndex(h, s) ==
  IF map_index[h] # NoSlot THEN s = map_index[h]
  ELSE s \in FreeSlots /\ \A r \in FreeSlots : s <= r

TakeSlot(h, s) ==
  /\ map_index' = [map_index EXCEPT ![h] = s]
  /\ index_cache' = index_cache \cup {s}

LowData == 2  \* kLivoxLidarCartesianCoordinateLowData: points in centimetres

(* Integer division in C++ rounds towards 0.                               *)
Centimetres(mm) == IF mm >= 0 THEN mm \div 10 ELSE -((-mm) \div 10)

PointOffset(c) == IF c.settings[DataType] = LowData THEN Centimetres(c.offset) ELSE c.offset

FillSlot(c, s) ==
  /\ IsFreeIndex(c.handle, s)
  /\ TakeSlot(c.handle, s)
  /\ livox_config' = [livox_config EXCEPT ![s] = c.settings]
  /\ lidar_extrinsics' = [lidar_extrinsics EXCEPT ![c.handle] = PointOffset(c)]

(* Mutant: the offset is kept although the lidar got no slot.              *)
OffsetWithoutSlot(c) ==
  /\ map_index[c.handle] = NoSlot
  /\ FreeSlots = {}
  /\ lidar_extrinsics' = [lidar_extrinsics EXCEPT ![c.handle] = PointOffset(c)]
  /\ UNCHANGED table_vars

(* The entry of a lidar for which no slot is left is passed over.          *)
PassOver(c) ==
  /\ map_index[c.handle] = NoSlot
  /\ FreeSlots = {}
  /\ UNCHANGED <<table_vars, lidar_extrinsics>>

FillNext ==
  /\ phase = "fill"
  /\ at <= Len(user_configs)
  /\ at' = at + 1
  /\ \/ \E s \in Slots : FillSlot(user_configs[at], s)
     \/ PassOver(user_configs[at])
  /\ UNCHANGED <<file, phase, user_configs, extrinsic, registered, sent>>

(* SetLivoxLidarInfoChangeCallback, and then SetLidarPubHandle.            *)
RegisterCallback ==
  /\ phase = "fill"
  /\ at > Len(user_configs)
  /\ registered' = TRUE
  /\ phase' = "observe"
  /\ UNCHANGED <<file, at, user_configs, table_vars, point_vars, sent>>

SetLidarPubHandle ==
  /\ phase = "observe"
  /\ phase' = "up"
  /\ UNCHANGED <<file, at, user_configs, table_vars, point_vars, registered, sent>>

-----------------------------------------------------------------------------
(* The lidars, on threads of the SDK.                                      *)

(* LidarInfoChangeCallback for a lidar without a slot.  The settings of    *)
(* the slot it takes stay as they are.                                     *)
ReportUnknown(h) ==
  /\ registered
  /\ map_index[h] = NoSlot
  /\ \E s \in Slots : IsFreeIndex(h, s) /\ TakeSlot(h, s)
  /\ UNCHANGED <<file, phase, at, user_configs, livox_config, point_vars, registered, sent>>

(* The same for a lidar with a slot: every setting that has a value is     *)
(* sent.                                                                   *)
ReportKnown(h) ==
  LET settings == livox_config[map_index[h]]
  IN  /\ registered
      /\ map_index[h] # NoSlot
      /\ sent' = [sent EXCEPT ![h] =
                    @ \cup {<<p, settings[p]>> : p \in {q \in Settings : settings[q] # Unset}}]
      /\ UNCHANGED <<file, phase, at, user_configs, table_vars, point_vars, registered>>

(* SetLidarsExtParam: the first offset found is kept for good.             *)
OffsetOfPoints(h) ==
  CASE extrinsic[h] \notin {NoOffset, BuiltIn} -> extrinsic[h]
    [] extrinsic[h] \in {NoOffset, BuiltIn} /\ lidar_extrinsics[h] # NoOffset
         -> lidar_extrinsics[h]
    [] OTHER -> BuiltIn

(* Mutant: points are taken as soon as the SDK runs.                       *)
ObservedEarly(h) ==
  /\ phase \in {"fill", "observe", "up"}
  /\ extrinsic' = [extrinsic EXCEPT ![h] = OffsetOfPoints(h)]
  /\ UNCHANGED <<file, phase, at, user_configs, table_vars, lidar_extrinsics, registered, sent>>

(* RawDataProcess for a packet of points.                                  *)
PointsArrive(h) ==
  /\ registered
  /\ phase = "up"
  /\ extrinsic' = [extrinsic EXCEPT ![h] = OffsetOfPoints(h)]
  /\ UNCHANGED <<file, phase, at, user_configs, table_vars, lidar_extrinsics, registered, sent>>

-----------------------------------------------------------------------------
Next ==
  \/ ParseSummaryConfig
  \/ ParseUserConfig
  \/ SdkInit
  \/ FillNext
  \/ RegisterCallback
  \/ SetLidarPubHandle
  \/ \E h \in Handles : ReportUnknown(h) \/ ReportKnown(h) \/ PointsArrive(h)

Spec == Init /\ [][Next]_vars

-----------------------------------------------------------------------------
(* Correctness.                                                            *)

Configs == [handle : Handles, settings : [Settings -> Int], offset : Int]

TypeOK ==
  /\ file \in Files
  /\ phase \in {"summary", "parse", "fill", "observe", "up", "failed"}
  /\ at \in Nat \ {0}
  /\ user_configs \in Seq(Configs)
  /\ map_index \in [Handles -> Slots \cup {NoSlot}]
  /\ index_cache \subseteq Slots
  /\ livox_config \in [Slots -> [Settings -> Int]]
  /\ lidar_extrinsics \in [Handles -> Int \cup {NoOffset}]
  /\ extrinsic \in [Handles -> Int \cup {NoOffset, BuiltIn}]
  /\ registered \in BOOLEAN
  /\ sent \in [Handles -> SUBSET (Settings \X Int)]

(* e is the last entry for the lidar h.                                    *)
IsLastEntry(h, e) ==
  \E i \in DOMAIN file.entries :
    /\ file.entries[i] = e
    /\ e.ip = h
    /\ \A j \in DOMAIN file.entries : j > i => file.entries[j].ip # h

InFile(h) == \E i \in DOMAIN file.entries : file.entries[i].ip = h

(* A lidar of the file is never configured by halves: it has a slot with   *)
(* its settings and an offset for its points, or there was no slot left    *)
(* and it has neither, however many lidars outside the file report         *)
(* themselves afterwards.  A lidar outside the file never gets an offset.  *)
ConfiguredWhole ==
  registered =>
    \A h \in Handles :
      lidar_extrinsics[h] # NoOffset <=> InFile(h) /\ map_index[h] # NoSlot

(* When the callbacks run, the slot of a lidar and the offset kept for its *)
(* points both come from its last entry, with the offset in the unit of    *)
(* the data type of this entry; no later report changes them.              *)
LastEntryCounts ==
  registered =>
    \A h \in Handles :
      lidar_extrinsics[h] # NoOffset =>
        \E i \in DOMAIN file.entries :
          /\ IsLastEntry(h, file.entries[i])
          /\ livox_config[map_index[h]] = UserConfig(file.entries[i]).settings
          /\ lidar_extrinsics[h] = PointOffset(UserConfig(file.entries[i]))

(* The points of a lidar that has a slot from the file are never moved by  *)
(* another offset than that of its last entry, the first packet included:  *)
(* the offset is taken over once, and must not be taken too early.         *)
PointsPlacedAsWritten ==
  \A h \in Handles :
    extrinsic[h] # NoOffset /\ InFile(h) /\ map_index[h] # NoSlot =>
      \E i \in DOMAIN file.entries :
        /\ IsLastEntry(h, file.entries[i])
        /\ extrinsic[h] = PointOffset(UserConfig(file.entries[i]))

(* What is sent to a lidar of the file is what its last entry says, for    *)
(* every value of 8 bits; a setting that the entry leaves out, or writes   *)
(* as -1, is never sent.                                                   *)
SentAsWritten ==
  \A h \in Handles : \A m \in sent[h] :
    InFile(h) =>
      \E i \in DOMAIN file.entries :
        /\ IsLastEntry(h, file.entries[i])
        /\ file.entries[i].settings[m[1]] # Missing
        /\ file.entries[i].settings[m[1]] \in -128 .. 127 =>
             m[2] = file.entries[i].settings[m[1]] /\ m[2] # Unset

(* The inductive strengthening.  Parsing: what the entries read so far     *)
(* have in common with what was parsed from them.                          *)
LastOf(k, n, h) ==
  /\ k \in 1 .. n
  /\ user_configs[k].handle = h
  /\ \A l \in 1 .. n : l > k => user_configs[l].handle # h

LastEntryOf(i, n, h) ==
  /\ i \in 1 .. n
  /\ file.entries[i].ip = h
  /\ \A j \in 1 .. n : j > i => file.entries[j].ip # h

EntriesRead ==
  CASE phase = "parse" -> at - 1
    [] phase = "summary" \/ file.summary # "livox" -> 0
    [] OTHER -> Len(file.entries)

Parsed ==
  LET n == EntriesRead
  IN  \A h \in Handles :
        /\ \A k \in 1 .. Len(user_configs) : LastOf(k, Len(user_configs), h) =>
             \E i \in 1 .. n : LastEntryOf(i, n, h) /\ user_configs[k] = UserConfig(file.entries[i])
        /\ (\E k \in 1 .. Len(user_configs) : user_configs[k].handle = h)
             <=> (\E i \in 1 .. n : file.entries[i].ip = h)

(* Filling: a lidar has the settings and the offset of its last entry      *)
(* filled so far, or no entry was filled for it, or no slot is left.       *)
ConfigsFilled ==
  CASE phase = "fill" -> at - 1
    [] phase \in {"summary", "parse", "failed"} \/ file.summary # "livox" -> 0
    [] OTHER -> Len(user_configs)

Filled ==
  LET m == ConfigsFilled
  IN  \A h \in Handles :
        \/ /\ map_index[h] # NoSlot
           /\ \E k \in 1 .. m :
                /\ LastOf(k, m, h)
                /\ livox_config[map_index[h]] = user_configs[k].settings
                /\ lidar_extrinsics[h] = PointOffset(user_configs[k])
        \/ /\ lidar_extrinsics[h] = NoOffset
           /\ \A k \in 1 .. m : user_configs[k].handle # h
           /\ registered \/ map_index[h] = NoSlot
        \/ /\ lidar_extrinsics[h] = NoOffset
           /\ map_index[h] = NoSlot
           /\ index_cache = Slots

SlotsApart ==
  /\ \A h, k \in Handles :
       map_index[h] = map_index[k] /\ h # k => map_index[h] = NoSlot
  /\ \A h \in Handles : map_index[h] # NoSlot => map_index[h] \in index_cache

(* Running: points have the offset that was kept, and what was sent is in  *)
(* the slot.                                                               *)
PointsInv ==
  \A h \in Handles : extrinsic[h] # NoOffset =>
    /\ registered
    /\ \/ extrinsic[h] = lidar_extrinsics[h]
       \/ extrinsic[h] = BuiltIn /\ lidar_extrinsics[h] = NoOffset

SentInv ==
  \A h \in Handles : \A m \in sent[h] :
    /\ registered /\ map_index[h] # NoSlot
    /\ m[2] = livox_config[map_index[h]][m[1]]
    /\ m[2] # Unset

PhaseInv ==
  /\ phase = "summary" => at = 1
  /\ phase = "parse" => at <= Len(file.entries) + 1
  /\ phase = "fill" => at <= Len(user_configs) + 1
  /\ phase \in {"parse", "fill"} => file.summary = "livox"
  /\ phase = "summary" \/ file.summary # "livox" => user_configs = <<>>
  /\ registered <=> phase \in {"observe", "up"} /\ file.summary = "livox"

StartupInv == TypeOK /\ Parsed /\ SlotsApart /\ Filled /\ PointsInv /\ SentInv /\ PhaseInv

(* livox_ros_driver2/README.md gives the blind spot a range from 50 to     *)
(* 200 cm: a blind spot of this range is sent as it is written.            *)
BlindSpotAsDocumented ==
  \A h \in Handles : \A m \in sent[h] :
    m[1] = "blind_spot_set" =>
      \A i \in DOMAIN file.entries :
        /\ IsLastEntry(h, file.entries[i])
        /\ file.entries[i].settings[m[1]] # Missing
        /\ file.entries[i].settings[m[1]] \in 50 .. 200
        => m[2] = file.entries[i].settings[m[1]]
==============================================================================

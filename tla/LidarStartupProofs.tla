-------------------------- MODULE LidarStartupProofs --------------------------
(***************************************************************************)
(* For every file, every number of lidars and slots and all settings: what *)
(* is configured, sent and added to points comes from the last entry of    *)
(* the lidar, or the lidar is not configured at all.                       *)
(***************************************************************************)
EXTENDS LidarStartup, TLAPS

USE DEF Slots, NoSlot

LEMMA FileType ==
  ASSUME file \in Files
  PROVE  /\ file.summary \in {"bad", "other", "livox"}
         /\ file.entries \in Seq(Entries)
         /\ Len(file.entries) \in Nat
         /\ DOMAIN file.entries = 1 .. Len(file.entries)
         /\ \A i \in 1 .. Len(file.entries) : file.entries[i] \in Entries
<1>1. file \in [summary : {"bad", "other", "livox"}, entries : Seq(Entries)]
  BY StartupAssumption
<1>. QED  BY <1>1

LEMMA UserConfigType ==
  ASSUME NEW e \in Entries, e.ip # NoIp
  PROVE  UserConfig(e) \in Configs /\ UserConfig(e).handle = e.ip
<1>1. e.ip \in Handles /\ e.offset \in Int /\ e.settings \in [Settings -> Int \cup {Missing}]
  BY DEF Entries
<1>2. \A p \in Settings : e.settings[p] # Missing => Int8(e.settings[p]) \in Int
  <2>. TAKE p \in Settings
  <2>. SUFFICES ASSUME e.settings[p] # Missing PROVE Int8(e.settings[p]) \in Int
    OBVIOUS
  <2>1. e.settings[p] \in Int
    BY <1>1
  <2>. QED  BY <2>1 DEF Int8
<1>3. [p \in Settings |-> IF e.settings[p] = Missing THEN Unset ELSE Int8(e.settings[p])]
        \in [Settings -> Int]
  BY <1>2 DEF Unset
<1>. QED  BY <1>1, <1>3 DEF UserConfig, Configs

LEMMA PointOffsetType ==
  ASSUME NEW c \in Configs
  PROVE  PointOffset(c) \in Int /\ PointOffset(c) # NoOffset
<1>1. c.offset \in Int
  BY DEF Configs
<1>2. Centimetres(c.offset) \in Int
  BY <1>1 DEF Centimetres
<1>. QED  BY <1>1, <1>2, StartupAssumption DEF PointOffset

-----------------------------------------------------------------------------
LEMMA InvInit == Init => StartupInv
<1>. SUFFICES ASSUME Init PROVE StartupInv
  OBVIOUS
<1>. USE DEF Init
<1>1. TypeOK
  <2>1. user_configs \in Seq(Configs)
    OBVIOUS
  <2>2. livox_config \in [Slots -> [Settings -> Int]]
    OBVIOUS
  <2>3. /\ map_index \in [Handles -> Slots \cup {NoSlot}]
        /\ lidar_extrinsics \in [Handles -> Int \cup {NoOffset}]
        /\ extrinsic \in [Handles -> Int \cup {NoOffset, BuiltIn}]
        /\ sent \in [Handles -> SUBSET (Settings \X Int)]
    OBVIOUS
  <2>4. at \in Nat \ {0} /\ index_cache \subseteq Slots
    OBVIOUS
  <2>. QED  BY <2>1, <2>2, <2>3, <2>4 DEF TypeOK
<1>2. Parsed
  <2>1. EntriesRead = 0 /\ Len(user_configs) = 0
    BY DEF EntriesRead
  <2>2. 1 .. 0 = {}
    OBVIOUS
  <2>. QED  BY <2>1, <2>2 DEF Parsed
<1>3. Filled
  <2>1. ConfigsFilled = 0
    BY DEF ConfigsFilled
  <2>2. 1 .. 0 = {}
    OBVIOUS
  <2>. QED  BY <2>1, <2>2 DEF Filled
<1>4. SlotsApart /\ PointsInv /\ SentInv /\ PhaseInv
  BY DEF SlotsApart, PointsInv, SentInv, PhaseInv
<1>. QED  BY <1>1, <1>2, <1>3, <1>4 DEF StartupInv

-----------------------------------------------------------------------------
LEMMA TypeStep ==
  ASSUME StartupInv, [Next]_vars
  PROVE  TypeOK'
<1>. USE DEF StartupInv, TypeOK, table_vars, point_vars
<1>1. CASE ParseSummaryConfig
  BY <1>1, FileType DEF ParseSummaryConfig
<1>2. CASE ParseUserConfig
  <2>1. at \in 1 .. Len(file.entries) /\ file.entries[at] \in Entries
    BY <1>2, FileType DEF ParseUserConfig
  <2>2. user_configs' \in Seq(Configs)
    BY <1>2, <2>1, UserConfigType DEF ParseUserConfig
  <2>. QED  BY <1>2, <2>2 DEF ParseUserConfig
<1>3. CASE SdkInit
  BY <1>3 DEF SdkInit
<1>4. CASE FillNext
  <2>1. at \in 1 .. Len(user_configs) /\ user_configs[at] \in Configs
    BY <1>4 DEF FillNext
  <2>2. ASSUME NEW s \in Slots, FillSlot(user_configs[at], s)
        PROVE  TypeOK'
    <3>1. user_configs[at].handle \in Handles
          /\ user_configs[at].settings \in [Settings -> Int]
      BY <2>1 DEF Configs
    <3>2. PointOffset(user_configs[at]) \in Int
      BY <2>1, PointOffsetType
    <3>3. /\ map_index' \in [Handles -> Slots \cup {NoSlot}]
          /\ index_cache' \subseteq Slots
      BY <2>2, <3>1 DEF FillSlot, TakeSlot
    <3>4. livox_config' \in [Slots -> [Settings -> Int]]
      BY <2>2, <3>1 DEF FillSlot
    <3>5. lidar_extrinsics' \in [Handles -> Int \cup {NoOffset}]
      BY <2>2, <3>1, <3>2 DEF FillSlot
    <3>. QED  BY <1>4, <3>3, <3>4, <3>5 DEF FillNext
  <2>3. CASE PassOver(user_configs[at])
    BY <1>4, <2>3 DEF FillNext, PassOver
  <2>. QED  BY <1>4, <2>2, <2>3 DEF FillNext
<1>5. CASE RegisterCallback \/ SetLidarPubHandle
  BY <1>5 DEF RegisterCallback, SetLidarPubHandle
<1>6. ASSUME NEW h \in Handles, ReportUnknown(h)
      PROVE  TypeOK'
  BY <1>6 DEF ReportUnknown, TakeSlot
<1>7. ASSUME NEW h \in Handles, ReportKnown(h)
      PROVE  TypeOK'
  <2>. DEFINE settings == livox_config[map_index[h]]
  <2>1. settings \in [Settings -> Int]
    BY <1>7 DEF ReportKnown
  <2>2. {<<p, settings[p]>> : p \in {q \in Settings : settings[q] # Unset}}
          \in SUBSET (Settings \X Int)
    BY <2>1
  <2>3. sent' \in [Handles -> SUBSET (Settings \X Int)]
    BY <1>7, <2>2 DEF ReportKnown
  <2>. QED  BY <1>7, <2>3 DEF ReportKnown
<1>8. ASSUME NEW h \in Handles, PointsArrive(h)
      PROVE  TypeOK'
  <2>1. OffsetOfPoints(h) \in Int \cup {NoOffset, BuiltIn}
    BY DEF OffsetOfPoints
  <2>. QED  BY <1>8, <2>1 DEF PointsArrive
<1>9. CASE UNCHANGED vars
  BY <1>9 DEF vars
<1>. QED
  BY <1>1, <1>2, <1>3, <1>4, <1>5, <1>6, <1>7, <1>8, <1>9 DEF Next

-----------------------------------------------------------------------------
LEMMA PhaseStep ==
  ASSUME StartupInv, [Next]_vars
  PROVE  PhaseInv'
<1>. USE FileType DEF StartupInv, TypeOK, PhaseInv, table_vars, point_vars
<1>1. CASE ParseSummaryConfig
  <2>. USE <1>1 DEF ParseSummaryConfig
  <2>1. CASE file.summary = "bad" /\ phase' = "failed"
    BY <2>1
  <2>2. CASE file.summary = "other" /\ phase' = "observe"
    BY <2>2
  <2>3. CASE file.summary = "livox" /\ phase' = "parse"
    BY <2>3
  <2>. QED  BY <2>1, <2>2, <2>3
<1>2. CASE ParseUserConfig
  BY <1>2 DEF ParseUserConfig
<1>3. CASE SdkInit
  <2>1. Len(user_configs) \in Nat
    OBVIOUS
  <2>. QED  BY <1>3, <2>1 DEF SdkInit
<1>4. CASE FillNext
  <2>1. Len(user_configs) \in Nat
    OBVIOUS
  <2>. QED  BY <1>4, <2>1 DEF FillNext
<1>5. CASE RegisterCallback \/ SetLidarPubHandle
  BY <1>5 DEF RegisterCallback, SetLidarPubHandle
<1>6. ASSUME NEW h \in Handles, ReportUnknown(h) \/ ReportKnown(h) \/ PointsArrive(h)
      PROVE  PhaseInv'
  BY <1>6 DEF ReportUnknown, ReportKnown, PointsArrive
<1>7. CASE UNCHANGED vars
  BY <1>7 DEF vars
<1>. QED
  BY <1>1, <1>2, <1>3, <1>4, <1>5, <1>6, <1>7 DEF Next

-----------------------------------------------------------------------------
(* A lidar takes a free slot or keeps its own: slots stay apart.           *)
LEMMA SlotsStep ==
  ASSUME StartupInv, [Next]_vars
  PROVE  SlotsApart'
<1>. USE DEF StartupInv, TypeOK, SlotsApart, table_vars, point_vars
<1>1. ASSUME NEW h \in Handles, NEW s \in Slots, IsFreeIndex(h, s), TakeSlot(h, s)
      PROVE  SlotsApart'
  BY <1>1 DEF IsFreeIndex, TakeSlot, FreeSlots
<1>2. CASE UNCHANGED table_vars
  BY <1>2
<1>3. CASE FillNext
  <2>1. user_configs[at] \in Configs
    BY <1>3 DEF FillNext
  <2>2. user_configs[at].handle \in Handles
    BY <2>1 DEF Configs
  <2>. QED  BY <1>1, <1>2, <1>3, <2>2 DEF FillNext, FillSlot, PassOver
<1>4. ASSUME NEW h \in Handles, ReportUnknown(h)
      PROVE  SlotsApart'
  BY <1>1, <1>4 DEF ReportUnknown
<1>. QED
  BY <1>2, <1>3, <1>4 DEF Next, vars, ParseSummaryConfig, ParseUserConfig, SdkInit,
     RegisterCallback, SetLidarPubHandle, ReportKnown, PointsArrive

-----------------------------------------------------------------------------
(* Parsing an entry extends both sides of Parsed by the same lidar.        *)
LEMMA ParseOne ==
  ASSUME StartupInv, ParseUserConfig
  PROVE  Parsed'
<1>. DEFINE e == file.entries[at]
            n == at - 1
            L == Len(user_configs)
<1>1. /\ n \in Nat /\ at = n + 1 /\ at \in 1 .. Len(file.entries)
      /\ e \in Entries /\ L \in Nat
  BY FileType DEF ParseUserConfig, StartupInv, TypeOK
<1>2. EntriesRead = n /\ EntriesRead' = at /\ file' = file
  <2>1. at' - 1 = at
    BY <1>1 DEF ParseUserConfig
  <2>. QED  BY <2>1 DEF EntriesRead, ParseUserConfig, StartupInv, PhaseInv
<1>3. ASSUME NEW h \in Handles
      PROVE  /\ \A k \in 1 .. L : LastOf(k, L, h) =>
                  \E i \in 1 .. n : LastEntryOf(i, n, h)
                                  /\ user_configs[k] = UserConfig(file.entries[i])
             /\ (\E k \in 1 .. L : user_configs[k].handle = h)
                  <=> (\E i \in 1 .. n : file.entries[i].ip = h)
  BY <1>2 DEF StartupInv, Parsed
<1>4. ASSUME NEW h \in Handles, e.ip # h, NEW i \in 1 .. n, LastEntryOf(i, n, h)
      PROVE  i \in 1 .. at /\ LastEntryOf(i, at, h)
  <2>1. \A j \in 1 .. at : j \in 1 .. n \/ j = at
    BY <1>1
  <2>2. i \in 1 .. at
    BY <1>1
  <2>. QED  BY <1>4, <2>1, <2>2 DEF LastEntryOf
<1>5. CASE e.ip = NoIp
  <2>1. user_configs' = user_configs
    BY <1>5 DEF ParseUserConfig
  <2>. SUFFICES ASSUME NEW h \in Handles
                PROVE  /\ \A k \in 1 .. L : LastOf(k, L, h) =>
                            \E i \in 1 .. at : LastEntryOf(i, at, h)
                                /\ user_configs[k] = UserConfig(file.entries[i])
                       /\ (\E k \in 1 .. L : user_configs[k].handle = h)
                            <=> (\E i \in 1 .. at : file.entries[i].ip = h)
    BY <1>2, <2>1 DEF Parsed, LastOf, LastEntryOf
  <2>2. e.ip # h
    BY <1>5, StartupAssumption
  <2>3. \A j \in 1 .. at : j \in 1 .. n \/ j = at
    BY <1>1
  <2>4. \A j \in 1 .. n : j \in 1 .. at
    BY <1>1
  <2>. QED  BY <1>3, <1>4, <2>2, <2>3, <2>4
<1>6. CASE e.ip # NoIp
  <2>. DEFINE c == UserConfig(e)
  <2>1. /\ user_configs' = Append(user_configs, c)
        /\ c \in Configs /\ c.handle = e.ip
    BY <1>1, <1>6, UserConfigType DEF ParseUserConfig
  <2>2. /\ Len(user_configs') = L + 1
        /\ user_configs'[L + 1] = c
        /\ \A k \in 1 .. L : user_configs'[k] = user_configs[k]
    BY <2>1 DEF StartupInv, TypeOK
  <2>. DEFINE NowLast(k, h) == /\ user_configs'[k].handle = h
                               /\ \A l \in 1 .. L + 1 : l > k => user_configs'[l].handle # h
  <2>. SUFFICES ASSUME NEW h \in Handles
                PROVE  /\ \A k \in 1 .. L + 1 : NowLast(k, h) =>
                            \E i \in 1 .. at : LastEntryOf(i, at, h)
                                /\ user_configs'[k] = UserConfig(file.entries[i])
                       /\ (\E k \in 1 .. L + 1 : user_configs'[k].handle = h)
                            <=> (\E i \in 1 .. at : file.entries[i].ip = h)
    BY <1>2, <2>2 DEF Parsed, LastOf, LastEntryOf
  <2>3. /\ \A j \in 1 .. at : j \in 1 .. n \/ j = at
        /\ \A j \in 1 .. n : j \in 1 .. at
        /\ \A k \in 1 .. L + 1 : k \in 1 .. L \/ k = L + 1
        /\ \A k \in 1 .. L : k \in 1 .. L + 1 /\ L + 1 > k
        /\ at \in 1 .. at /\ L + 1 \in 1 .. L + 1
    BY <1>1
  <2>4. (\E k \in 1 .. L + 1 : user_configs'[k].handle = h)
          <=> (\E i \in 1 .. at : file.entries[i].ip = h)
    BY <1>3, <2>1, <2>2, <2>3
  <2>5. ASSUME NEW k \in 1 .. L + 1, NowLast(k, h), e.ip = h
        PROVE  \E i \in 1 .. at : LastEntryOf(i, at, h)
                  /\ user_configs'[k] = UserConfig(file.entries[i])
    <3>1. k = L + 1
      BY <2>1, <2>2, <2>3, <2>5
    <3>2. \A j \in 1 .. at : ~(j > at)
      BY <1>1
    <3>3. LastEntryOf(at, at, h)
      BY <2>3, <2>5, <3>2 DEF LastEntryOf
    <3>. QED  BY <2>2, <2>3, <3>1, <3>3
  <2>6. ASSUME NEW k \in 1 .. L + 1, NowLast(k, h), e.ip # h
        PROVE  \E i \in 1 .. at : LastEntryOf(i, at, h)
                  /\ user_configs'[k] = UserConfig(file.entries[i])
    <3>1. k \in 1 .. L
      BY <2>1, <2>2, <2>3, <2>6
    <3>2. LastOf(k, L, h)
      BY <2>2, <2>3, <2>6, <3>1 DEF LastOf
    <3>3. PICK i \in 1 .. n : LastEntryOf(i, n, h)
                            /\ user_configs[k] = UserConfig(file.entries[i])
      BY <1>3, <3>1, <3>2
    <3>4. i \in 1 .. at /\ LastEntryOf(i, at, h)
      BY <1>4, <2>6, <3>3
    <3>. QED  BY <2>2, <3>1, <3>3, <3>4
  <2>. QED  BY <2>4, <2>5, <2>6
<1>. QED  BY <1>5, <1>6

LEMMA ParsedStep ==
  ASSUME StartupInv, [Next]_vars
  PROVE  Parsed'
<1>. USE DEF StartupInv, TypeOK, table_vars, point_vars
<1>1. ASSUME UNCHANGED <<file, user_configs>>, EntriesRead' = EntriesRead
      PROVE  Parsed'
  BY <1>1 DEF Parsed, LastOf, LastEntryOf
<1>2. CASE ParseSummaryConfig
  <2>1. EntriesRead = 0 /\ EntriesRead' = 0
    <3>. USE <1>2, FileType DEF ParseSummaryConfig, PhaseInv
    <3>1. CASE file.summary = "bad" /\ phase' = "failed"
      BY <3>1 DEF EntriesRead
    <3>2. CASE file.summary = "other" /\ phase' = "observe"
      BY <3>2 DEF EntriesRead
    <3>3. CASE file.summary = "livox" /\ phase' = "parse"
      BY <3>3 DEF EntriesRead
    <3>. QED  BY <3>1, <3>2, <3>3
  <2>. QED  BY <1>1, <1>2, <2>1 DEF ParseSummaryConfig
<1>3. CASE ParseUserConfig
  BY <1>3, ParseOne
<1>4. CASE SdkInit
  <2>1. EntriesRead' = EntriesRead
    BY <1>4, FileType DEF SdkInit, EntriesRead, PhaseInv
  <2>. QED  BY <1>1, <1>4, <2>1 DEF SdkInit
<1>5. CASE FillNext \/ RegisterCallback \/ SetLidarPubHandle
  <2>1. EntriesRead' = EntriesRead /\ UNCHANGED <<file, user_configs>>
    BY <1>5 DEF FillNext, RegisterCallback, SetLidarPubHandle, EntriesRead
  <2>. QED  BY <1>1, <2>1
<1>6. ASSUME NEW h \in Handles, ReportUnknown(h) \/ ReportKnown(h) \/ PointsArrive(h)
      PROVE  Parsed'
  <2>1. EntriesRead' = EntriesRead /\ UNCHANGED <<file, user_configs>>
    BY <1>6 DEF ReportUnknown, ReportKnown, PointsArrive, EntriesRead
  <2>. QED  BY <1>1, <2>1
<1>7. CASE UNCHANGED vars
  <2>1. EntriesRead' = EntriesRead /\ UNCHANGED <<file, user_configs>>
    BY <1>7 DEF vars, EntriesRead
  <2>. QED  BY <1>1, <2>1
<1>. QED
  BY <1>2, <1>3, <1>4, <1>5, <1>6, <1>7 DEF Next

-----------------------------------------------------------------------------
(* What Filled says of the lidar h when the first n entries are filled.    *)
HasEntry(h, n) ==
  /\ map_index[h] # NoSlot
  /\ \E k \in 1 .. n :
       /\ LastOf(k, n, h)
       /\ livox_config[map_index[h]] = user_configs[k].settings
       /\ lidar_extrinsics[h] = PointOffset(user_configs[k])

HasNoEntry(h, n) ==
  /\ lidar_extrinsics[h] = NoOffset
  /\ \A k \in 1 .. n : user_configs[k].handle # h
  /\ registered \/ map_index[h] = NoSlot

FoundNoSlot(h) ==
  /\ lidar_extrinsics[h] = NoOffset
  /\ map_index[h] = NoSlot
  /\ index_cache = Slots

LEMMA FilledCases ==
  Filled <=> \A h \in Handles :
               HasEntry(h, ConfigsFilled) \/ HasNoEntry(h, ConfigsFilled) \/ FoundNoSlot(h)
BY DEF Filled, HasEntry, HasNoEntry, FoundNoSlot

(* An entry gives its lidar a slot and leaves the others alone.            *)
LEMMA FillOne ==
  ASSUME StartupInv, FillNext
  PROVE  Filled'
<1>. DEFINE c == user_configs[at]
            m == at - 1
<1>1. /\ m \in Nat /\ at = m + 1 /\ at \in 1 .. Len(user_configs)
      /\ c \in Configs /\ c.handle \in Handles /\ phase = "fill"
      /\ ~registered /\ file.summary = "livox"
      /\ UNCHANGED <<phase, file, user_configs, registered>>
  <2>1. m \in Nat /\ at = m + 1 /\ at \in 1 .. Len(user_configs)
    BY DEF FillNext, StartupInv, TypeOK
  <2>2. c \in Configs
    BY <2>1 DEF StartupInv, TypeOK
  <2>3. c.handle \in Handles
    BY <2>2 DEF Configs
  <2>4. phase = "fill" /\ UNCHANGED <<phase, file, user_configs, registered>>
    BY DEF FillNext
  <2>5. ~registered /\ file.summary = "livox"
    BY <2>4 DEF StartupInv, PhaseInv
  <2>. QED  BY <2>1, <2>2, <2>3, <2>4, <2>5
<1>2. ConfigsFilled = m /\ ConfigsFilled' = at
  <2>1. at' - 1 = at
    BY <1>1 DEF FillNext
  <2>. QED  BY <1>1, <2>1 DEF ConfigsFilled
<1>3. \A h \in Handles : HasEntry(h, m) \/ HasNoEntry(h, m) \/ FoundNoSlot(h)
  BY <1>2, FilledCases DEF StartupInv
<1>4. /\ \A j \in 1 .. at : j \in 1 .. m \/ j = at
      /\ \A j \in 1 .. m : j \in 1 .. at
      /\ at \in 1 .. at
      /\ \A j \in 1 .. at : ~(j > at)
  BY <1>1
<1>. SUFFICES ASSUME NEW h \in Handles
              PROVE  \/ /\ map_index'[h] # NoSlot
                        /\ \E k \in 1 .. at :
                             /\ LastOf(k, at, h)
                             /\ livox_config'[map_index'[h]] = user_configs[k].settings
                             /\ lidar_extrinsics'[h] = PointOffset(user_configs[k])
                     \/ /\ lidar_extrinsics'[h] = NoOffset
                        /\ \A k \in 1 .. at : user_configs[k].handle # h
                        /\ map_index'[h] = NoSlot
                     \/ /\ lidar_extrinsics'[h] = NoOffset
                        /\ map_index'[h] = NoSlot
                        /\ index_cache' = Slots
  BY <1>1, <1>2 DEF Filled, LastOf, PointOffset
<1>5. ASSUME c.handle # h, NEW k \in 1 .. m, LastOf(k, m, h)
      PROVE  k \in 1 .. at /\ LastOf(k, at, h)
  BY <1>4, <1>5 DEF LastOf
<1>6. ASSUME NEW s \in Slots, FillSlot(c, s), c.handle = h
      PROVE  /\ map_index'[h] # NoSlot
             /\ \E k \in 1 .. at :
                  /\ LastOf(k, at, h)
                  /\ livox_config'[map_index'[h]] = user_configs[k].settings
                  /\ lidar_extrinsics'[h] = PointOffset(user_configs[k])
  <2>1. map_index'[h] = s /\ s # NoSlot
    BY <1>6 DEF FillSlot, TakeSlot, StartupInv, TypeOK
  <2>2. livox_config'[s] = c.settings /\ lidar_extrinsics'[h] = PointOffset(c)
    BY <1>6 DEF FillSlot, StartupInv, TypeOK
  <2>3. LastOf(at, at, h)
    BY <1>4, <1>6 DEF LastOf
  <2>. QED  BY <1>4, <2>1, <2>2, <2>3
<1>7. ASSUME NEW s \in Slots, FillSlot(c, s), c.handle # h
      PROVE  /\ map_index'[h] = map_index[h] /\ lidar_extrinsics'[h] = lidar_extrinsics[h]
             /\ map_index[h] # NoSlot => livox_config'[map_index[h]] = livox_config[map_index[h]]
             /\ index_cache = Slots => index_cache' = Slots
  <2>1. s # map_index[h]
    BY <1>1, <1>7 DEF FillSlot, IsFreeIndex, FreeSlots, StartupInv, SlotsApart, TypeOK
  <2>. QED  BY <1>1, <1>7, <2>1 DEF FillSlot, TakeSlot, StartupInv, TypeOK
<1>8. ASSUME NEW s \in Slots, FillSlot(c, s), c.handle # h, HasEntry(h, m)
      PROVE  /\ map_index'[h] # NoSlot
             /\ \E k \in 1 .. at :
                  /\ LastOf(k, at, h)
                  /\ livox_config'[map_index'[h]] = user_configs[k].settings
                  /\ lidar_extrinsics'[h] = PointOffset(user_configs[k])
  BY <1>5, <1>7, <1>8 DEF HasEntry
<1>9. CASE \E s \in Slots : FillSlot(c, s)
  <2>1. PICK s \in Slots : FillSlot(c, s)
    BY <1>9
  <2>2. CASE c.handle = h
    BY <1>6, <2>1, <2>2
  <2>3. CASE c.handle # h /\ HasEntry(h, m)
    BY <1>8, <2>1, <2>3
  <2>4. CASE c.handle # h /\ HasNoEntry(h, m)
    BY <1>1, <1>4, <1>7, <2>1, <2>4 DEF HasNoEntry
  <2>5. CASE c.handle # h /\ FoundNoSlot(h)
    BY <1>7, <2>1, <2>5 DEF FoundNoSlot
  <2>. QED  BY <1>3, <2>2, <2>3, <2>4, <2>5
<1>10. CASE PassOver(c)
  <2>1. /\ map_index[c.handle] = NoSlot /\ index_cache = Slots
        /\ UNCHANGED <<map_index, index_cache, livox_config, lidar_extrinsics>>
    BY <1>10 DEF PassOver, FreeSlots, table_vars, StartupInv, TypeOK
  <2>2. CASE HasEntry(h, m)
    <3>1. c.handle # h
      BY <2>1, <2>2 DEF HasEntry
    <3>. QED  BY <1>5, <2>1, <2>2, <3>1 DEF HasEntry
  <2>3. CASE ~HasEntry(h, m)
    BY <1>1, <1>3, <2>1, <2>3 DEF HasNoEntry, FoundNoSlot
  <2>. QED  BY <2>2, <2>3
<1>. QED  BY <1>9, <1>10 DEF FillNext

(* A lidar that reports itself takes a slot only outside the file.         *)
LEMMA FilledStep ==
  ASSUME StartupInv, [Next]_vars
  PROVE  Filled'
<1>. USE DEF table_vars, point_vars
<1>1. ASSUME UNCHANGED <<user_configs, map_index, index_cache, livox_config,
                         lidar_extrinsics>>,
             registered => registered', ConfigsFilled' = ConfigsFilled
      PROVE  Filled'
  BY <1>1 DEF Filled, LastOf, PointOffset, StartupInv
<1>2. ASSUME UNCHANGED <<map_index, index_cache, livox_config, lidar_extrinsics, registered>>,
             ConfigsFilled = 0, ConfigsFilled' = 0
      PROVE  Filled'
  <2>1. 1 .. 0 = {}
    OBVIOUS
  <2>. QED  BY <1>2, <2>1 DEF Filled, StartupInv
<1>3. CASE ParseSummaryConfig
  <2>1. ConfigsFilled = 0 /\ ConfigsFilled' = 0
    <3>. USE <1>3, FileType DEF ParseSummaryConfig, StartupInv, TypeOK
    <3>1. CASE file.summary = "bad" /\ phase' = "failed"
      BY <3>1 DEF ConfigsFilled
    <3>2. CASE file.summary = "other" /\ phase' = "observe"
      BY <3>2 DEF ConfigsFilled
    <3>3. CASE file.summary = "livox" /\ phase' = "parse"
      BY <3>3 DEF ConfigsFilled
    <3>. QED  BY <3>1, <3>2, <3>3
  <2>. QED  BY <1>2, <1>3, <2>1 DEF ParseSummaryConfig
<1>4. CASE ParseUserConfig
  <2>1. ConfigsFilled = 0 /\ ConfigsFilled' = 0
    BY <1>4 DEF ParseUserConfig, ConfigsFilled
  <2>. QED  BY <1>2, <1>4, <2>1 DEF ParseUserConfig
<1>5. CASE SdkInit
  <2>1. ConfigsFilled = 0 /\ ConfigsFilled' = 0
    BY <1>5 DEF SdkInit, ConfigsFilled
  <2>. QED  BY <1>2, <1>5, <2>1 DEF SdkInit
<1>6. CASE FillNext
  BY <1>6, FillOne
<1>7. CASE RegisterCallback
  <2>1. ConfigsFilled' = ConfigsFilled
    BY <1>7 DEF RegisterCallback, ConfigsFilled, StartupInv, TypeOK, PhaseInv
  <2>. QED  BY <1>1, <1>7, <2>1 DEF RegisterCallback
<1>8. CASE SetLidarPubHandle
  <2>1. ConfigsFilled' = ConfigsFilled
    BY <1>8 DEF SetLidarPubHandle, ConfigsFilled
  <2>. QED  BY <1>1, <1>8, <2>1 DEF SetLidarPubHandle
<1>9. ASSUME NEW g \in Handles, ReportUnknown(g)
      PROVE  Filled'
  <2>. DEFINE m == ConfigsFilled
  <2>1. ConfigsFilled' = m /\ registered
        /\ UNCHANGED <<user_configs, livox_config, lidar_extrinsics, registered>>
    BY <1>9 DEF ReportUnknown, ConfigsFilled
  <2>2. PICK s \in Slots : IsFreeIndex(g, s) /\ TakeSlot(g, s)
    BY <1>9 DEF ReportUnknown
  <2>3. map_index[g] = NoSlot /\ s \in Slots \ index_cache
    BY <1>9, <2>2 DEF ReportUnknown, IsFreeIndex, FreeSlots
  <2>4. HasNoEntry(g, m)
    BY <2>3, FilledCases DEF StartupInv, HasEntry, FoundNoSlot
  <2>5. \A h \in Handles : h # g => map_index'[h] = map_index[h]
    BY <2>2 DEF TakeSlot, StartupInv, TypeOK
  <2>6. ASSUME NEW h \in Handles, h # g
        PROVE  HasEntry(h, m) \/ HasNoEntry(h, m)
    BY <2>3, FilledCases DEF StartupInv, FoundNoSlot
  <2>7. ASSUME NEW h \in Handles
        PROVE  \/ /\ map_index'[h] # NoSlot
                  /\ \E k \in 1 .. m :
                       /\ LastOf(k, m, h)
                       /\ livox_config[map_index'[h]] = user_configs[k].settings
                       /\ lidar_extrinsics[h] = PointOffset(user_configs[k])
               \/ /\ lidar_extrinsics[h] = NoOffset
                  /\ \A k \in 1 .. m : user_configs[k].handle # h
    BY <2>4, <2>5, <2>6 DEF HasEntry, HasNoEntry
  <2>. QED  BY <2>1, <2>7 DEF Filled, LastOf, PointOffset
<1>10. ASSUME NEW g \in Handles, ReportKnown(g) \/ PointsArrive(g)
      PROVE  Filled'
  <2>1. ConfigsFilled' = ConfigsFilled
    BY <1>10 DEF ReportKnown, PointsArrive, ConfigsFilled
  <2>. QED  BY <1>1, <1>10, <2>1 DEF ReportKnown, PointsArrive
<1>11. CASE UNCHANGED vars
  <2>1. ConfigsFilled' = ConfigsFilled
    BY <1>11 DEF vars, ConfigsFilled
  <2>. QED  BY <1>1, <1>11, <2>1 DEF vars
<1>. QED
  BY <1>3, <1>4, <1>5, <1>6, <1>7, <1>8, <1>9, <1>10, <1>11 DEF Next

-----------------------------------------------------------------------------
LEMMA PointsStep ==
  ASSUME StartupInv, [Next]_vars
  PROVE  PointsInv'
<1>. USE DEF StartupInv, TypeOK, PointsInv, table_vars, point_vars
<1>1. ASSUME UNCHANGED point_vars, registered => registered'
      PROVE  PointsInv'
  BY <1>1
<1>2. CASE FillNext
  <2>1. ~registered /\ UNCHANGED extrinsic
    BY <1>2 DEF FillNext, PhaseInv
  <2>. QED  BY <2>1
<1>3. ASSUME NEW g \in Handles, PointsArrive(g)
      PROVE  PointsInv'
  <2>1. registered /\ UNCHANGED <<registered, lidar_extrinsics>>
    BY <1>3 DEF PointsArrive
  <2>2. extrinsic' = [extrinsic EXCEPT ![g] = OffsetOfPoints(g)]
    BY <1>3 DEF PointsArrive
  <2>3. \/ OffsetOfPoints(g) = lidar_extrinsics[g]
        \/ OffsetOfPoints(g) = BuiltIn /\ lidar_extrinsics[g] = NoOffset
    <3>1. CASE extrinsic[g] \notin {NoOffset, BuiltIn}
      BY <3>1 DEF OffsetOfPoints
    <3>2. CASE extrinsic[g] \in {NoOffset, BuiltIn} /\ lidar_extrinsics[g] # NoOffset
      BY <3>2 DEF OffsetOfPoints
    <3>3. CASE extrinsic[g] \in {NoOffset, BuiltIn} /\ lidar_extrinsics[g] = NoOffset
      BY <3>3 DEF OffsetOfPoints
    <3>. QED  BY <3>1, <3>2, <3>3
  <2>. QED  BY <2>1, <2>2, <2>3
<1>. QED
  BY <1>1, <1>2, <1>3 DEF Next, vars, ParseSummaryConfig, ParseUserConfig, SdkInit,
     RegisterCallback, SetLidarPubHandle, ReportUnknown, ReportKnown

LEMMA SentStep ==
  ASSUME StartupInv, [Next]_vars
  PROVE  SentInv'
<1>. USE DEF StartupInv, TypeOK, SentInv, table_vars, point_vars
<1>1. ASSUME UNCHANGED <<map_index, livox_config, sent>>, registered => registered'
      PROVE  SentInv'
  BY <1>1
<1>2. CASE FillNext
  <2>1. ~registered /\ UNCHANGED sent
    BY <1>2 DEF FillNext, PhaseInv
  <2>. QED  BY <2>1
<1>3. ASSUME NEW g \in Handles, ReportUnknown(g)
      PROVE  SentInv'
  <2>1. /\ map_index[g] = NoSlot
        /\ \A h \in Handles : h # g => map_index'[h] = map_index[h]
        /\ UNCHANGED <<livox_config, registered, sent>>
    BY <1>3 DEF ReportUnknown, TakeSlot
  <2>2. sent[g] = {}
    BY <2>1
  <2>. SUFFICES ASSUME NEW h \in Handles, NEW m \in sent[h]
                PROVE  /\ registered /\ map_index'[h] # NoSlot
                       /\ m[2] = livox_config[map_index'[h]][m[1]]
                       /\ m[2] # Unset
    BY <2>1
  <2>3. h # g
    BY <2>2
  <2>. QED  BY <2>1, <2>3
<1>4. ASSUME NEW g \in Handles, ReportKnown(g)
      PROVE  SentInv'
  <2>. DEFINE settings == livox_config[map_index[g]]
              now == {<<p, settings[p]>> : p \in {q \in Settings : settings[q] # Unset}}
  <2>1. /\ registered /\ map_index[g] # NoSlot
        /\ sent' = [sent EXCEPT ![g] = sent[g] \cup now]
        /\ UNCHANGED <<map_index, livox_config, registered>>
    BY <1>4 DEF ReportKnown
  <2>2. \A m \in now : m[2] = settings[m[1]] /\ m[2] # Unset
    OBVIOUS
  <2>. SUFFICES ASSUME NEW h \in Handles, NEW m \in sent'[h]
                PROVE  /\ map_index[h] # NoSlot
                       /\ m[2] = livox_config[map_index[h]][m[1]]
                       /\ m[2] # Unset
    BY <2>1
  <2>3. CASE h = g /\ m \in now
    <3>1. m[2] = settings[m[1]] /\ m[2] # Unset
      BY <2>2, <2>3
    <3>. QED  BY <2>1, <2>3, <3>1
  <2>4. CASE m \in sent[h]
    BY <2>4
  <2>5. m \in sent[h] \/ (h = g /\ m \in now)
    <3>. HIDE DEF now
    <3>. QED  BY <2>1
  <2>. QED  BY <2>3, <2>4, <2>5
<1>. QED
  BY <1>1, <1>2, <1>3, <1>4 DEF Next, vars, ParseSummaryConfig, ParseUserConfig, SdkInit,
     RegisterCallback, SetLidarPubHandle, PointsArrive

-----------------------------------------------------------------------------
(* The inductive invariant of the start.                                   *)
THEOREM StartupInvariant == Spec => []StartupInv
<1>1. StartupInv /\ [Next]_vars => StartupInv'
  BY TypeStep, ParsedStep, SlotsStep, FilledStep, PointsStep, SentStep, PhaseStep
     DEF StartupInv
<1>. QED  BY <1>1, InvInit, PTL DEF Spec

(* With the callbacks registered the whole file is read and filled in.     *)
LEMMA AllFilled ==
  ASSUME StartupInv, registered
  PROVE  EntriesRead = Len(file.entries) /\ ConfigsFilled = Len(user_configs)
<1>1. phase \in {"observe", "up"} /\ file.summary = "livox"
  BY DEF StartupInv, PhaseInv
<1>2. EntriesRead = Len(file.entries)
  BY <1>1 DEF EntriesRead
<1>3. ConfigsFilled = Len(user_configs)
  BY <1>1 DEF ConfigsFilled
<1>. QED  BY <1>2, <1>3

(* A lidar with an offset has everything from its last entry.              *)
LEMMA FromLastEntry ==
  ASSUME StartupInv, registered, NEW h \in Handles, lidar_extrinsics[h] # NoOffset
  PROVE  /\ map_index[h] # NoSlot
         /\ \E i \in DOMAIN file.entries :
              /\ IsLastEntry(h, file.entries[i])
              /\ livox_config[map_index[h]] = UserConfig(file.entries[i]).settings
              /\ lidar_extrinsics[h] = PointOffset(UserConfig(file.entries[i]))
<1>. DEFINE n == Len(file.entries)
            m == Len(user_configs)
<1>1. HasEntry(h, m)
  BY AllFilled, FilledCases DEF StartupInv, HasNoEntry, FoundNoSlot
<1>2. PICK k \in 1 .. m : /\ LastOf(k, m, h)
                          /\ livox_config[map_index[h]] = user_configs[k].settings
                          /\ lidar_extrinsics[h] = PointOffset(user_configs[k])
  BY <1>1 DEF HasEntry
<1>3. PICK i \in 1 .. n : LastEntryOf(i, n, h) /\ user_configs[k] = UserConfig(file.entries[i])
  BY <1>2, AllFilled DEF StartupInv, Parsed
<1>4. i \in DOMAIN file.entries /\ IsLastEntry(h, file.entries[i])
  BY <1>3, FileType DEF LastEntryOf, IsLastEntry, StartupInv, TypeOK
<1>. QED  BY <1>1, <1>2, <1>3, <1>4 DEF HasEntry

(* A lidar of the file that has a slot has an offset.                      *)
LEMMA InFileHasOffset ==
  ASSUME StartupInv, registered, NEW h \in Handles, InFile(h), map_index[h] # NoSlot
  PROVE  lidar_extrinsics[h] # NoOffset
<1>1. \E i \in 1 .. Len(file.entries) : file.entries[i].ip = h
  BY FileType DEF InFile, StartupInv, TypeOK
<1>2. \E k \in 1 .. Len(user_configs) : user_configs[k].handle = h
  BY <1>1, AllFilled DEF StartupInv, Parsed
<1>3. HasEntry(h, Len(user_configs))
  BY <1>2, AllFilled, FilledCases DEF StartupInv, HasNoEntry, FoundNoSlot
<1>4. PICK k \in 1 .. Len(user_configs) : lidar_extrinsics[h] = PointOffset(user_configs[k])
  BY <1>3 DEF HasEntry
<1>5. user_configs[k] \in Configs
  BY DEF StartupInv, TypeOK
<1>. QED  BY <1>4, <1>5, PointOffsetType

LEMMA HasOffsetInFile ==
  ASSUME NEW h \in Handles,
         \E i \in DOMAIN file.entries : IsLastEntry(h, file.entries[i])
  PROVE  InFile(h)
BY DEF IsLastEntry, InFile

(* Type correctness of the start.                                          *)
THEOREM StartupTypeCorrect == Spec => []TypeOK
<1>1. StartupInv => TypeOK
  BY DEF StartupInv
<1>. QED  BY <1>1, StartupInvariant, PTL

(* A lidar of the file is configured as a whole or not at all.             *)
THEOREM NeverByHalves == Spec => []ConfiguredWhole
<1>1. StartupInv => ConfiguredWhole
  <2>. SUFFICES ASSUME StartupInv, registered, NEW h \in Handles
                PROVE  lidar_extrinsics[h] # NoOffset <=> InFile(h) /\ map_index[h] # NoSlot
    BY DEF ConfiguredWhole
  <2>. QED  BY FromLastEntry, HasOffsetInFile, InFileHasOffset
<1>. QED  BY <1>1, StartupInvariant, PTL

(* The settings and the offset of a lidar are those of its last entry.     *)
THEOREM LastEntryOfEach == Spec => []LastEntryCounts
<1>1. StartupInv => LastEntryCounts
  BY FromLastEntry DEF LastEntryCounts
<1>. QED  BY <1>1, StartupInvariant, PTL

(* The points of a lidar of the file get the offset of its last entry,     *)
(* from the first packet.                                                  *)
THEOREM OffsetFromTheStart == Spec => []PointsPlacedAsWritten
<1>1. StartupInv => PointsPlacedAsWritten
  <2>. SUFFICES ASSUME StartupInv, NEW h \in Handles,
                       extrinsic[h] # NoOffset, InFile(h), map_index[h] # NoSlot
                PROVE  \E i \in DOMAIN file.entries :
                         /\ IsLastEntry(h, file.entries[i])
                         /\ extrinsic[h] = PointOffset(UserConfig(file.entries[i]))
    BY DEF PointsPlacedAsWritten
  <2>1. registered
    BY DEF StartupInv, PointsInv
  <2>2. lidar_extrinsics[h] # NoOffset
    BY <2>1, InFileHasOffset
  <2>3. extrinsic[h] = lidar_extrinsics[h]
    BY <2>2 DEF StartupInv, PointsInv
  <2>. QED  BY <2>1, <2>2, <2>3, FromLastEntry
<1>. QED  BY <1>1, StartupInvariant, PTL

(* A value of 8 bits survives the cast.                                    *)
LEMMA Int8Identity ==
  ASSUME NEW v \in -128 .. 127
  PROVE  Int8(v) = v
<1>1. v + 128 \in 0 .. 255
  OBVIOUS
<1>2. (v + 128) % 256 = v + 128
  BY <1>1
<1>. QED  BY <1>2 DEF Int8

(* What is sent to a lidar of the file is what its last entry says.        *)
THEOREM SettingsAsWritten == Spec => []SentAsWritten
<1>1. StartupInv => SentAsWritten
  <2>. SUFFICES ASSUME StartupInv, NEW h \in Handles, NEW m \in sent[h], InFile(h)
                PROVE  \E i \in DOMAIN file.entries :
                         /\ IsLastEntry(h, file.entries[i])
                         /\ file.entries[i].settings[m[1]] # Missing
                         /\ file.entries[i].settings[m[1]] \in -128 .. 127 =>
                              m[2] = file.entries[i].settings[m[1]] /\ m[2] # Unset
    BY DEF SentAsWritten
  <2>1. /\ registered /\ map_index[h] # NoSlot
        /\ m[2] = livox_config[map_index[h]][m[1]] /\ m[2] # Unset
    BY DEF StartupInv, SentInv
  <2>2. m[1] \in Settings
    BY DEF StartupInv, TypeOK
  <2>3. PICK i \in DOMAIN file.entries :
          /\ IsLastEntry(h, file.entries[i])
          /\ livox_config[map_index[h]] = UserConfig(file.entries[i]).settings
    BY <2>1, InFileHasOffset, FromLastEntry
  <2>4. m[2] = IF file.entries[i].settings[m[1]] = Missing THEN Unset
               ELSE Int8(file.entries[i].settings[m[1]])
    BY <2>1, <2>2, <2>3 DEF UserConfig
  <2>. QED  BY <2>1, <2>3, <2>4, Int8Identity
<1>. QED  BY <1>1, StartupInvariant, PTL
==============================================================================

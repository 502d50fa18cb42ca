--------------------------- MODULE PubHandlerProofs --------------------------
(***************************************************************************)
(* For any number of lidars, any interval and any mixture of synchronised  *)
(* and unsynchronised packets: every packet of points leaves in one frame, *)
(* in the order of arrival, the host's clock never cuts frames faster      *)
(* than the interval, and the frames of a synchronised lidar that misses   *)
(* no points come at every boundary of the interval.                       *)
(***************************************************************************)
EXTENDS PubHandler, SequenceTheorems, TLAPS

LEMMA InvInit == Init => HandlerInv
<1>. SUFFICES ASSUME Init PROVE HandlerInv
  OBVIOUS
<1>0. /\ << >> \in Seq(Packets)
      /\ Len(<< >>) = 0
  BY EmptySeq
<1>1. TypeOK
  BY <1>0, HandlerAssumption DEF Init, TypeOK, NoPoints
<1>2. Pending = << >>
  <2>1. << >> \o << >> = << >>
    BY <1>0, ConcatEmptySeq
  <2>2. /\ (IF proc_pc = "process" THEN <<raw_data>> ELSE << >>) = << >>
        /\ (IF recv_pc = "enqueue" THEN <<packet>> ELSE << >>) = << >>
        /\ raw_packet_queue = << >>
    BY DEF Init
  <2>. QED  BY <2>1, <2>2 DEF Pending
<1>3. ASSUME NEW l \in Lidars PROVE Processed(l) = 0 /\ received[l] = 0
  <2>1. points_clouds[l] = << >> /\ framed[l] = 0 /\ received[l] = 0
    BY DEF Init, NoPoints
  <2>2. Len(points_clouds[l]) = 0
    BY <1>0, <2>1, Zenon
  <2>. QED  BY <2>1, <2>2 DEF Processed
<1>4. PointsInOrder /\ PendingInOrder /\ PendingInRange
  BY <1>0, <1>2 DEF Init, NoPoints, PointsInOrder, PendingInOrder, PendingInRange
<1>5. NoneMissing /\ FramedWasReceived
  BY <1>3 DEF NoneMissing, FramedWasReceived
<1>6. FrameIsEmpty /\ TimerOnTime
  BY HandlerAssumption DEF Init, FrameIsEmpty, TimerOnTime
<1>. QED  BY <1>1, <1>4, <1>5, <1>6 DEF HandlerInv

-----------------------------------------------------------------------------
(* Types.                                                                  *)

(* A new packet.                                                           *)
LEMMA NewPacketType ==
  ASSUME TypeOK, NEW l \in Lidars, NEW known \in BOOLEAN, NEW number \in Nat
  PROVE  NewPacket(l, known, number) \in Packets
<1>. DEFINE begin == IF synced[l] THEN clock[l] ELSE now
<1>1. begin \in Nat /\ begin + PacketTicks - 1 \in Nat
  BY HandlerAssumption DEF TypeOK
<1>. QED  BY <1>1 DEF NewPacket, Packets

(* Cutting a frame.                                                        *)
LEMMA CutFrameType ==
  ASSUME TypeOK, NEW lidars \in SUBSET Lidars, CutFrame(lidars)
  PROVE  /\ frame' \in [Lidars -> Seq(Packets)]
         /\ points_clouds' \in [Lidars -> Seq(Packets)]
         /\ framed' \in [Lidars -> Nat]
<1>1. << >> \in Seq(Packets)
  BY EmptySeq
<1>2. \A l \in Lidars : points_clouds[l] \in Seq(Packets) /\ Len(points_clouds[l]) \in Nat
  BY LenProperties DEF TypeOK
<1>. QED  BY <1>1, <1>2 DEF TypeOK, CutFrame

LEMMA TypeStep ==
  ASSUME HandlerInv, [Next]_vars
  PROVE  TypeOK'
<1>. USE DEF HandlerInv, TypeOK, net_vars, recv_vars, proc_vars, timer_vars, frame_vars
<1>1. CASE Tick
  BY <1>1, HandlerAssumption DEF Tick
<1>2. ASSUME NEW l \in Lidars, PacketLost(l) \/ ChangeSync(l) \/ ImuPacket(l)
      PROVE  TypeOK'
  <2>1. CASE PacketLost(l)
    <3>1. clock' \in [Lidars -> Nat] /\ faults' \in Nat
      BY <2>1, HandlerAssumption DEF PacketLost, Fault, PacketIsSent
    <3>. QED  BY <2>1, <3>1 DEF PacketLost
  <2>2. CASE ChangeSync(l)
    BY <2>2 DEF ChangeSync, Fault
  <2>3. CASE ImuPacket(l)
    BY <2>3 DEF ImuPacket, NoteTimeType
  <2>. QED  BY <1>2, <2>1, <2>2, <2>3
<1>3. ASSUME NEW l \in Lidars, PointPacket(l)
      PROVE  TypeOK'
  <2>1. received[l] + 1 \in Nat
    OBVIOUS
  <2>2. packet' \in Packets
    BY <1>3, <2>1, NewPacketType DEF PointPacket
  <2>3. /\ clock' \in [Lidars -> Nat]
        /\ is_timestamp_sync' \in BOOLEAN
        /\ received' \in [Lidars -> Nat]
    BY <1>3, <2>1, HandlerAssumption DEF PointPacket, PacketIsSent, NoteTimeType
  <2>. QED  BY <1>3, <2>2, <2>3 DEF PointPacket
<1>11. ASSUME NEW l \in Lidars, UnknownPacket(l)
       PROVE  TypeOK'
  <2>1. packet' \in Packets
    BY <1>11, NewPacketType DEF UnknownPacket
  <2>2. /\ clock' \in [Lidars -> Nat]
        /\ faults' \in Nat
        /\ is_timestamp_sync' \in BOOLEAN
    BY <1>11, HandlerAssumption DEF UnknownPacket, Fault, PacketIsSent, NoteTimeType
  <2>3. regular' \in [Lidars -> BOOLEAN]
    BY <1>11 DEF UnknownPacket
  <2>. QED  BY <1>11, <2>1, <2>2, <2>3 DEF UnknownPacket
<1>4. CASE Enqueue
  BY <1>4, AppendProperties DEF Enqueue
<1>5. CASE TakePacket
  BY <1>5, HeadTailProperties DEF TakePacket
<1>6. CASE PointCloudProcess
  <2>1. \A l \in Lidars : Append(points_clouds[l], raw_data) \in Seq(Packets)
    BY <1>6, AppendProperties DEF PointCloudProcess
  <2>2. raw_data.lidar \in Lidars
    BY <1>6 DEF PointCloudProcess, Packets
  <2>. QED  BY <1>6, <2>1, <2>2 DEF PointCloudProcess, ProcessPoints
<1>7. CASE CheckTimer
  <2>1. raw_data.lidar \in Lidars
    BY <1>7 DEF CheckTimer, Packets
  <2>2. CASE CheckTimerSync
    <3>1. CASE SyncFrameIsDue(raw_data.lidar)
      <4>. DEFINE one == {raw_data.lidar}
      <4>1. CutFrame(one) /\ one \in SUBSET Lidars
        BY <2>1, <2>2, <3>1 DEF CheckTimerSync
      <4>. HIDE DEF one
      <4>2. /\ frame' \in [Lidars -> Seq(Packets)]
            /\ points_clouds' \in [Lidars -> Seq(Packets)]
            /\ framed' \in [Lidars -> Nat]
        BY <4>1, CutFrameType
      <4>3. proc_pc' = "publish" /\ UNCHANGED timer_vars
        BY <2>2, <4>1 DEF CheckTimerSync, CutFrame
      <4>. QED  BY <1>7, <4>2, <4>3 DEF CheckTimer
    <3>2. CASE ~SyncFrameIsDue(raw_data.lidar)
      BY <1>7, <2>2, <3>2 DEF CheckTimer, CheckTimerSync, NoFrame
    <3>. QED  BY <3>1, <3>2
  <2>3. CASE CheckTimerNoSync
    <3>1. CASE TimerFrame /\ CutFrame(Lidars)
      BY <1>7, <3>1, CutFrameType, HandlerAssumption DEF CheckTimer, TimerFrame, CutFrame
    <3>2. CASE FirstTimer /\ NoFrame
      BY <1>7, <3>2 DEF CheckTimer, FirstTimer, NoFrame
    <3>3. CASE NoFrame /\ UNCHANGED timer_vars
      BY <1>7, <3>3 DEF CheckTimer, NoFrame
    <3>. QED  BY <2>3, <3>1, <3>2, <3>3 DEF CheckTimerNoSync
  <2>. QED  BY <1>7, <2>2, <2>3 DEF CheckTimer
<1>8. CASE PublishPointCloud
  <2>1. NoPoints \in [Lidars -> Seq(Packets)]
    BY EmptySeq DEF NoPoints
  <2>. QED  BY <1>8, <2>1 DEF PublishPointCloud
<1>9. CASE CheckQuit \/ WaitTimesOut \/ RequestExit
  BY <1>9 DEF CheckQuit, WaitTimesOut, RequestExit
<1>10. CASE UNCHANGED vars
  BY <1>10 DEF vars
<1>. QED
  BY <1>1, <1>2, <1>3, <1>4, <1>5, <1>6, <1>7, <1>8, <1>9, <1>10, <1>11
     DEF Next, RawDataProcess
-----------------------------------------------------------------------------
(* The order of the packets.                                               *)

Ordered ==
  /\ PointsInOrder
  /\ PendingInOrder
  /\ PendingInRange
  /\ NoneMissing
  /\ FramedWasReceived

(* The packets that wait, as sequences.                                    *)
LEMMA PendingType ==
  ASSUME TypeOK
  PROVE  /\ Pending \in Seq(Packets)
         /\ (IF proc_pc = "process" THEN <<raw_data>> ELSE << >>) \in Seq(Packets)
         /\ (IF recv_pc = "enqueue" THEN <<packet>> ELSE << >>) \in Seq(Packets)
<1>. DEFINE front == IF proc_pc = "process" THEN <<raw_data>> ELSE << >>
            back == IF recv_pc = "enqueue" THEN <<packet>> ELSE << >>
<1>1. front \in Seq(Packets)
  BY EmptySeq DEF TypeOK
<1>2. back \in Seq(Packets)
  BY EmptySeq DEF TypeOK
<1>3. raw_packet_queue \in Seq(Packets)
  BY DEF TypeOK
<1>4. Pending = front \o raw_packet_queue \o back
  BY DEF Pending
<1>. HIDE DEF front, back
<1>5. (front \o raw_packet_queue) \o back \in Seq(Packets)
  <2>1. front \o raw_packet_queue \in Seq(Packets)
    BY <1>1, <1>3, ConcatProperties
  <2>. QED  BY <1>2, <2>1, ConcatProperties
<1>6. Pending \in Seq(Packets)
  BY <1>4, <1>5
<1>. QED  BY <1>1, <1>2, <1>6 DEF front, back

(* Putting a packet into the queue and taking one from it move it within   *)
(* the packets that wait.                                                  *)
LEMMA EnqueueMoves ==
  ASSUME TypeOK, Enqueue
  PROVE  Pending' = Pending
<1>. DEFINE front == IF proc_pc = "process" THEN <<raw_data>> ELSE << >>
<1>1. front \in Seq(Packets) /\ raw_packet_queue \in Seq(Packets) /\ packet \in Packets
  BY PendingType DEF TypeOK, Enqueue
<1>2. Pending = (front \o raw_packet_queue) \o <<packet>>
  BY DEF Pending, Enqueue
<1>3. Pending' = (front \o Append(raw_packet_queue, packet)) \o << >>
  BY DEF Pending, Enqueue, proc_vars
<1>. HIDE DEF front
<1>4. <<packet>> \in Seq(Packets)
  BY <1>1
<1>5. Append(raw_packet_queue, packet) = raw_packet_queue \o <<packet>>
  BY <1>1, AppendIsConcat
<1>6. front \o (raw_packet_queue \o <<packet>>) = (front \o raw_packet_queue) \o <<packet>>
  BY <1>1, <1>4, ConcatAssociative
<1>7. (front \o raw_packet_queue) \o <<packet>> \in Seq(Packets)
  BY <1>1, <1>4, ConcatProperties
<1>8. ((front \o raw_packet_queue) \o <<packet>>) \o << >>
        = (front \o raw_packet_queue) \o <<packet>>
  BY <1>7, ConcatEmptySeq
<1>. QED  BY <1>2, <1>3, <1>5, <1>6, <1>8

LEMMA TakeMoves ==
  ASSUME TypeOK, TakePacket
  PROVE  Pending' = Pending
<1>. DEFINE back == IF recv_pc = "enqueue" THEN <<packet>> ELSE << >>
<1>1. back \in Seq(Packets) /\ raw_packet_queue \in Seq(Packets) \ {<< >>}
  BY PendingType DEF TypeOK, TakePacket
<1>2. Pending = (<< >> \o raw_packet_queue) \o back
  BY DEF Pending, TakePacket
<1>3. Pending' = (<<Head(raw_packet_queue)>> \o Tail(raw_packet_queue)) \o back
  BY DEF Pending, TakePacket, recv_vars
<1>. HIDE DEF back
<1>4. << >> \o raw_packet_queue = raw_packet_queue
  BY <1>1, ConcatEmptySeq
<1>5. <<Head(raw_packet_queue)>> \o Tail(raw_packet_queue) = raw_packet_queue
  <2>. DEFINE h == <<Head(raw_packet_queue)>>
              t == Tail(raw_packet_queue)
  <2>1. /\ h \in Seq(Packets) /\ Len(h) = 1 /\ h[1] = Head(raw_packet_queue)
        /\ t \in Seq(Packets) /\ Len(t) = Len(raw_packet_queue) - 1
        /\ \A i \in 1 .. Len(t) : t[i] = raw_packet_queue[i + 1]
        /\ Len(raw_packet_queue) \in Nat \ {0}
        /\ Head(raw_packet_queue) = raw_packet_queue[1]
    BY <1>1, HeadTailProperties, EmptySeq
  <2>. HIDE DEF h, t
  <2>2. /\ h \o t \in Seq(Packets)
        /\ Len(h \o t) = Len(raw_packet_queue)
        /\ \A i \in 1 .. Len(raw_packet_queue) :
             (h \o t)[i] = IF i <= 1 THEN h[i] ELSE t[i - 1]
    BY <2>1, ConcatProperties
  <2>3. \A i \in 1 .. Len(raw_packet_queue) : (h \o t)[i] = raw_packet_queue[i]
    BY <2>1, <2>2
  <2>4. h \o t = raw_packet_queue
    BY <1>1, <2>2, <2>3, SeqEqual
  <2>. QED  BY <2>4 DEF h, t
<1>. QED  BY <1>2, <1>3, <1>4, <1>5
(* A step that leaves the packets on their way and the points alone.       *)
LEMMA SameOrder ==
  ASSUME Ordered, Pending' = Pending, UNCHANGED <<points_clouds, framed, received>>
  PROVE  Ordered'
<1>1. \A l \in Lidars : Processed(l)' = Processed(l)
  BY DEF Processed
<1>2. PointsInOrder' /\ PendingInOrder'
  BY DEF Ordered, PointsInOrder, PendingInOrder
<1>3. PendingInRange' /\ NoneMissing' /\ FramedWasReceived'
  BY <1>1 DEF Ordered, PendingInRange, NoneMissing, FramedWasReceived, Processed
<1>. QED  BY <1>2, <1>3 DEF Ordered

(* A packet that the SDK's thread has read is the last of those that wait. *)
LEMMA ReadIsLast ==
  ASSUME TypeOK, TypeOK', recv_pc = "idle", recv_pc' = "enqueue",
         UNCHANGED <<raw_packet_queue, proc_vars>>
  PROVE  /\ Len(Pending') = Len(Pending) + 1
         /\ Pending'[Len(Pending) + 1] = packet'
         /\ \A i \in 1 .. Len(Pending) : Pending'[i] = Pending[i]
<1>. DEFINE front == IF proc_pc = "process" THEN <<raw_data>> ELSE << >>
<1>1. front \in Seq(Packets) /\ raw_packet_queue \in Seq(Packets) /\ packet' \in Packets
  BY PendingType DEF TypeOK
<1>2. Pending = (front \o raw_packet_queue) \o << >>
  BY DEF Pending
<1>3. Pending' = (front \o raw_packet_queue) \o <<packet'>>
  BY DEF Pending, proc_vars
<1>. HIDE DEF front
<1>. DEFINE taken == front \o raw_packet_queue
            last == <<packet'>>
<1>4. taken \in Seq(Packets) /\ Len(taken) \in Nat
  BY <1>1, ConcatProperties, LenProperties
<1>5. last \in Seq(Packets) /\ Len(last) = 1 /\ last[1] = packet'
  BY <1>1
<1>. HIDE DEF taken, last
<1>6. Pending = taken
  BY <1>2, <1>4, ConcatEmptySeq DEF taken
<1>7. Pending' = taken \o last
  BY <1>3 DEF taken, last
<1>8. /\ Len(taken \o last) = Len(taken) + 1
      /\ \A i \in 1 .. Len(taken) + 1 :
           (taken \o last)[i] = IF i <= Len(taken) THEN taken[i] ELSE last[i - Len(taken)]
  BY <1>4, <1>5, ConcatProperties
<1>. QED  BY <1>4, <1>5, <1>6, <1>7, <1>8

(* The packet that is processed is the first of those that wait.           *)
LEMMA ProcessedIsFirst ==
  ASSUME TypeOK, PointCloudProcess
  PROVE  /\ Len(Pending') \in Nat
         /\ Len(Pending) = Len(Pending') + 1
         /\ Pending[1] = raw_data
         /\ \A i \in 1 .. Len(Pending') : Pending'[i] = Pending[i + 1]
<1>. DEFINE back == IF recv_pc = "enqueue" THEN <<packet>> ELSE << >>
            head == <<raw_data>>
<1>1. back \in Seq(Packets) /\ raw_packet_queue \in Seq(Packets) /\ raw_data \in Packets
  BY PendingType DEF TypeOK, PointCloudProcess
<1>2. Pending = (head \o raw_packet_queue) \o back
  BY DEF Pending, PointCloudProcess
<1>3. Pending' = (<< >> \o raw_packet_queue) \o back
  BY DEF Pending, PointCloudProcess, recv_vars
<1>4. head \in Seq(Packets) /\ Len(head) = 1 /\ head[1] = raw_data
  BY <1>1
<1>. HIDE DEF back, head
<1>. DEFINE rest == raw_packet_queue \o back
<1>5. rest \in Seq(Packets) /\ Len(rest) \in Nat
  BY <1>1, ConcatProperties, LenProperties
<1>6. Pending = head \o rest
  BY <1>1, <1>2, <1>4, ConcatAssociative
<1>7. Pending' = rest
  BY <1>1, <1>3, ConcatEmptySeq
<1>. HIDE DEF rest
<1>8. /\ Len(head \o rest) = 1 + Len(rest)
      /\ \A i \in 1 .. 1 + Len(rest) :
           (head \o rest)[i] = IF i <= 1 THEN head[i] ELSE rest[i - 1]
  BY <1>4, <1>5, ConcatProperties
<1>. QED  BY <1>4, <1>5, <1>6, <1>7, <1>8

(* A packet of points that arrives has the next number of its lidar.       *)
LEMMA PointPacketOrder ==
  ASSUME HandlerInv, TypeOK', NEW l \in Lidars, PointPacket(l)
  PROVE  Ordered'
<1>. DEFINE n == Len(Pending)
<1>1. /\ n \in Nat
      /\ Len(Pending') = n + 1
      /\ Pending'[n + 1] = packet'
      /\ \A i \in 1 .. n : Pending'[i] = Pending[i]
  BY PendingType, ReadIsLast, LenProperties
     DEF HandlerInv, PointPacket, NoteTimeType
<1>2. /\ packet'.lidar = l
      /\ packet'.known
      /\ packet'.number = received[l] + 1
  BY DEF PointPacket, NewPacket
<1>3. /\ UNCHANGED <<points_clouds, framed>>
      /\ \A k \in Lidars : Processed(k) \in Nat
      /\ \A i \in 1 .. n : Pending[i] \in Packets
  <2>1. UNCHANGED <<points_clouds, framed>>
    BY DEF PointPacket, frame_vars
  <2>2. ASSUME NEW k \in Lidars PROVE Processed(k) \in Nat
    <3>1. framed[k] \in Nat /\ points_clouds[k] \in Seq(Packets)
      BY DEF HandlerInv, TypeOK
    <3>. QED  BY <3>1, LenProperties DEF Processed
  <2>3. \A i \in 1 .. n : Pending[i] \in Packets
    BY PendingType, ElementOfSeq DEF HandlerInv
  <2>. QED  BY <2>1, <2>2, <2>3
<1>4. /\ received \in [Lidars -> Nat]
      /\ received'[l] = received[l] + 1
      /\ \A k \in Lidars \ {l} : received'[k] = received[k]
  BY DEF HandlerInv, TypeOK, PointPacket
<1>5. PointsInOrder'
  BY DEF HandlerInv, PointsInOrder, PointPacket, frame_vars
<1>. HIDE DEF n
<1>6. PendingInOrder'
  <2>. SUFFICES ASSUME NEW i \in 1 .. n + 1, NEW j \in 1 .. n + 1, i < j,
                       Pending'[i].lidar = Pending'[j].lidar,
                       Pending'[i].known, Pending'[j].known
                PROVE  Pending'[i].number < Pending'[j].number
    BY <1>1 DEF PendingInOrder
  <2>1. CASE j = n + 1
    <3>1. i \in 1 .. n /\ Pending'[i] = Pending[i] /\ Pending[i].lidar = l
      BY <1>1, <1>2, <2>1
    <3>2. Pending[i].number <= received[l]
      BY <1>3, <1>4, <3>1 DEF HandlerInv, PendingInRange, n
    <3>. QED  BY <1>1, <1>2, <1>3, <1>4, <2>1, <3>1, <3>2 DEF Packets
  <2>2. CASE j \in 1 .. n
    BY <1>1, <2>2 DEF HandlerInv, PendingInOrder, n
  <2>. QED  BY <1>1, <2>1, <2>2
<1>7. PendingInRange'
  <2>. SUFFICES ASSUME NEW i \in 1 .. n + 1, Pending'[i].known
                PROVE  Pending'[i].number
                         \in Processed(Pending'[i].lidar) + 1 .. received'[Pending'[i].lidar]
    BY <1>1, <1>3 DEF PendingInRange, Processed
  <2>1. CASE i = n + 1
    BY <1>1, <1>2, <1>3, <1>4, <2>1 DEF HandlerInv, FramedWasReceived
  <2>2. CASE i \in 1 .. n
    <3>1. /\ Pending'[i] = Pending[i]
          /\ Pending[i].lidar \in Lidars
          /\ Pending[i].number \in Nat
      BY <1>1, <1>3, <2>2 DEF Packets
    <3>2. Pending[i].number \in Processed(Pending[i].lidar) + 1 .. received[Pending[i].lidar]
      BY <2>2, <3>1 DEF HandlerInv, PendingInRange, n
    <3>3. received[Pending[i].lidar] \in Nat /\ received'[Pending[i].lidar] \in Nat
            /\ received[Pending[i].lidar] <= received'[Pending[i].lidar]
      BY <1>4, <3>1
    <3>. QED  BY <1>3, <3>1, <3>2, <3>3
  <2>. QED  BY <1>1, <2>1, <2>2
<1>8. NoneMissing'
  <2>. SUFFICES ASSUME NEW k \in Lidars, NEW m \in Processed(k) + 1 .. received'[k]
                PROVE  \E i \in 1 .. n + 1 : /\ Pending'[i].lidar = k
                                             /\ Pending'[i].known
                                             /\ Pending'[i].number = m
    BY <1>1, <1>3 DEF NoneMissing, Processed
  <2>1. CASE k = l /\ m = received[l] + 1
    BY <1>1, <1>2, <2>1
  <2>2. CASE ~(k = l /\ m = received[l] + 1)
    <3>1. m \in Processed(k) + 1 .. received[k]
      BY <1>3, <1>4, <2>2
    <3>2. PICK i \in 1 .. n : /\ Pending[i].lidar = k
                              /\ Pending[i].known
                              /\ Pending[i].number = m
      BY <3>1 DEF HandlerInv, NoneMissing, n
    <3>. QED  BY <1>1, <3>2
  <2>. QED  BY <2>1, <2>2
<1>9. FramedWasReceived'
  <2>. SUFFICES ASSUME NEW k \in Lidars PROVE Processed(k) <= received'[k]
    BY <1>3 DEF FramedWasReceived, Processed
  <2>1. Processed(k) <= received[k] /\ received[k] <= received'[k]
    BY <1>4 DEF HandlerInv, FramedWasReceived
  <2>. QED  BY <1>3, <1>4, <2>1
<1>. QED  BY <1>5, <1>6, <1>7, <1>8, <1>9 DEF Ordered
(* A packet of an unknown type does not count.                             *)
LEMMA UnknownPacketOrder ==
  ASSUME HandlerInv, TypeOK', NEW l \in Lidars, UnknownPacket(l)
  PROVE  Ordered'
<1>. DEFINE n == Len(Pending)
<1>1. /\ n \in Nat
      /\ Len(Pending') = n + 1
      /\ Pending'[n + 1] = packet'
      /\ \A i \in 1 .. n : Pending'[i] = Pending[i]
  BY PendingType, ReadIsLast, LenProperties
     DEF HandlerInv, UnknownPacket, NoteTimeType
<1>2. ~packet'.known
  BY DEF UnknownPacket, NewPacket
<1>3. UNCHANGED <<points_clouds, framed, received>>
  BY DEF UnknownPacket, frame_vars
<1>. HIDE DEF n
<1>4. \A i \in 1 .. n + 1 : Pending'[i].known => i \in 1 .. n
  BY <1>1, <1>2
<1>5. PointsInOrder'
  BY <1>3 DEF HandlerInv, PointsInOrder
<1>6. PendingInOrder'
  BY <1>1, <1>4 DEF HandlerInv, PendingInOrder, n
<1>7. PendingInRange'
  BY <1>1, <1>3, <1>4 DEF HandlerInv, PendingInRange, Processed, n
<1>8. NoneMissing'
  <2>. SUFFICES ASSUME NEW k \in Lidars, NEW m \in Processed(k) + 1 .. received[k]
                PROVE  \E i \in 1 .. n + 1 : /\ Pending'[i].lidar = k
                                             /\ Pending'[i].known
                                             /\ Pending'[i].number = m
    BY <1>1, <1>3 DEF NoneMissing, Processed
  <2>1. PICK i \in 1 .. n : /\ Pending[i].lidar = k
                            /\ Pending[i].known
                            /\ Pending[i].number = m
    BY DEF HandlerInv, NoneMissing, n
  <2>. QED  BY <1>1, <2>1
<1>9. FramedWasReceived'
  BY <1>3 DEF HandlerInv, FramedWasReceived, Processed
<1>. QED  BY <1>5, <1>6, <1>7, <1>8, <1>9 DEF Ordered

(* The first of the packets that wait has the number after its lidar's     *)
(* points: a smaller one is not among them, and one after it waits behind. *)
LEMMA FirstIsNext ==
  ASSUME HandlerInv, Len(Pending) > 0, Pending[1].known
  PROVE  Pending[1].number = Processed(Pending[1].lidar) + 1
<1>. DEFINE l == Pending[1].lidar
            n == Len(Pending)
<1>1. /\ n \in Nat \ {0}
      /\ \A i \in 1 .. n : Pending[i] \in Packets
  BY PendingType, ElementOfSeq, LenProperties DEF HandlerInv
<1>2. l \in Lidars /\ Pending[1].number \in Nat
  BY <1>1 DEF Packets
<1>3. Processed(l) \in Nat /\ received[l] \in Nat
  <2>1. framed[l] \in Nat /\ points_clouds[l] \in Seq(Packets) /\ received[l] \in Nat
    BY <1>2 DEF HandlerInv, TypeOK
  <2>. QED  BY <2>1, LenProperties DEF Processed
<1>4. Pending[1].number \in Processed(l) + 1 .. received[l]
  BY <1>1 DEF HandlerInv, PendingInRange
<1>5. ~ Pending[1].number > Processed(l) + 1
  <2>. SUFFICES ASSUME Pending[1].number > Processed(l) + 1 PROVE FALSE
    OBVIOUS
  <2>1. Processed(l) + 1 \in Processed(l) + 1 .. received[l]
    BY <1>2, <1>3, <1>4
  <2>2. PICK i \in 1 .. n : /\ Pending[i].lidar = l
                            /\ Pending[i].known
                            /\ Pending[i].number = Processed(l) + 1
    BY <1>2, <2>1 DEF HandlerInv, NoneMissing
  <2>3. i # 1
    BY <1>2, <1>3, <2>2
  <2>4. Pending[1].number < Pending[i].number
    BY <1>1, <2>2, <2>3 DEF HandlerInv, PendingInOrder
  <2>. QED  BY <1>2, <1>3, <2>2, <2>4
<1>. QED  BY <1>2, <1>3, <1>4, <1>5
(* Processing a packet makes its points the last of its lidar's.           *)
LEMMA ProcessOrder ==
  ASSUME HandlerInv, TypeOK', PointCloudProcess
  PROVE  Ordered'
<1>. DEFINE l == raw_data.lidar
            n == Len(Pending')
            Now(k) == IF raw_data.known /\ k = l THEN Processed(k) + 1 ELSE Processed(k)
<1>1. /\ n \in Nat
      /\ Len(Pending) = n + 1
      /\ Pending[1] = raw_data
      /\ \A i \in 1 .. n : Pending'[i] = Pending[i + 1]
  BY ProcessedIsFirst DEF HandlerInv
<1>2. raw_data \in Packets /\ l \in Lidars /\ raw_data.number \in Nat
  BY DEF HandlerInv, TypeOK, PointCloudProcess, Packets
<1>3. \A i \in 1 .. n + 1 : Pending[i] \in Packets
  BY <1>1, PendingType, ElementOfSeq DEF HandlerInv
<1>4. UNCHANGED <<framed, received>>
  BY DEF PointCloudProcess, frame_vars
<1>5. ASSUME NEW k \in Lidars
      PROVE  /\ framed[k] \in Nat
             /\ points_clouds[k] \in Seq(Packets)
             /\ Len(points_clouds[k]) \in Nat
             /\ received[k] \in Nat
             /\ Processed(k) \in Nat
  <2>1. framed[k] \in Nat /\ points_clouds[k] \in Seq(Packets) /\ received[k] \in Nat
    BY DEF HandlerInv, TypeOK
  <2>. QED  BY <2>1, LenProperties DEF Processed
<1>6. ASSUME NEW k \in Lidars
      PROVE  points_clouds'[k] = IF raw_data.known /\ k = l
                                 THEN Append(points_clouds[k], raw_data)
                                 ELSE points_clouds[k]
  BY <1>2 DEF HandlerInv, TypeOK, PointCloudProcess, ProcessPoints
<1>7. ASSUME NEW k \in Lidars
       PROVE  /\ Append(points_clouds[k], raw_data) \in Seq(Packets)
              /\ Len(Append(points_clouds[k], raw_data)) = Len(points_clouds[k]) + 1
              /\ \A j \in 1 .. Len(points_clouds[k]) :
                   Append(points_clouds[k], raw_data)[j] = points_clouds[k][j]
              /\ Append(points_clouds[k], raw_data)[Len(points_clouds[k]) + 1] = raw_data
  <2>. DEFINE seq == points_clouds[k]
  <2>1. seq \in Seq(Packets)
    BY <1>5
  <2>. HIDE DEF seq
  <2>2. /\ Append(seq, raw_data) \in Seq(Packets)
        /\ Len(Append(seq, raw_data)) = Len(seq) + 1
        /\ \A j \in 1 .. Len(seq) : Append(seq, raw_data)[j] = seq[j]
        /\ Append(seq, raw_data)[Len(seq) + 1] = raw_data
    BY <1>2, <2>1, AppendProperties
  <2>. QED  BY <2>2 DEF seq
<1>8. ASSUME NEW k \in Lidars
      PROVE  framed'[k] + Len(points_clouds'[k]) = Now(k)
  <2>1. CASE raw_data.known /\ k = l
    <3>1. points_clouds'[k] = Append(points_clouds[k], raw_data)
      BY <1>6, <2>1
    <3>2. Len(points_clouds'[k]) = Len(points_clouds[k]) + 1
      BY <1>7, <3>1
    <3>3. framed'[k] = framed[k] /\ framed[k] \in Nat /\ Len(points_clouds[k]) \in Nat
      BY <1>4, <1>5
    <3>4. Now(k) = framed[k] + Len(points_clouds[k]) + 1
      BY <2>1 DEF Processed
    <3>. QED  BY <3>2, <3>3, <3>4
  <2>2. CASE ~(raw_data.known /\ k = l)
    BY <1>4, <1>6, <2>2 DEF Processed
  <2>. QED  BY <2>1, <2>2
<1>9. raw_data.known => raw_data.number = Processed(l) + 1
  BY <1>1, FirstIsNext
<1>10. raw_data.known => Processed(l) + 1 <= received[l]
  <2>1. raw_data.known => raw_data.number \in Processed(l) + 1 .. received[l]
    BY <1>1 DEF HandlerInv, PendingInRange
  <2>. QED  BY <1>2, <1>5, <1>9, <2>1
<1>11. PointsInOrder'
  <2>. SUFFICES ASSUME NEW k \in Lidars, NEW i \in 1 .. Len(points_clouds'[k])
                PROVE  points_clouds'[k][i].number = framed[k] + i
    BY <1>4 DEF PointsInOrder
  <2>1. CASE raw_data.known /\ k = l
    <3>. DEFINE last == Len(points_clouds[k]) + 1
    <3>1. /\ Len(points_clouds'[k]) = last
          /\ points_clouds'[k][last] = raw_data
          /\ \A j \in 1 .. Len(points_clouds[k]) :
               points_clouds'[k][j] = points_clouds[k][j]
      <4>1. points_clouds'[k] = Append(points_clouds[k], raw_data)
        BY <1>6, <2>1
      <4>. QED  BY <1>7, <4>1
    <3>2. CASE i = last
      <4>1. raw_data.number = framed[k] + Len(points_clouds[k]) + 1
        BY <1>9, <2>1 DEF Processed
      <4>2. framed[k] \in Nat /\ Len(points_clouds[k]) \in Nat
        BY <1>5
      <4>3. points_clouds'[k][i] = raw_data
        BY <3>1, <3>2
      <4>4. framed[k] + i = framed[k] + Len(points_clouds[k]) + 1
        BY <3>2, <4>2
      <4>. QED  BY <4>1, <4>3, <4>4
    <3>3. CASE i \in 1 .. Len(points_clouds[k])
      BY <3>1, <3>3 DEF HandlerInv, PointsInOrder
    <3>. QED  BY <1>5, <3>1, <3>2, <3>3
  <2>2. CASE ~(raw_data.known /\ k = l)
    BY <1>6, <2>2 DEF HandlerInv, PointsInOrder
  <2>. QED  BY <2>1, <2>2
<1>12. ASSUME NEW i \in 1 .. n, NEW j \in 1 .. n, i < j,
              Pending'[i].lidar = Pending'[j].lidar,
              Pending'[i].known, Pending'[j].known
       PROVE  Pending'[i].number < Pending'[j].number
  <2>1. i + 1 \in 1 .. Len(Pending) /\ j + 1 \in 1 .. Len(Pending) /\ i + 1 < j + 1
    BY <1>1, <1>12
  <2>. QED  BY <1>1, <1>12, <2>1 DEF HandlerInv, PendingInOrder
<1>13. ASSUME NEW i \in 1 .. n, Pending'[i].known
       PROVE  /\ Pending'[i].lidar \in Lidars
              /\ Pending'[i].number \in Now(Pending'[i].lidar) + 1 .. received[Pending'[i].lidar]
  <2>. DEFINE p == Pending[i + 1]
  <2>1. i + 1 \in 1 .. Len(Pending) /\ i + 1 > 1 /\ Pending'[i] = p
    BY <1>1
  <2>2. p.lidar \in Lidars /\ p.number \in Nat /\ p.known
    BY <1>1, <1>3, <1>13, <2>1 DEF Packets
  <2>3. p.number \in Processed(p.lidar) + 1 .. received[p.lidar]
    BY <2>1, <2>2 DEF HandlerInv, PendingInRange
  <2>4. CASE raw_data.known /\ p.lidar = l
    <3>1. 1 \in 1 .. Len(Pending) /\ 1 < i + 1
      BY <1>1, <2>1
    <3>2. raw_data.number < p.number
      BY <1>1, <2>1, <2>2, <2>4, <3>1 DEF HandlerInv, PendingInOrder
    <3>. QED  BY <1>2, <1>5, <1>9, <2>1, <2>2, <2>3, <2>4, <3>2
  <2>5. CASE ~(raw_data.known /\ p.lidar = l)
    BY <2>1, <2>2, <2>3, <2>5
  <2>. QED  BY <2>4, <2>5
<1>14. ASSUME NEW k \in Lidars, NEW m \in Now(k) + 1 .. received[k]
       PROVE  \E i \in 1 .. n : /\ Pending'[i].lidar = k
                                /\ Pending'[i].known
                                /\ Pending'[i].number = m
  <2>1. m \in Processed(k) + 1 .. received[k]
    BY <1>5
  <2>2. PICK i \in 1 .. n + 1 : /\ Pending[i].lidar = k
                                /\ Pending[i].known
                                /\ Pending[i].number = m
    BY <1>1, <2>1 DEF HandlerInv, NoneMissing
  <2>3. i # 1
    BY <1>1, <1>5, <1>9, <2>2
  <2>4. i - 1 \in 1 .. n /\ Pending'[i - 1] = Pending[i]
    BY <1>1, <2>2, <2>3
  <2>. QED  BY <2>2, <2>4
<1>15. ASSUME NEW k \in Lidars PROVE Now(k) <= received[k]
  <2>1. Processed(k) <= received[k]
    BY DEF HandlerInv, FramedWasReceived
  <2>. QED  BY <1>10, <2>1
<1>16. PendingInOrder'
  BY <1>12 DEF PendingInOrder
<1>. HIDE DEF Now
<1>17. PendingInRange'
  BY <1>4, <1>8, <1>13 DEF PendingInRange, Processed
<1>18. NoneMissing'
  BY <1>4, <1>8, <1>14 DEF NoneMissing, Processed
<1>19. FramedWasReceived'
  BY <1>4, <1>8, <1>15 DEF FramedWasReceived, Processed
<1>. QED  BY <1>11, <1>16, <1>17, <1>18, <1>19 DEF Ordered
(* Cutting a frame takes all points of its lidars.                         *)
LEMMA CutOrder ==
  ASSUME HandlerInv, NEW lidars \in SUBSET Lidars, CutFrame(lidars),
         Pending' = Pending, received' = received
  PROVE  Ordered'
<1>1. ASSUME NEW k \in Lidars
      PROVE  /\ framed[k] \in Nat
             /\ Len(points_clouds[k]) \in Nat
  <2>1. framed[k] \in Nat /\ points_clouds[k] \in Seq(Packets)
    BY DEF HandlerInv, TypeOK
  <2>. QED  BY <2>1, LenProperties
<1>2. Len(<< >>) = 0
  BY EmptySeq
<1>3. ASSUME NEW k \in Lidars
      PROVE  framed'[k] + Len(points_clouds'[k]) = Processed(k)
  <2>1. CASE k \in lidars
    <3>1. points_clouds'[k] = << >> /\ framed'[k] = framed[k] + Len(points_clouds[k])
      BY <2>1 DEF CutFrame
    <3>2. Len(points_clouds'[k]) = 0
      BY <1>2, <3>1, Zenon
    <3>. QED  BY <1>1, <3>1, <3>2 DEF Processed
  <2>2. CASE k \notin lidars
    BY <2>2 DEF CutFrame, Processed
  <2>. QED  BY <2>1, <2>2
<1>4. PointsInOrder'
  <2>. SUFFICES ASSUME NEW k \in Lidars, NEW i \in 1 .. Len(points_clouds'[k])
                PROVE  points_clouds'[k][i].number = framed'[k] + i
    BY DEF PointsInOrder
  <2>1. CASE k \in lidars
    <3>1. points_clouds'[k] = << >>
      BY <2>1 DEF CutFrame
    <3>2. Len(points_clouds'[k]) = 0
      BY <1>2, <3>1, Zenon
    <3>. QED  BY <3>2
  <2>2. CASE k \notin lidars
    BY <2>2 DEF CutFrame, HandlerInv, PointsInOrder
  <2>. QED  BY <2>1, <2>2
<1>5. PendingInOrder'
  BY DEF HandlerInv, PendingInOrder
<1>6. \A i \in 1 .. Len(Pending) : Pending[i].lidar \in Lidars
  <2>1. \A i \in 1 .. Len(Pending) : Pending[i] \in Packets
    BY PendingType, ElementOfSeq DEF HandlerInv
  <2>. QED  BY <2>1 DEF Packets
<1>7. PendingInRange' /\ NoneMissing' /\ FramedWasReceived'
  <2>1. PendingInRange'
    BY <1>3, <1>6 DEF HandlerInv, PendingInRange, Processed
  <2>2. NoneMissing'
    BY <1>3 DEF HandlerInv, NoneMissing, Processed
  <2>3. FramedWasReceived'
    BY <1>3 DEF HandlerInv, FramedWasReceived, Processed
  <2>. QED  BY <2>1, <2>2, <2>3
<1>. QED  BY <1>4, <1>5, <1>7 DEF Ordered

LEMMA OrderStep ==
  ASSUME HandlerInv, TypeOK', [Next]_vars
  PROVE  Ordered'
<1>0. Ordered
  BY DEF HandlerInv, Ordered
<1>. USE DEF net_vars, recv_vars, proc_vars, timer_vars, frame_vars
<1>1. CASE Tick \/ RequestExit
  BY <1>0, <1>1, SameOrder DEF Tick, RequestExit, Pending
<1>2. ASSUME NEW l \in Lidars, PacketLost(l) \/ ChangeSync(l) \/ ImuPacket(l)
      PROVE  Ordered'
  BY <1>0, <1>2, SameOrder DEF PacketLost, ChangeSync, ImuPacket, Pending
<1>3. ASSUME NEW l \in Lidars, PointPacket(l) \/ UnknownPacket(l)
      PROVE  Ordered'
  BY <1>3, PointPacketOrder, UnknownPacketOrder
<1>4. CASE Enqueue
  <2>1. Pending' = Pending
    BY <1>4, EnqueueMoves DEF HandlerInv
  <2>. QED  BY <1>0, <1>4, <2>1, SameOrder DEF Enqueue
<1>5. CASE TakePacket
  <2>1. Pending' = Pending
    BY <1>5, TakeMoves DEF HandlerInv
  <2>. QED  BY <1>0, <1>5, <2>1, SameOrder DEF TakePacket
<1>6. CASE CheckQuit \/ WaitTimesOut \/ PublishPointCloud
  <2>1. proc_pc # "process" /\ proc_pc' # "process"
    BY <1>6 DEF CheckQuit, WaitTimesOut, PublishPointCloud
  <2>2. UNCHANGED <<recv_vars, raw_packet_queue, points_clouds, framed, received>>
    BY <1>6 DEF CheckQuit, WaitTimesOut, PublishPointCloud
  <2>. QED  BY <1>0, <2>1, <2>2, SameOrder DEF Pending
<1>7. CASE PointCloudProcess
  BY <1>7, ProcessOrder
<1>8. CASE CheckTimer
  <2>1. proc_pc = "timer" /\ UNCHANGED <<recv_vars, raw_packet_queue, received>>
    BY <1>8 DEF CheckTimer
  <2>2. ASSUME NoFrame PROVE Ordered'
    BY <1>0, <2>1, <2>2, SameOrder DEF NoFrame, Pending
  <2>3. ASSUME NEW lidars \in SUBSET Lidars, CutFrame(lidars) PROVE Ordered'
    <3>1. proc_pc' = "publish"
      BY <2>3 DEF CutFrame
    <3>2. Pending' = Pending
      BY <2>1, <3>1 DEF Pending
    <3>. QED  BY <2>1, <2>3, <3>2, CutOrder
  <2>4. {raw_data.lidar} \in SUBSET Lidars
    BY <1>8 DEF CheckTimer, HandlerInv, TypeOK, Packets
  <2>5. \/ NoFrame
        \/ CutFrame({raw_data.lidar})
        \/ CutFrame(Lidars)
    BY <1>8 DEF CheckTimer, CheckTimerSync, CheckTimerNoSync
  <2>. QED  BY <2>2, <2>3, <2>4, <2>5
<1>9. CASE UNCHANGED vars
  BY <1>0, <1>9, SameOrder DEF vars, Pending
<1>. QED
  BY <1>1, <1>2, <1>3, <1>4, <1>5, <1>6, <1>7, <1>8, <1>9 DEF Next, RawDataProcess

-----------------------------------------------------------------------------
(* The frame is empty until the next one is cut.                           *)
LEMMA EmptyStep ==
  ASSUME HandlerInv, [Next]_vars
  PROVE  FrameIsEmpty'
<1>. USE DEF HandlerInv, FrameIsEmpty, net_vars, recv_vars, proc_vars, timer_vars,
             frame_vars
<1>1. CASE Tick \/ RequestExit \/ Enqueue
  BY <1>1 DEF Tick, RequestExit, Enqueue
<1>2. ASSUME NEW l \in Lidars,
             PacketLost(l) \/ ChangeSync(l) \/ ImuPacket(l) \/ PointPacket(l)
               \/ UnknownPacket(l)
      PROVE  FrameIsEmpty'
  BY <1>2 DEF PacketLost, ChangeSync, ImuPacket, PointPacket, UnknownPacket
<1>3. CASE CheckQuit \/ TakePacket \/ WaitTimesOut \/ PointCloudProcess
  BY <1>3 DEF CheckQuit, TakePacket, WaitTimesOut, PointCloudProcess
<1>4. CASE CheckTimer
  BY <1>4 DEF CheckTimer, CheckTimerSync, CheckTimerNoSync, NoFrame, CutFrame
<1>5. CASE PublishPointCloud
  BY <1>5 DEF PublishPointCloud, NoPoints
<1>6. CASE UNCHANGED vars
  BY <1>6 DEF vars
<1>. QED  BY <1>1, <1>2, <1>3, <1>4, <1>5, <1>6 DEF Next, RawDataProcess

(* The host's clock: a frame is cut only when an interval has passed since *)
(* the time that stands for the last one.                                  *)
LEMMA TimerStep ==
  ASSUME HandlerInv, [Next]_vars
  PROVE  TimerOnTime'
<1>0. /\ now \in Nat /\ last_pub_time \in Nat /\ timer_frames \in Nat
      /\ Interval \in Nat /\ HostTicks \in Nat
      /\ last_pub_time <= now
      /\ timer_frames * Interval <= last_pub_time
  BY HandlerAssumption DEF HandlerInv, TypeOK, TimerOnTime
<1>. USE DEF net_vars, recv_vars, proc_vars, timer_vars, frame_vars
<1>1. CASE Tick
  BY <1>0, <1>1 DEF Tick, TimerOnTime
<1>2. ASSUME UNCHANGED <<now, timer_vars>> PROVE TimerOnTime'
  BY <1>0, <1>2 DEF TimerOnTime
<1>3. ASSUME NEW l \in Lidars,
             PacketLost(l) \/ ChangeSync(l) \/ ImuPacket(l) \/ PointPacket(l)
               \/ UnknownPacket(l)
      PROVE  TimerOnTime'
  BY <1>2, <1>3 DEF PacketLost, ChangeSync, ImuPacket, PointPacket, UnknownPacket
<1>4. CASE \/ Enqueue \/ RequestExit
           \/ CheckQuit \/ TakePacket \/ WaitTimesOut \/ PointCloudProcess
           \/ PublishPointCloud
  BY <1>2, <1>4 DEF Enqueue, RequestExit, CheckQuit, TakePacket, WaitTimesOut,
                    PointCloudProcess, PublishPointCloud
<1>5. CASE CheckTimer
  <2>1. now' = now
    BY <1>5 DEF CheckTimer
  <2>2. CASE UNCHANGED timer_vars
    BY <1>2, <2>1, <2>2
  <2>3. CASE FirstTimer
    <3>1. last_pub_time' = now /\ timer_frames' = timer_frames
      BY <2>3 DEF FirstTimer
    <3>2. timer_frames * Interval \in Nat
      BY <1>0
    <3>. QED  BY <1>0, <2>1, <3>1, <3>2 DEF TimerOnTime
  <2>4. CASE TimerFrame /\ now - last_pub_time >= Interval
    <3>1. /\ last_pub_time' = last_pub_time + Interval
          /\ timer_frames' = timer_frames + 1
      BY <2>4 DEF TimerFrame
    <3>2. /\ timer_frames * Interval \in Nat
          /\ (timer_frames + 1) * Interval = timer_frames * Interval + Interval
      BY <1>0
    <3>. QED  BY <1>0, <2>1, <2>4, <3>1, <3>2 DEF TimerOnTime
  <2>. QED  BY <1>5, <2>2, <2>3, <2>4 DEF CheckTimer, CheckTimerSync, CheckTimerNoSync
<1>6. CASE UNCHANGED vars
  BY <1>2, <1>6 DEF vars
<1>. QED  BY <1>1, <1>3, <1>4, <1>5, <1>6 DEF Next, RawDataProcess

-----------------------------------------------------------------------------
LEMMA InvStep == HandlerInv /\ [Next]_vars => HandlerInv'
<1>. SUFFICES ASSUME HandlerInv, [Next]_vars PROVE HandlerInv'
  OBVIOUS
<1>1. TypeOK'
  BY TypeStep
<1>2. Ordered' /\ FrameIsEmpty' /\ TimerOnTime'
  BY <1>1, OrderStep, EmptyStep, TimerStep
<1>. QED  BY <1>1, <1>2 DEF HandlerInv, Ordered

(* The packets that wait carry the numbers after those of their lidar's    *)
(* points, in order and without a gap, whatever the interval and the       *)
(* lidars, and the handler's state is well typed.                          *)
THEOREM HandlerInvariant == Spec => []HandlerInv
BY InvInit, InvStep, PTL DEF Spec

(* The type invariant follows.                                             *)
THEOREM HandlerTypeCorrect == Spec => []TypeOK
<1>1. HandlerInv => TypeOK
  BY DEF HandlerInv
<1>. QED  BY <1>1, HandlerInvariant, PTL

(* Frames cut by the host's clock never come more often than the interval  *)
(* allows, however late the processing thread looks at the clock.          *)
THEOREM RateIsBounded == Spec => []RateBounded
<1>1. HandlerInv => RateBounded
  <2>. SUFFICES ASSUME HandlerInv PROVE RateBounded
    OBVIOUS
  <2>1. /\ timer_frames * Interval \in Nat /\ last_pub_time \in Nat /\ now \in Nat
        /\ timer_frames * Interval <= last_pub_time
        /\ last_pub_time <= now
    BY HandlerAssumption DEF HandlerInv, TypeOK, TimerOnTime
  <2>. QED  BY <2>1 DEF RateBounded
<1>. QED  BY <1>1, HandlerInvariant, PTL
-----------------------------------------------------------------------------
(* The refinement: a packet of points that arrives is accepted, a frame    *)
(* that is cut takes the packets after the last framed ones, and           *)
(* publishing hands it over.                                               *)

Numbers == [l \in Lidars |-> [i \in 1 .. Len(frame[l]) |-> frame[l][i].number]]

LEMMA NoNumbers ==
  ASSUME frame = NoPoints
  PROVE  Numbers = Frames!Nothing
<1>1. Len(<< >>) = 0
  BY EmptySeq
<1>2. ASSUME NEW l \in Lidars
      PROVE  [i \in 1 .. Len(frame[l]) |-> frame[l][i].number] = << >>
  <2>1. frame[l] = << >>
    BY DEF NoPoints
  <2>2. Len(frame[l]) = 0
    BY <1>1, <2>1, Zenon
  <2>3. 1 .. Len(frame[l]) = {}
    BY <2>2
  <2>. QED  BY <2>3
<1>. QED  BY <1>2 DEF Numbers, Frames!Nothing

LEMMA FramesInit == Init => Frames!Init
<1>. SUFFICES ASSUME Init PROVE Frames!Init
  OBVIOUS
<1>1. Numbers = Frames!Nothing
  BY NoNumbers DEF Init
<1>. QED  BY <1>1 DEF Init, Frames!Init, Numbers

(* A frame that is cut.                                                    *)
LEMMA CutImplements ==
  ASSUME HandlerInv, HandlerInv', proc_pc # "publish",
         NEW lidars \in SUBSET Lidars, CutFrame(lidars), received' = received
  PROVE  Frames!Cut
<1>1. Numbers = Frames!Nothing
  BY NoNumbers DEF HandlerInv, FrameIsEmpty
<1>2. ASSUME NEW l \in Lidars
      PROVE  /\ framed[l] \in Nat /\ framed'[l] \in Nat
             /\ Len(points_clouds[l]) \in Nat
             /\ received[l] \in Nat
             /\ framed[l] + Len(points_clouds[l]) <= received[l]
  <2>1. /\ framed[l] \in Nat /\ framed'[l] \in Nat /\ received[l] \in Nat
        /\ points_clouds[l] \in Seq(Packets)
    BY DEF HandlerInv, TypeOK
  <2>2. framed[l] + Len(points_clouds[l]) <= received[l]
    BY DEF HandlerInv, FramedWasReceived, Processed
  <2>. QED  BY <2>1, <2>2, LenProperties
<1>3. framed' \in [Lidars -> Nat]
  BY DEF HandlerInv, TypeOK
<1>4. Len(<< >>) = 0
  BY EmptySeq
<1>5. ASSUME NEW l \in Lidars
      PROVE  /\ framed'[l] \in framed[l] .. received[l]
             /\ [i \in 1 .. Len(frame'[l]) |-> frame'[l][i].number]
                  = [i \in 1 .. framed'[l] - framed[l] |-> framed[l] + i]
  <2>1. CASE l \in lidars
    <3>1. frame'[l] = points_clouds[l] /\ framed'[l] = framed[l] + Len(points_clouds[l])
      BY <2>1 DEF CutFrame
    <3>2. framed'[l] - framed[l] = Len(frame'[l])
      BY <1>2, <3>1
    <3>3. \A i \in 1 .. Len(frame'[l]) : frame'[l][i].number = framed[l] + i
      BY <3>1 DEF HandlerInv, PointsInOrder
    <3>. QED  BY <1>2, <3>1, <3>2, <3>3
  <2>2. CASE l \notin lidars
    <3>1. frame'[l] = << >> /\ framed'[l] = framed[l]
      BY <2>2 DEF CutFrame
    <3>2. Len(frame'[l]) = 0
      BY <1>4, <3>1, Zenon
    <3>3. 1 .. Len(frame'[l]) = {} /\ 1 .. framed'[l] - framed[l] = {}
      BY <1>2, <3>1, <3>2
    <3>. QED  BY <1>2, <3>1, <3>3
  <2>. QED  BY <2>1, <2>2
<1>6. Numbers' = [l \in Lidars |-> [i \in 1 .. framed'[l] - framed[l] |-> framed[l] + i]]
  BY <1>5 DEF Numbers
<1>. QED  BY <1>1, <1>3, <1>5, <1>6 DEF Frames!Cut, Numbers

LEMMA FramesStep ==
  ASSUME HandlerInv, HandlerInv', [Next]_vars
  PROVE  [Frames!Next]_(Frames!frames_vars)
<1>. USE DEF net_vars, recv_vars, proc_vars, timer_vars, frame_vars
<1>1. ASSUME UNCHANGED <<received, framed, frame>>
      PROVE  [Frames!Next]_(Frames!frames_vars)
  BY <1>1 DEF Frames!frames_vars
<1>2. ASSUME NEW l \in Lidars, PointPacket(l)
      PROVE  [Frames!Next]_(Frames!frames_vars)
  <2>1. Frames!Accept(l)
    BY <1>2 DEF PointPacket, Frames!Accept
  <2>. QED  BY <2>1 DEF Frames!Next
<1>3. ASSUME NEW l \in Lidars,
             PacketLost(l) \/ ChangeSync(l) \/ ImuPacket(l) \/ UnknownPacket(l)
      PROVE  [Frames!Next]_(Frames!frames_vars)
  BY <1>1, <1>3 DEF PacketLost, ChangeSync, ImuPacket, UnknownPacket
<1>4. CASE Tick \/ Enqueue \/ RequestExit
  BY <1>1, <1>4 DEF Tick, Enqueue, RequestExit
<1>5. CASE CheckQuit \/ TakePacket \/ WaitTimesOut \/ PointCloudProcess
  BY <1>1, <1>5 DEF CheckQuit, TakePacket, WaitTimesOut, PointCloudProcess
<1>6. CASE CheckTimer
  <2>1. proc_pc # "publish" /\ received' = received
    BY <1>6 DEF CheckTimer
  <2>2. {raw_data.lidar} \in SUBSET Lidars
    BY <1>6 DEF CheckTimer, HandlerInv, TypeOK, Packets
  <2>3. ASSUME NEW lidars \in SUBSET Lidars, CutFrame(lidars)
        PROVE  [Frames!Next]_(Frames!frames_vars)
    <3>1. Frames!Cut
      BY <2>1, <2>3, CutImplements
    <3>. QED  BY <3>1 DEF Frames!Next
  <2>4. CASE NoFrame
    BY <1>1, <2>1, <2>4 DEF NoFrame
  <2>5. \/ NoFrame
        \/ CutFrame({raw_data.lidar})
        \/ CutFrame(Lidars)
    BY <1>6 DEF CheckTimer, CheckTimerSync, CheckTimerNoSync
  <2>. QED  BY <2>2, <2>3, <2>4, <2>5
<1>7. CASE PublishPointCloud
  <2>1. Numbers' = Frames!Nothing
    <3>1. Len(<< >>) = 0
      BY EmptySeq
    <3>2. ASSUME NEW l \in Lidars
          PROVE  [i \in 1 .. Len(frame'[l]) |-> frame'[l][i].number] = << >>
      <4>1. frame'[l] = << >>
        BY <1>7 DEF PublishPointCloud, NoPoints
      <4>2. Len(frame'[l]) = 0
        BY <3>1, <4>1, Zenon
      <4>3. 1 .. Len(frame'[l]) = {}
        BY <4>2
      <4>. QED  BY <4>3
    <3>. QED  BY <3>2 DEF Numbers, Frames!Nothing
  <2>2. Frames!HandOver
    BY <1>7, <2>1 DEF PublishPointCloud, Frames!HandOver, Numbers
  <2>. QED  BY <2>2 DEF Frames!Next
<1>8. CASE UNCHANGED vars
  BY <1>1, <1>8 DEF vars
<1>. QED
  BY <1>2, <1>3, <1>4, <1>5, <1>6, <1>7, <1>8 DEF Next, RawDataProcess

(* Every packet of points leaves in one frame, in the order of arrival.    *)
THEOREM HandlerImplementsFrames == Spec => ImplementsFrames
<1>1. HandlerInv /\ HandlerInv' /\ [Next]_vars => [Frames!Next]_(Frames!frames_vars)
  BY FramesStep
<1>. QED
  BY <1>1, FramesInit, HandlerInvariant, PTL DEF Spec, ImplementsFrames, Frames!Spec
-----------------------------------------------------------------------------
(* Frames on time.                                                         *)

(* The interval is whole milliseconds, as a frequency that divides 1000    *)
(* makes it, and a packet covers at most one.                              *)
WholeMilliseconds ==
  /\ Interval % TicksPerMs = 0
  /\ PacketTicks <= TicksPerMs

Boundaries == {j * Interval : j \in Nat \ {0}}

(* When a lidar's n-th packet starts, for one that sends without a gap.    *)
Start(l, n) == clock[l] - (received[l] + 1 - n) * PacketTicks

StartOfCloud(l) == Start(l, framed[l] + 1)
EndOfCloud(l) == Start(l, Processed(l) + 1)

Timed(l, p) ==
  /\ p.begin = Start(l, p.number)
  /\ p.end = Start(l, p.number + 1) - 1

(* Every packet that waits or is collected has its lidar's own time, and   *)
(* the flag stays set.                                                     *)
LidarTimed(l) ==
  /\ \A k \in Lidars : synced[k]
  /\ Len(Pending) > 0 \/ proc_pc = "timer" => is_timestamp_sync
  /\ \A i \in 1 .. Len(Pending) :
       Pending[i].lidar = l /\ Pending[i].known => Timed(l, Pending[i])
  /\ \A i \in 1 .. Len(points_clouds[l]) : Timed(l, points_clouds[l][i])

(* A packet may have passed a boundary only until its timer is checked.    *)
Late(l) == IF proc_pc = "timer" /\ raw_data.lidar = l THEN PacketTicks ELSE 0

(* No boundary is passed once the points are long enough for a frame.      *)
NoBoundarySkipped(l) ==
  \A t \in Boundaries :
    t >= StartOfCloud(l) + IntervalTolerance => EndOfCloud(l) <= t + Late(l)

(* Every frame but the first starts within a millisecond of a boundary.    *)
FollowsBoundary(l) ==
  framed[l] > 0 =>
    \E t \in Boundaries : t + 1 <= StartOfCloud(l) /\ StartOfCloud(l) <= t + TicksPerMs

FrameOnTime(l) ==
  frame[l] # << >> =>
    /\ SpanOf(frame[l]) >= IntervalTolerance
    /\ SpanOf(frame[l]) < 2 * Interval
    /\ frame[l][1].number > 1 => SpanOf(frame[l]) <= Interval + TicksPerMs

OnTime(l) ==
  /\ LidarTimed(l)
  /\ NoBoundarySkipped(l)
  /\ FollowsBoundary(l)
  /\ FrameOnTime(l)

TimeInv == \A l \in Lidars : regular[l] => OnTime(l)

(* The packets of a lidar follow each other.                               *)
LEMMA StartOfNext ==
  ASSUME TypeOK, NEW l \in Lidars
  PROVE  /\ \A n \in Int : Start(l, n) \in Int
         /\ \A n \in Int : Start(l, n + 1) = Start(l, n) + PacketTicks
         /\ \A m, n \in Int : m < n => Start(l, m) + PacketTicks <= Start(l, n)
         /\ Start(l, received[l] + 1) = clock[l]
<1>1. clock[l] \in Int /\ received[l] \in Int /\ PacketTicks \in Nat \ {0}
  BY HandlerAssumption DEF TypeOK
<1>2. ASSUME NEW m \in Int, NEW n \in Int, m < n
      PROVE  Start(l, m) + PacketTicks <= Start(l, n)
  <2>. DEFINE k == n - m
  <2>1. k \in Nat \ {0}
    BY <1>2
  <2>2. k * PacketTicks >= PacketTicks
    BY <1>1, <2>1
  <2>3. (received[l] + 1 - m) * PacketTicks
          = (received[l] + 1 - n) * PacketTicks + k * PacketTicks
    BY <1>1
  <2>. HIDE DEF k
  <2>. QED  BY <1>1, <2>1, <2>2, <2>3 DEF Start
<1>3. ASSUME NEW n \in Int
      PROVE  Start(l, n) \in Int /\ Start(l, n + 1) = Start(l, n) + PacketTicks
  BY <1>1 DEF Start
<1>4. Start(l, received[l] + 1) = clock[l]
  BY <1>1 DEF Start
<1>. QED  BY <1>2, <1>3, <1>4

(* A boundary is a multiple of the interval.                               *)
LEMMA BoundaryType ==
  ASSUME NEW t \in Boundaries
  PROVE  /\ t \in Nat
         /\ t + Interval \in Boundaries
<1>1. PICK j \in Nat \ {0} : t = j * Interval
  BY DEF Boundaries
<1>2. Interval \in Nat \ {0}
  BY HandlerAssumption
<1>3. j + 1 \in Nat \ {0} /\ t + Interval = (j + 1) * Interval
  BY <1>1, <1>2
<1>4. t \in Nat
  BY <1>1, <1>2
<1>. QED  BY <1>3, <1>4 DEF Boundaries

LEMMA DivisionIs ==
  ASSUME NEW q \in Nat, NEW b \in Nat \ {0}, NEW r \in 0 .. b - 1
  PROVE  (q * b + r) \div b = q /\ (q * b + r) % b = r
OBVIOUS

(* An interval after a lidar's points are long enough there is a boundary. *)
LEMMA BoundaryAhead ==
  ASSUME NEW b \in Nat
  PROVE  \E t \in Boundaries :
           /\ b + IntervalTolerance <= t
           /\ t <= b + 2 * Interval - TicksPerMs
<1>. DEFINE a == b + 2 * Interval - TicksPerMs
            j == a \div Interval
            t == j * Interval
<1>1. /\ Interval \in Nat \ {0} /\ TicksPerMs \in Nat \ {0} /\ Interval >= TicksPerMs
      /\ a \in Nat /\ a >= Interval
  BY HandlerAssumption
<1>2. j \in Int /\ a % Interval \in 0 .. Interval - 1 /\ a = t + (a % Interval)
  BY <1>1
<1>3. t \in Int
  BY <1>1, <1>2
<1>4. t <= a /\ a - t < Interval /\ t > 0
  <2>. HIDE DEF t, a
  <2>. QED  BY <1>1, <1>2, <1>3
<1>5. j \in Nat \ {0}
  <2>1. CASE j <= 0
    <3>1. t <= 0
      BY <1>1, <1>2, <2>1
    <3>. QED  BY <1>3, <1>4, <3>1
  <2>. QED  BY <1>2, <2>1
<1>6. t \in Boundaries
  BY <1>5 DEF Boundaries
<1>7. b + IntervalTolerance <= t /\ t <= b + 2 * Interval - TicksPerMs
  <2>1. a = b + 2 * Interval - TicksPerMs
    OBVIOUS
  <2>. HIDE DEF t, a
  <2>. QED  BY <1>1, <1>3, <1>4, <2>1 DEF IntervalTolerance
<1>. HIDE DEF t
<1>. QED  BY <1>6, <1>7

(* The test of a frame's end: its time is within a millisecond after a     *)
(* boundary.                                                               *)
LEMMA OnBoundaryIs ==
  ASSUME WholeMilliseconds, NEW l \in Lidars, GetRecentTimeStamp(l) \in Nat
  PROVE  OnBoundary(l) <=>
           \E t \in Boundaries :
             t <= GetRecentTimeStamp(l) /\ GetRecentTimeStamp(l) < t + TicksPerMs
<1>. DEFINE e == GetRecentTimeStamp(l)
            q == e \div TicksPerMs
            K == Interval \div TicksPerMs
<1>1. /\ TicksPerMs \in Nat \ {0} /\ Interval \in Nat \ {0} /\ e \in Nat
  BY HandlerAssumption
<1>2. K \in Nat \ {0} /\ Interval = K * TicksPerMs
  <2>1. K \in Int /\ Interval = K * TicksPerMs + (Interval % TicksPerMs)
    BY <1>1
  <2>2. Interval = K * TicksPerMs
    BY <1>1, <2>1 DEF WholeMilliseconds
  <2>3. K > 0
    <3>1. CASE K <= 0
      <4>1. K * TicksPerMs <= 0
        BY <1>1, <2>1, <3>1
      <4>. QED  BY <1>1, <2>2, <4>1
    <3>. QED  BY <2>1, <3>1
  <2>. QED  BY <2>1, <2>2, <2>3
<1>3. q \in Nat /\ e % TicksPerMs \in 0 .. TicksPerMs - 1 /\ e = q * TicksPerMs + (e % TicksPerMs)
  <2>. HIDE DEF e
  <2>1. q \in Int /\ e % TicksPerMs \in 0 .. TicksPerMs - 1
        /\ e = q * TicksPerMs + (e % TicksPerMs)
    BY <1>1
  <2>2. q >= 0
    BY <1>1
  <2>. QED  BY <2>1, <2>2
<1>4. OnBoundary(l) <=> q % K = 0 /\ q # 0
  BY DEF OnBoundary, IntervalMs
<1>. HIDE DEF K, q, e
<1>5. ASSUME q % K = 0, q # 0
      PROVE  \E t \in Boundaries : t <= e /\ e < t + TicksPerMs
  <2>. DEFINE j == q \div K
              t == q * TicksPerMs
  <2>1. j \in Int /\ q = j * K
    <3>1. j \in Int /\ q = j * K + (q % K)
      BY <1>2, <1>3
    <3>2. j * K \in Int
      BY <1>2, <3>1
    <3>. QED  BY <1>5, <3>1, <3>2
  <2>2. j \in Nat \ {0}
    <3>1. CASE j <= 0
      <4>1. j * K <= 0
        BY <1>2, <2>1, <3>1
      <4>. QED  BY <1>3, <1>5, <2>1, <4>1
    <3>. QED  BY <2>1, <3>1
  <2>3. t = j * Interval
    <3>. HIDE DEF j
    <3>1. (j * K) * TicksPerMs = j * (K * TicksPerMs)
      BY <1>1, <1>2, <2>2
    <3>. QED  BY <1>2, <2>1, <3>1
  <2>4. t \in Boundaries
    BY <2>2, <2>3 DEF Boundaries
  <2>5. t \in Nat
    BY <1>1, <1>3
  <2>6. t <= e /\ e < t + TicksPerMs
    <3>1. e = t + (e % TicksPerMs)
      BY <1>3
    <3>. HIDE DEF t
    <3>. QED  BY <1>1, <1>3, <2>5, <3>1
  <2>. HIDE DEF t
  <2>. QED  BY <2>4, <2>6
<1>6. ASSUME NEW t \in Boundaries, t <= e, e < t + TicksPerMs
      PROVE  q % K = 0 /\ q # 0
  <2>1. PICK j \in Nat \ {0} : t = j * Interval
    BY DEF Boundaries
  <2>. DEFINE p == j * K
              r == e - t
  <2>2. p \in Nat \ {0}
    BY <1>2, <2>1
  <2>3. t = p * TicksPerMs
    <3>1. j * (K * TicksPerMs) = (j * K) * TicksPerMs
      BY <1>1, <1>2, <2>1
    <3>. QED  BY <1>2, <2>1, <3>1
  <2>4. t \in Nat /\ r \in 0 .. TicksPerMs - 1 /\ e = t + r
    BY <1>1, <1>6, BoundaryType
  <2>5. q = p
    <3>1. e = p * TicksPerMs + r
      BY <2>3, <2>4
    <3>. HIDE DEF p, r
    <3>2. (p * TicksPerMs + r) \div TicksPerMs = p
      BY <1>1, <2>2, <2>4, DivisionIs
    <3>. QED  BY <3>1, <3>2 DEF q
  <2>6. p % K = 0
    <3>1. p = j * K + 0 /\ 0 \in 0 .. K - 1
      BY <1>2, <2>1
    <3>2. (j * K + 0) % K = 0
      BY <1>2, <2>1, <3>1, DivisionIs
    <3>. QED  BY <3>1, <3>2
  <2>. QED  BY <2>2, <2>5, <2>6
<1>. QED  BY <1>4, <1>5, <1>6 DEF e

(* The times of the points collected, and of those on their way.           *)
LEMMA CloudTimes ==
  ASSUME HandlerInv, NEW l \in Lidars, LidarTimed(l), points_clouds[l] # << >>
  PROVE  /\ Len(points_clouds[l]) \in Nat \ {0}
         /\ points_clouds[l][1].number = framed[l] + 1
         /\ GetLidarBaseTime(l) = StartOfCloud(l)
         /\ points_clouds[l][1].begin = StartOfCloud(l)
         /\ GetRecentTimeStamp(l) = EndOfCloud(l) - 1
         /\ points_clouds[l][Len(points_clouds[l])].end = EndOfCloud(l) - 1
         /\ StartOfCloud(l) \in Nat
         /\ EndOfCloud(l) - 1 \in Nat
         /\ StartOfCloud(l) < EndOfCloud(l)
<1>. DEFINE n == Len(points_clouds[l])
<1>1. points_clouds[l] \in Seq(Packets) /\ framed[l] \in Nat /\ TypeOK
  BY DEF HandlerInv, TypeOK
<1>2. n \in Nat \ {0}
  BY <1>1, EmptySeq, LenProperties
<1>3. points_clouds[l][1] \in Packets /\ points_clouds[l][n] \in Packets
  BY <1>1, <1>2, ElementOfSeq
<1>4. /\ points_clouds[l][1].number = framed[l] + 1
      /\ points_clouds[l][n].number = framed[l] + n
  BY <1>2 DEF HandlerInv, PointsInOrder
<1>5. Timed(l, points_clouds[l][1]) /\ Timed(l, points_clouds[l][n])
  BY <1>2 DEF LidarTimed
<1>6. /\ points_clouds[l][1].begin = StartOfCloud(l)
      /\ points_clouds[l][n].end = EndOfCloud(l) - 1
  BY <1>4, <1>5 DEF Timed, StartOfCloud, EndOfCloud, Processed
<1>7. StartOfCloud(l) \in Nat /\ EndOfCloud(l) - 1 \in Nat
  BY <1>3, <1>6 DEF Packets
<1>8. StartOfCloud(l) < EndOfCloud(l)
  <2>1. /\ framed[l] + 1 \in Int /\ Processed(l) + 1 \in Int
        /\ framed[l] + 1 < Processed(l) + 1
    BY <1>1, <1>2 DEF Processed
  <2>2. /\ StartOfCloud(l) + PacketTicks <= EndOfCloud(l)
        /\ StartOfCloud(l) \in Int /\ EndOfCloud(l) \in Int
    BY <1>1, <2>1, StartOfNext DEF StartOfCloud, EndOfCloud
  <2>. QED  BY <2>2, HandlerAssumption
<1>9. GetLidarBaseTime(l) = StartOfCloud(l) /\ GetRecentTimeStamp(l) = EndOfCloud(l) - 1
  BY <1>6 DEF GetLidarBaseTime, GetRecentTimeStamp
<1>. QED  BY <1>2, <1>4, <1>6, <1>7, <1>8, <1>9

LEMMA CloudEnds ==
  ASSUME HandlerInv, NEW l \in Lidars
  PROVE  /\ StartOfCloud(l) \in Int
         /\ EndOfCloud(l) \in Int
         /\ points_clouds[l] = << >> => EndOfCloud(l) = StartOfCloud(l)
<1>1. /\ points_clouds[l] \in Seq(Packets) /\ framed[l] \in Nat /\ TypeOK
      /\ Len(points_clouds[l]) \in Nat
  BY LenProperties DEF HandlerInv, TypeOK
<1>2. framed[l] + 1 \in Int /\ Processed(l) + 1 \in Int
  BY <1>1 DEF Processed
<1>3. points_clouds[l] = << >> => Processed(l) = framed[l]
  <2>1. Len(<< >>) = 0
    BY EmptySeq
  <2>2. points_clouds[l] = << >> => Len(points_clouds[l]) = 0
    BY <2>1, Zenon
  <2>. QED  BY <1>1, <2>2 DEF Processed
<1>. QED  BY <1>1, <1>2, <1>3, StartOfNext DEF StartOfCloud, EndOfCloud

(* The points collected never span two intervals.                          *)
LEMMA SpanBounded ==
  ASSUME HandlerInv, WholeMilliseconds, NEW l \in Lidars, LidarTimed(l),
         NoBoundarySkipped(l), points_clouds[l] # << >>
  PROVE  SpanOf(points_clouds[l]) < 2 * Interval
<1>1. /\ StartOfCloud(l) \in Nat /\ EndOfCloud(l) - 1 \in Nat /\ EndOfCloud(l) \in Int
      /\ SpanOf(points_clouds[l]) = (EndOfCloud(l) - 1) - StartOfCloud(l)
  BY CloudTimes, CloudEnds DEF SpanOf
<1>2. PICK t \in Boundaries : /\ StartOfCloud(l) + IntervalTolerance <= t
                              /\ t <= StartOfCloud(l) + 2 * Interval - TicksPerMs
  BY <1>1, BoundaryAhead
<1>3. t \in Nat /\ Interval \in Nat /\ TicksPerMs \in Nat /\ PacketTicks \in Nat
  BY BoundaryType, HandlerAssumption
<1>4. IntervalTolerance \in Int
  BY <1>3 DEF IntervalTolerance
<1>5. EndOfCloud(l) <= t + Late(l)
  BY <1>1, <1>2, <1>3, <1>4 DEF NoBoundarySkipped
<1>6. Late(l) \in 0 .. TicksPerMs
  BY <1>3 DEF Late, WholeMilliseconds
<1>. QED  BY <1>1, <1>2, <1>3, <1>5, <1>6

(* Every frame but a lidar's first spans at most a millisecond more than   *)
(* the interval.                                                           *)
LEMMA LaterSpanBounded ==
  ASSUME HandlerInv, WholeMilliseconds, NEW l \in Lidars, OnTime(l),
         points_clouds[l] # << >>, points_clouds[l][1].number > 1
  PROVE  SpanOf(points_clouds[l]) <= Interval + TicksPerMs
<1>0. LidarTimed(l)
  BY DEF OnTime
<1>1. /\ StartOfCloud(l) \in Nat /\ EndOfCloud(l) \in Int
      /\ SpanOf(points_clouds[l]) = (EndOfCloud(l) - 1) - StartOfCloud(l)
      /\ points_clouds[l][1].number = framed[l] + 1
  BY <1>0, CloudTimes, CloudEnds DEF SpanOf
<1>2. framed[l] > 0
  BY <1>1 DEF HandlerInv, TypeOK
<1>3. PICK t \in Boundaries : t + 1 <= StartOfCloud(l) /\ StartOfCloud(l) <= t + TicksPerMs
  BY <1>2 DEF OnTime, FollowsBoundary
<1>4. t \in Nat /\ Interval \in Nat /\ TicksPerMs \in Nat /\ PacketTicks \in Nat
  BY BoundaryType, HandlerAssumption
<1>5. t + Interval \in Boundaries /\ t + Interval >= StartOfCloud(l) + IntervalTolerance
  BY <1>1, <1>3, <1>4, BoundaryType DEF IntervalTolerance
<1>6. EndOfCloud(l) <= t + Interval + Late(l)
  BY <1>5 DEF OnTime, NoBoundarySkipped
<1>7. Late(l) \in 0 .. TicksPerMs
  BY <1>4 DEF Late, WholeMilliseconds
<1>. QED  BY <1>1, <1>3, <1>4, <1>6, <1>7

(* A step that leaves a lidar's times and packets alone.                   *)
LEMMA SameTime ==
  ASSUME NEW l \in Lidars, OnTime(l), UNCHANGED <<synced, received>>,
         clock'[l] = clock[l],
         Pending' = Pending, UNCHANGED <<points_clouds, framed, frame>>,
         is_timestamp_sync' = is_timestamp_sync \/ is_timestamp_sync',
         proc_pc' = "timer" <=> proc_pc = "timer",
         proc_pc = "timer" => raw_data' = raw_data
  PROVE  OnTime(l)'
<1>1. \A n : Start(l, n)' = Start(l, n)
  BY DEF Start
<1>2. StartOfCloud(l)' = StartOfCloud(l) /\ EndOfCloud(l)' = EndOfCloud(l)
  BY DEF Start, StartOfCloud, EndOfCloud, Processed
<1>3. Late(l)' = Late(l)
  BY DEF Late
<1>4. \A p : Timed(l, p)' <=> Timed(l, p)
  BY DEF Start, Timed
<1>5. LidarTimed(l)'
  BY <1>4 DEF OnTime, LidarTimed
<1>6. NoBoundarySkipped(l)' /\ FollowsBoundary(l)'
  BY <1>2, <1>3 DEF OnTime, NoBoundarySkipped, FollowsBoundary
<1>7. FrameOnTime(l)'
  BY DEF OnTime, FrameOnTime
<1>. QED  BY <1>5, <1>6, <1>7 DEF OnTime

(* A packet that the SDK's thread reads from lidar k.                      *)
LEMMA ReadOnTime ==
  ASSUME HandlerInv, TypeOK', NEW k \in Lidars, PointPacket(k) \/ UnknownPacket(k),
         NEW l \in Lidars, OnTime(l), regular'[l]
  PROVE  OnTime(l)'
<1>. DEFINE n == Len(Pending)
<1>1. /\ n \in Nat
      /\ Len(Pending') = n + 1
      /\ Pending'[n + 1] = packet'
      /\ \A i \in 1 .. n : Pending'[i] = Pending[i]
  BY PendingType, ReadIsLast, LenProperties
     DEF HandlerInv, PointPacket, UnknownPacket, NoteTimeType
<1>2. /\ UNCHANGED <<synced, proc_vars, points_clouds, frame_vars>>
      /\ is_timestamp_sync' = synced[k]
      /\ clock' = [clock EXCEPT ![k] = @ + PacketTicks]
  BY DEF PointPacket, UnknownPacket, NoteTimeType, PacketIsSent
<1>3. CASE k = l
  <2>1. PointPacket(l)
    <3>1. regular \in [Lidars -> BOOLEAN]
      BY DEF HandlerInv, TypeOK
    <3>. QED  BY <1>3, <3>1 DEF UnknownPacket
  <2>2. /\ clock'[l] = clock[l] + PacketTicks
        /\ received'[l] = received[l] + 1
        /\ clock[l] \in Nat /\ received[l] \in Nat /\ PacketTicks \in Nat
    BY <1>2, <1>3, <2>1, HandlerAssumption DEF PointPacket, HandlerInv, TypeOK
  <2>3. ASSUME NEW m \in Int PROVE Start(l, m)' = Start(l, m)
    <3>1. (received[l] + 1 + 1 - m) * PacketTicks
            = (received[l] + 1 - m) * PacketTicks + PacketTicks
      BY <2>2
    <3>2. (received[l] + 1 - m) * PacketTicks \in Int
      BY <2>2
    <3>. QED  BY <2>2, <3>1, <3>2 DEF Start
  <2>4. framed[l] + 1 \in Int /\ Processed(l) + 1 \in Int
    <3>1. framed[l] \in Nat /\ points_clouds[l] \in Seq(Packets)
      BY DEF HandlerInv, TypeOK
    <3>. QED  BY <3>1, LenProperties DEF Processed
  <2>5. StartOfCloud(l)' = StartOfCloud(l) /\ EndOfCloud(l)' = EndOfCloud(l)
    BY <1>2, <2>3, <2>4 DEF StartOfCloud, EndOfCloud, Processed, frame_vars
  <2>6. Late(l)' = Late(l)
    BY <1>2 DEF Late, proc_vars
  <2>7. NoBoundarySkipped(l)' /\ FollowsBoundary(l)' /\ FrameOnTime(l)'
    BY <1>2, <2>5, <2>6
       DEF OnTime, NoBoundarySkipped, FollowsBoundary, FrameOnTime, frame_vars
  <2>8. \A p \in Packets : Timed(l, p)' <=> Timed(l, p)
    BY <2>3 DEF Timed, Packets
  <2>9. /\ packet'.number = received[l] + 1
        /\ packet'.begin = clock[l]
        /\ packet'.end = clock[l] + PacketTicks - 1
    BY <2>1 DEF PointPacket, NewPacket, OnTime, LidarTimed
  <2>10. \A p : p = packet' => Timed(l, p)
    <3>1. received[l] + 1 \in Int
      BY <2>2
    <3>2. /\ Start(l, received[l] + 1) = clock[l]
          /\ Start(l, received[l] + 1 + 1) = clock[l] + PacketTicks
      BY <3>1, StartOfNext DEF HandlerInv
    <3>3. ASSUME NEW p, p = packet' PROVE Timed(l, p)
      <4>1. /\ p.number = received[l] + 1
            /\ p.begin = clock[l]
            /\ p.end = clock[l] + PacketTicks - 1
        BY <2>9, <3>3
      <4>2. /\ p.begin = Start(l, p.number)
            /\ p.end = Start(l, p.number + 1) - 1
        BY <2>2, <3>1, <3>2, <4>1
      <4>. QED  BY <4>2 DEF Timed
    <3>. QED  BY <3>3
  <2>11. /\ \A i \in 1 .. n : Pending[i] \in Packets
         /\ packet' \in Packets
         /\ \A i \in 1 .. Len(points_clouds[l]) : points_clouds[l][i] \in Packets
    <3>1. Pending \in Seq(Packets) /\ points_clouds[l] \in Seq(Packets)
      BY PendingType DEF HandlerInv, TypeOK
    <3>2. packet' \in Packets
      BY <2>1 DEF TypeOK, PointPacket
    <3>. QED  BY <3>1, <3>2, ElementOfSeq
  <2>12. LidarTimed(l)'
    <3>1. \A i \in 1 .. n + 1 : \A p :
            p = Pending'[i] /\ p.lidar = l /\ p.known => Timed(l, p)'
      <4>. SUFFICES ASSUME NEW i \in 1 .. n + 1, NEW p, p = Pending'[i], p.lidar = l, p.known
                    PROVE  Timed(l, p)'
        OBVIOUS
      <4>1. CASE i = n + 1
        <5>1. Pending'[i] = packet'
          BY <1>1, <4>1
        <5>. QED  BY <2>8, <2>10, <2>11, <5>1
      <4>2. CASE i \in 1 .. n
        <5>1. Pending'[i] = Pending[i] /\ Pending[i] \in Packets
          BY <1>1, <2>11, <4>2
        <5>2. Timed(l, Pending[i])
          BY <4>2, <5>1 DEF OnTime, LidarTimed
        <5>. QED  BY <2>8, <5>1, <5>2
      <4>. QED  BY <1>1, <4>1, <4>2
    <3>2. \A i \in 1 .. Len(points_clouds'[l]) : \A p : p = points_clouds'[l][i] => Timed(l, p)'
      BY <1>2, <2>8, <2>11 DEF OnTime, LidarTimed
    <3>3. (\A j \in Lidars : synced'[j]) /\ is_timestamp_sync'
      BY <1>2 DEF OnTime, LidarTimed
    <3>. QED  BY <1>1, <3>1, <3>2, <3>3 DEF LidarTimed
  <2>. QED  BY <2>7, <2>12 DEF OnTime
<1>4. CASE k # l
  <2>1. clock'[l] = clock[l] /\ received'[l] = received[l]
    BY <1>2, <1>4 DEF PointPacket, UnknownPacket, HandlerInv, TypeOK
  <2>2. \A m : Start(l, m)' = Start(l, m)
    BY <2>1 DEF Start
  <2>3. StartOfCloud(l)' = StartOfCloud(l) /\ EndOfCloud(l)' = EndOfCloud(l)
    BY <1>2, <2>1 DEF Start, StartOfCloud, EndOfCloud, Processed, frame_vars
  <2>4. Late(l)' = Late(l)
    BY <1>2 DEF Late, proc_vars
  <2>5. NoBoundarySkipped(l)' /\ FollowsBoundary(l)' /\ FrameOnTime(l)'
    BY <1>2, <2>3, <2>4
       DEF OnTime, NoBoundarySkipped, FollowsBoundary, FrameOnTime, frame_vars
  <2>6. \A p : Timed(l, p)' <=> Timed(l, p)
    BY <2>1 DEF Start, Timed
  <2>7. packet'.lidar = k
    BY DEF PointPacket, UnknownPacket, NewPacket
  <2>8. LidarTimed(l)'
    <3>1. \A i \in 1 .. n + 1 : \A p :
            p = Pending'[i] /\ p.lidar = l /\ p.known => Timed(l, p)'
      <4>. SUFFICES ASSUME NEW i \in 1 .. n + 1, NEW p, p = Pending'[i], p.lidar = l, p.known
                    PROVE  Timed(l, p)'
        OBVIOUS
      <4>1. i # n + 1
        BY <1>1, <1>4, <2>7
      <4>2. i \in 1 .. n /\ Pending'[i] = Pending[i]
        BY <1>1, <4>1
      <4>3. Timed(l, Pending[i])
        BY <4>2 DEF OnTime, LidarTimed
      <4>. QED  BY <2>6, <4>2, <4>3
    <3>2. \A i \in 1 .. Len(points_clouds'[l]) : \A p : p = points_clouds'[l][i] => Timed(l, p)'
      BY <1>2, <2>6 DEF OnTime, LidarTimed
    <3>3. (\A j \in Lidars : synced'[j]) /\ is_timestamp_sync'
      BY <1>2 DEF OnTime, LidarTimed
    <3>. QED  BY <1>1, <3>1, <3>2, <3>3 DEF LidarTimed
  <2>. QED  BY <2>5, <2>8 DEF OnTime
<1>. QED  BY <1>3, <1>4

(* A packet's points join those of its lidar, whose timer is checked next. *)
LEMMA ProcessOnTime ==
  ASSUME HandlerInv, HandlerInv', PointCloudProcess, NEW l \in Lidars, OnTime(l)
  PROVE  OnTime(l)'
<1>. DEFINE m == Len(Pending')
<1>1. /\ m \in Nat
      /\ Len(Pending) = m + 1
      /\ Pending[1] = raw_data
      /\ \A i \in 1 .. m : Pending'[i] = Pending[i + 1]
  BY ProcessedIsFirst DEF HandlerInv
<1>2. /\ UNCHANGED <<synced, clock, received, framed, frame, is_timestamp_sync, raw_data>>
      /\ proc_pc = "process" /\ proc_pc' = "timer"
      /\ points_clouds' = [points_clouds EXCEPT ![raw_data.lidar] =
                             IF raw_data.known THEN Append(@, raw_data) ELSE @]
  BY DEF PointCloudProcess, ProcessPoints, net_vars, frame_vars
<1>3. \A n : Start(l, n)' = Start(l, n)
  BY <1>2 DEF Start
<1>4. \A p : Timed(l, p)' <=> Timed(l, p)
  BY <1>2 DEF Start, Timed
<1>5. StartOfCloud(l)' = StartOfCloud(l)
  BY <1>2 DEF Start, StartOfCloud
<1>6. FollowsBoundary(l)' /\ FrameOnTime(l)'
  BY <1>2, <1>5 DEF OnTime, FollowsBoundary, FrameOnTime
<1>7. \A i \in 1 .. m : \A p :
        p = Pending'[i] /\ p.lidar = l /\ p.known => Timed(l, p)'
  <2>1. \A i \in 1 .. m : i + 1 \in 1 .. Len(Pending)
    BY <1>1
  <2>. QED  BY <1>1, <1>4, <2>1 DEF OnTime, LidarTimed
<1>8. (\A k \in Lidars : synced'[k]) /\ is_timestamp_sync'
  BY <1>1, <1>2 DEF OnTime, LidarTimed
<1>9. /\ points_clouds \in [Lidars -> Seq(Packets)] /\ raw_data \in Packets
      /\ framed[l] \in Nat /\ TypeOK
      /\ PacketTicks \in Nat
  BY <1>2, HandlerAssumption DEF HandlerInv, TypeOK
<1>10. Late(l) = 0
  BY <1>2 DEF Late
<1>11. CASE raw_data.lidar = l /\ raw_data.known
  <2>. DEFINE n == Len(points_clouds[l])
  <2>1. points_clouds'[l] = Append(points_clouds[l], raw_data)
    BY <1>2, <1>9, <1>11
  <2>2. /\ n \in Nat
        /\ Len(points_clouds'[l]) = n + 1
        /\ \A i \in 1 .. n : points_clouds'[l][i] = points_clouds[l][i]
        /\ points_clouds'[l][n + 1] = raw_data
    BY <1>9, <2>1, AppendProperties, LenProperties
  <2>3. Timed(l, raw_data)
    <3>1. 1 \in 1 .. Len(Pending)
      BY <1>1
    <3>. QED  BY <1>1, <1>11, <3>1 DEF OnTime, LidarTimed
  <2>4. \A i \in 1 .. n + 1 : \A p : p = points_clouds'[l][i] => Timed(l, p)'
    <3>. SUFFICES ASSUME NEW i \in 1 .. n + 1, NEW p, p = points_clouds'[l][i]
                  PROVE  Timed(l, p)'
      OBVIOUS
    <3>1. CASE i = n + 1
      BY <1>4, <2>2, <2>3, <3>1
    <3>2. CASE i \in 1 .. n
      BY <1>4, <2>2, <3>2 DEF OnTime, LidarTimed
    <3>. QED  BY <2>2, <3>1, <3>2
  <2>5. EndOfCloud(l)' = EndOfCloud(l) + PacketTicks
    <3>1. Processed(l)' = Processed(l) + 1 /\ Processed(l) \in Nat
      <4>1. Processed(l)' = framed[l] + (n + 1) /\ Processed(l) = framed[l] + n
        BY <1>2, <2>2 DEF Processed
      <4>2. n \in Nat /\ framed[l] \in Nat
        BY <1>9, <2>2
      <4>. HIDE DEF n
      <4>. QED  BY <4>1, <4>2
    <3>2. Start(l, Processed(l) + 1 + 1) = Start(l, Processed(l) + 1) + PacketTicks
      BY <1>9, <3>1, StartOfNext
    <3>3. EndOfCloud(l)' = Start(l, Processed(l) + 1 + 1)
      BY <1>2, <3>1 DEF EndOfCloud, Start
    <3>. QED  BY <3>2, <3>3 DEF EndOfCloud
  <2>6. NoBoundarySkipped(l)'
    <3>1. Late(l)' = PacketTicks
      BY <1>2, <1>11 DEF Late
    <3>2. EndOfCloud(l) \in Int /\ StartOfCloud(l) \in Int
      BY CloudEnds
    <3>3. ASSUME NEW t \in Boundaries, t >= StartOfCloud(l) + IntervalTolerance
          PROVE  EndOfCloud(l) + PacketTicks <= t + PacketTicks
      <4>1. t \in Nat
        BY BoundaryType
      <4>2. EndOfCloud(l) <= t + 0
        BY <1>10, <3>3 DEF OnTime, NoBoundarySkipped
      <4>. QED  BY <1>9, <3>2, <4>1, <4>2
    <3>. QED  BY <1>5, <2>5, <3>1, <3>3 DEF NoBoundarySkipped
  <2>7. LidarTimed(l)'
    BY <1>7, <1>8, <2>2, <2>4 DEF LidarTimed
  <2>. QED  BY <1>6, <2>6, <2>7 DEF OnTime
<1>12. CASE ~(raw_data.lidar = l /\ raw_data.known)
  <2>1. points_clouds'[l] = points_clouds[l]
    BY <1>2, <1>9, <1>12
  <2>2. LidarTimed(l)'
    BY <1>4, <1>7, <1>8, <2>1 DEF OnTime, LidarTimed
  <2>3. EndOfCloud(l)' = EndOfCloud(l)
    BY <1>2, <2>1 DEF EndOfCloud, Processed, Start
  <2>4. NoBoundarySkipped(l)'
    <3>1. Late(l)' \in Nat
      BY <1>2, <1>9 DEF Late
    <3>2. EndOfCloud(l) \in Int
      BY CloudEnds
    <3>3. ASSUME NEW t \in Boundaries, t >= StartOfCloud(l) + IntervalTolerance
          PROVE  EndOfCloud(l) <= t + Late(l)'
      <4>1. t \in Nat
        BY BoundaryType
      <4>2. EndOfCloud(l) <= t + 0
        BY <1>10, <3>3 DEF OnTime, NoBoundarySkipped
      <4>. QED  BY <3>1, <3>2, <4>1, <4>2
    <3>. QED  BY <1>5, <2>3, <3>3 DEF NoBoundarySkipped
  <2>. QED  BY <1>6, <2>2, <2>4 DEF OnTime
<1>. QED  BY <1>11, <1>12

(* The timer of the lidar's packet is checked and no frame is due.         *)
LEMMA NotDueOnTime ==
  ASSUME HandlerInv, WholeMilliseconds, NEW l \in Lidars, OnTime(l),
         ~SyncFrameIsDue(l), NEW t \in Boundaries,
         t >= StartOfCloud(l) + IntervalTolerance
  PROVE  EndOfCloud(l) <= t
<1>. SUFFICES ASSUME EndOfCloud(l) > t PROVE FALSE
  <2>1. EndOfCloud(l) \in Int /\ t \in Nat
    BY CloudEnds, BoundaryType
  <2>. QED  BY <2>1
<1>1. /\ EndOfCloud(l) \in Int /\ StartOfCloud(l) \in Int /\ t \in Nat
      /\ TicksPerMs \in Nat \ {0} /\ PacketTicks \in Nat /\ IntervalTolerance \in Nat
  BY CloudEnds, BoundaryType, HandlerAssumption DEF IntervalTolerance
<1>2. EndOfCloud(l) <= t + TicksPerMs
  <2>1. EndOfCloud(l) <= t + Late(l)
    BY DEF OnTime, NoBoundarySkipped
  <2>2. Late(l) \in Nat /\ Late(l) <= TicksPerMs
    BY <1>1 DEF Late, WholeMilliseconds
  <2>. QED  BY <1>1, <2>1, <2>2
<1>3. CASE points_clouds[l] = << >>
  <2>1. EndOfCloud(l) = StartOfCloud(l)
    BY <1>3, CloudEnds
  <2>. QED  BY <1>1, <2>1
<1>4. CASE points_clouds[l] # << >>
  <2>1. /\ GetRecentTimeStamp(l) = EndOfCloud(l) - 1
        /\ GetLidarBaseTime(l) = StartOfCloud(l)
        /\ EndOfCloud(l) - 1 \in Nat
    BY <1>4, CloudTimes DEF OnTime
  <2>2. OnBoundary(l)
    <3>1. t <= GetRecentTimeStamp(l) /\ GetRecentTimeStamp(l) < t + TicksPerMs
      BY <1>1, <1>2, <2>1
    <3>. QED  BY <2>1, <3>1, OnBoundaryIs
  <2>3. LongEnough(l)
    BY <1>1, <2>1 DEF LongEnough
  <2>. QED  BY <1>4, <2>2, <2>3 DEF SyncFrameIsDue
<1>. QED  BY <1>3, <1>4

(* The frame of the lidar's packet is cut.                                 *)
LEMMA DueOnTime ==
  ASSUME HandlerInv, WholeMilliseconds, NEW l \in Lidars, OnTime(l), SyncFrameIsDue(l)
  PROVE  /\ \E t \in Boundaries : t + 1 <= EndOfCloud(l) /\ EndOfCloud(l) <= t + TicksPerMs
         /\ SpanOf(points_clouds[l]) >= IntervalTolerance
         /\ SpanOf(points_clouds[l]) < 2 * Interval
         /\ points_clouds[l][1].number > 1
              => SpanOf(points_clouds[l]) <= Interval + TicksPerMs
<1>1. OnBoundary(l) /\ LongEnough(l) /\ points_clouds[l] # << >>
  BY DEF SyncFrameIsDue
<1>2. LidarTimed(l) /\ NoBoundarySkipped(l)
  BY DEF OnTime
<1>3. /\ GetRecentTimeStamp(l) = EndOfCloud(l) - 1
      /\ GetLidarBaseTime(l) = StartOfCloud(l)
      /\ EndOfCloud(l) - 1 \in Nat /\ EndOfCloud(l) \in Int /\ StartOfCloud(l) \in Nat
      /\ StartOfCloud(l) < EndOfCloud(l)
      /\ SpanOf(points_clouds[l]) = (EndOfCloud(l) - 1) - StartOfCloud(l)
  BY <1>1, <1>2, CloudTimes, CloudEnds DEF SpanOf
<1>4. PICK t \in Boundaries :
        t <= GetRecentTimeStamp(l) /\ GetRecentTimeStamp(l) < t + TicksPerMs
  BY <1>1, <1>3, OnBoundaryIs
<1>5. t \in Nat /\ TicksPerMs \in Nat
  BY BoundaryType, HandlerAssumption
<1>6. t + 1 <= EndOfCloud(l) /\ EndOfCloud(l) <= t + TicksPerMs
  BY <1>3, <1>4, <1>5
<1>7. SpanOf(points_clouds[l]) >= IntervalTolerance
  BY <1>1, <1>3 DEF LongEnough
<1>. QED  BY <1>1, <1>2, <1>6, <1>7, SpanBounded, LaterSpanBounded

(* Checking the timer, of this lidar's packet or of another's.             *)
LEMMA CheckOnTime ==
  ASSUME HandlerInv, WholeMilliseconds, CheckTimer, NEW l \in Lidars, OnTime(l)
  PROVE  OnTime(l)'
<1>1. /\ proc_pc = "timer" /\ is_timestamp_sync /\ CheckTimerSync
      /\ UNCHANGED <<synced, clock, received, is_timestamp_sync, recv_vars, raw_packet_queue>>
      /\ raw_data.lidar \in Lidars
  <2>1. proc_pc = "timer" /\ is_timestamp_sync
    BY DEF CheckTimer, OnTime, LidarTimed
  <2>. QED  BY <2>1 DEF CheckTimer, HandlerInv, TypeOK, Packets, net_vars
<1>2. \/ SyncFrameIsDue(raw_data.lidar) /\ CutFrame({raw_data.lidar})
      \/ ~SyncFrameIsDue(raw_data.lidar) /\ NoFrame
  BY <1>1 DEF CheckTimerSync
<1>3. proc_pc' # "timer" /\ proc_pc' # "process"
  BY <1>2 DEF CutFrame, NoFrame
<1>4. Pending' = Pending
  BY <1>1, <1>3 DEF Pending, recv_vars
<1>5. Late(l)' = 0
  BY <1>3 DEF Late
<1>6. /\ \A n : Start(l, n)' = Start(l, n)
      /\ \A p : Timed(l, p)' <=> Timed(l, p)
  BY <1>1 DEF Start, Timed
<1>7. ASSUME points_clouds'[l] = points_clouds[l] \/ points_clouds'[l] = << >>
      PROVE  LidarTimed(l)'
  <2>1. Len(<< >>) = 0
    BY EmptySeq
  <2>2. points_clouds'[l] = << >> => Len(points_clouds'[l]) = 0
    BY <2>1, Zenon
  <2>3. \A i \in 1 .. Len(points_clouds'[l]) : \A p : p = points_clouds'[l][i] => Timed(l, p)'
    BY <1>6, <1>7, <2>2 DEF OnTime, LidarTimed
  <2>4. \A i \in 1 .. Len(Pending) :
          Pending[i].lidar = l /\ Pending[i].known => Timed(l, Pending[i])
    BY DEF OnTime, LidarTimed
  <2>5. \A i \in 1 .. Len(Pending') : \A p :
          p = Pending'[i] /\ p.lidar = l /\ p.known => Timed(l, p)'
    BY <1>4, <1>6, <2>4
  <2>6. (\A j \in Lidars : synced'[j]) /\ is_timestamp_sync'
    BY <1>1 DEF OnTime, LidarTimed
  <2>. QED  BY <2>3, <2>5, <2>6 DEF LidarTimed
<1>8. ASSUME points_clouds'[l] = points_clouds[l], framed'[l] = framed[l]
      PROVE  StartOfCloud(l)' = StartOfCloud(l) /\ EndOfCloud(l)' = EndOfCloud(l)
  BY <1>1, <1>8 DEF Start, StartOfCloud, EndOfCloud, Processed
<1>9. CASE CutFrame({raw_data.lidar}) /\ raw_data.lidar = l /\ SyncFrameIsDue(l)
  <2>1. /\ frame'[l] = points_clouds[l]
        /\ points_clouds'[l] = << >>
        /\ framed'[l] = Processed(l)
    BY <1>9 DEF CutFrame, Processed
  <2>2. LidarTimed(l)'
    BY <1>7, <2>1
  <2>3. StartOfCloud(l)' = EndOfCloud(l) /\ EndOfCloud(l)' = EndOfCloud(l)
    <3>1. Len(points_clouds'[l]) = 0
      <4>1. Len(<< >>) = 0
        BY EmptySeq
      <4>. QED  BY <2>1, <4>1, Zenon
    <3>2. framed[l] \in Nat /\ Len(points_clouds[l]) \in Nat
      <4>1. points_clouds[l] \in Seq(Packets) /\ framed[l] \in Nat
        BY DEF HandlerInv, TypeOK
      <4>. QED  BY <4>1, LenProperties
    <3>3. Processed(l) \in Nat
      BY <3>2 DEF Processed
    <3>4. Processed(l)' = Processed(l)
      <4>1. Processed(l)' = framed'[l] + Len(points_clouds'[l])
        BY DEF Processed
      <4>. QED  BY <2>1, <3>1, <3>3, <4>1
    <3>. QED  BY <1>1, <2>1, <3>4 DEF StartOfCloud, EndOfCloud, Start
  <2>4. NoBoundarySkipped(l)'
    <3>1. EndOfCloud(l) \in Int
      BY CloudEnds
    <3>2. ASSUME NEW t \in Boundaries, t >= EndOfCloud(l) + IntervalTolerance
          PROVE  EndOfCloud(l) <= t + 0
      <4>1. t \in Nat /\ IntervalTolerance \in Nat
        BY BoundaryType, HandlerAssumption DEF IntervalTolerance
      <4>. QED  BY <3>1, <3>2, <4>1
    <3>. QED  BY <1>5, <2>3, <3>2 DEF NoBoundarySkipped
  <2>5. FollowsBoundary(l)' /\ FrameOnTime(l)'
    BY <1>9, <2>1, <2>3, DueOnTime DEF FollowsBoundary, FrameOnTime
  <2>. QED  BY <2>2, <2>4, <2>5 DEF OnTime
<1>10. CASE CutFrame({raw_data.lidar}) /\ raw_data.lidar # l
  <2>1. /\ frame'[l] = << >>
        /\ points_clouds'[l] = points_clouds[l]
        /\ framed'[l] = framed[l]
    BY <1>10 DEF CutFrame
  <2>2. Late(l) = 0
    BY <1>10 DEF Late
  <2>3. LidarTimed(l)' /\ StartOfCloud(l)' = StartOfCloud(l) /\ EndOfCloud(l)' = EndOfCloud(l)
    BY <1>7, <1>8, <2>1
  <2>4. NoBoundarySkipped(l)' /\ FollowsBoundary(l)' /\ FrameOnTime(l)'
    BY <1>5, <2>1, <2>2, <2>3 DEF OnTime, NoBoundarySkipped, FollowsBoundary, FrameOnTime
  <2>. QED  BY <2>3, <2>4 DEF OnTime
<1>11. CASE NoFrame /\ ~SyncFrameIsDue(raw_data.lidar)
  <2>1. UNCHANGED <<points_clouds, frame, framed>>
    BY <1>11 DEF NoFrame, frame_vars
  <2>2. LidarTimed(l)' /\ StartOfCloud(l)' = StartOfCloud(l) /\ EndOfCloud(l)' = EndOfCloud(l)
    BY <1>7, <1>8, <2>1
  <2>3. FollowsBoundary(l)' /\ FrameOnTime(l)'
    BY <2>1, <2>2 DEF OnTime, FollowsBoundary, FrameOnTime
  <2>4. NoBoundarySkipped(l)'
    <3>. SUFFICES ASSUME NEW t \in Boundaries, t >= StartOfCloud(l) + IntervalTolerance
                  PROVE  EndOfCloud(l) <= t + 0
      BY <1>5, <2>2 DEF NoBoundarySkipped
    <3>1. EndOfCloud(l) \in Int /\ t \in Nat
      BY CloudEnds, BoundaryType
    <3>2. CASE raw_data.lidar = l
      <4>1. EndOfCloud(l) <= t
        BY <1>11, <3>2, NotDueOnTime
      <4>. QED  BY <3>1, <4>1
    <3>3. CASE raw_data.lidar # l
      BY <3>3 DEF OnTime, NoBoundarySkipped, Late
    <3>. QED  BY <3>2, <3>3
  <2>. QED  BY <2>2, <2>3, <2>4 DEF OnTime
<1>. QED  BY <1>2, <1>9, <1>10, <1>11

LEMMA TimeInit == Init => TimeInv
<1>. SUFFICES ASSUME Init, NEW l \in Lidars, regular[l] PROVE OnTime(l)
  BY DEF TimeInv
<1>1. HandlerInv
  BY InvInit
<1>2. \A k \in Lidars : synced[k]
  BY DEF Init
<1>3. Pending = << >> /\ points_clouds[l] = << >> /\ framed[l] = 0
      /\ frame[l] = << >> /\ proc_pc # "timer"
  <2>1. << >> \o << >> = << >>
    BY EmptySeq, ConcatEmptySeq
  <2>2. /\ (IF proc_pc = "process" THEN <<raw_data>> ELSE << >>) = << >>
        /\ (IF recv_pc = "enqueue" THEN <<packet>> ELSE << >>) = << >>
        /\ raw_packet_queue = << >>
    BY DEF Init
  <2>3. Pending = << >>
    BY <2>1, <2>2 DEF Pending
  <2>. QED  BY <2>3 DEF Init, NoPoints
<1>4. Len(Pending) = 0 /\ Len(points_clouds[l]) = 0
  <2>1. Len(<< >>) = 0
    BY EmptySeq
  <2>. QED  BY <1>3, <2>1, Zenon
<1>5. LidarTimed(l)
  BY <1>2, <1>3, <1>4 DEF LidarTimed
<1>6. FollowsBoundary(l) /\ FrameOnTime(l)
  BY <1>3 DEF FollowsBoundary, FrameOnTime
<1>7. NoBoundarySkipped(l)
  <2>1. EndOfCloud(l) = StartOfCloud(l) /\ StartOfCloud(l) \in Int
    BY <1>1, <1>3, CloudEnds
  <2>2. Late(l) = 0
    BY <1>3 DEF Late
  <2>3. ASSUME NEW t \in Boundaries, t >= StartOfCloud(l) + IntervalTolerance
        PROVE  StartOfCloud(l) <= t + 0
    <3>1. t \in Nat /\ IntervalTolerance \in Nat
      BY BoundaryType, HandlerAssumption DEF IntervalTolerance
    <3>. QED  BY <2>1, <2>3, <3>1
  <2>. QED  BY <2>1, <2>2, <2>3 DEF NoBoundarySkipped
<1>. QED  BY <1>5, <1>6, <1>7 DEF OnTime

LEMMA TimeStep ==
  ASSUME HandlerInv, HandlerInv', TimeInv, WholeMilliseconds, [Next]_vars
  PROVE  TimeInv'
<1>. SUFFICES ASSUME NEW l \in Lidars, regular'[l] PROVE OnTime(l)'
  BY DEF TimeInv
<1>. USE DEF net_vars, recv_vars, proc_vars, timer_vars, frame_vars
<1>0. OnTime(l)
  <2>1. regular[l]
    <3>1. \/ regular' = regular
          \/ \E k \in Lidars : PacketLost(k) \/ ChangeSync(k) \/ UnknownPacket(k)
      BY DEF Next, RawDataProcess, vars, Tick, ImuPacket, PointPacket, Enqueue,
             CheckQuit, TakePacket, WaitTimesOut, PointCloudProcess, CheckTimer,
             PublishPointCloud, RequestExit
    <3>2. regular \in [Lidars -> BOOLEAN]
      BY DEF HandlerInv, TypeOK
    <3>3. CASE regular' = regular
      BY <3>3
    <3>4. ASSUME NEW k \in Lidars, PacketLost(k) \/ ChangeSync(k) \/ UnknownPacket(k)
          PROVE  regular[l]
      BY <3>2, <3>4 DEF PacketLost, ChangeSync, UnknownPacket
    <3>. QED  BY <3>1, <3>3, <3>4
  <2>. QED  BY <2>1 DEF TimeInv
<1>1. CASE Tick \/ RequestExit
  BY <1>0, <1>1, SameTime DEF Tick, RequestExit, Pending
<1>2. ASSUME NEW k \in Lidars, PacketLost(k)
      PROVE  OnTime(l)'
  <2>1. k # l
    BY <1>2 DEF PacketLost, HandlerInv, TypeOK
  <2>2. clock'[l] = clock[l]
    BY <1>2, <2>1 DEF PacketLost, PacketIsSent, HandlerInv, TypeOK
  <2>3. /\ UNCHANGED <<synced, received, points_clouds, framed, frame, proc_pc, raw_data,
                       is_timestamp_sync>>
        /\ Pending' = Pending
    BY <1>2 DEF PacketLost, Pending
  <2>. QED  BY <1>0, <2>2, <2>3, SameTime
<1>3. ASSUME NEW k \in Lidars, ChangeSync(k)
      PROVE  OnTime(l)'
  BY <1>3 DEF ChangeSync
<1>4. ASSUME NEW k \in Lidars, ImuPacket(k)
      PROVE  OnTime(l)'
  <2>1. is_timestamp_sync'
    BY <1>0, <1>4 DEF ImuPacket, NoteTimeType, OnTime, LidarTimed
  <2>2. /\ UNCHANGED <<synced, clock, received, points_clouds, framed, frame, proc_pc, raw_data>>
        /\ Pending' = Pending
    BY <1>4 DEF ImuPacket, Pending
  <2>. QED  BY <1>0, <2>1, <2>2, SameTime
<1>5. ASSUME NEW k \in Lidars, PointPacket(k) \/ UnknownPacket(k)
      PROVE  OnTime(l)'
  BY <1>0, <1>5, ReadOnTime DEF HandlerInv
<1>6. CASE Enqueue
  <2>1. Pending' = Pending
    BY <1>6, EnqueueMoves DEF HandlerInv
  <2>. QED  BY <1>0, <1>6, <2>1, SameTime DEF Enqueue
<1>7. CASE TakePacket
  <2>1. Pending' = Pending
    BY <1>7, TakeMoves DEF HandlerInv
  <2>. QED  BY <1>0, <1>7, <2>1, SameTime DEF TakePacket
<1>8. CASE CheckQuit \/ WaitTimesOut
  <2>1. /\ proc_pc \notin {"process", "timer"} /\ proc_pc' \notin {"process", "timer"}
        /\ UNCHANGED <<synced, clock, received, points_clouds, framed, frame,
                       is_timestamp_sync, raw_packet_queue, recv_vars>>
    BY <1>8 DEF CheckQuit, WaitTimesOut
  <2>2. Pending' = Pending
    BY <2>1 DEF Pending
  <2>. QED  BY <1>0, <2>1, <2>2, SameTime
<1>9. CASE PointCloudProcess
  BY <1>0, <1>9, ProcessOnTime
<1>10. CASE CheckTimer
  BY <1>0, <1>10, CheckOnTime
<1>11. CASE PublishPointCloud
  <2>1. /\ UNCHANGED <<synced, clock, received, points_clouds, framed, is_timestamp_sync,
                       raw_packet_queue, recv_vars>>
        /\ proc_pc = "publish" /\ proc_pc' = "top"
        /\ frame'[l] = << >>
    BY <1>11 DEF PublishPointCloud, NoPoints
  <2>2. Pending' = Pending
    BY <2>1 DEF Pending
  <2>3. /\ StartOfCloud(l)' = StartOfCloud(l) /\ EndOfCloud(l)' = EndOfCloud(l)
        /\ Late(l)' = Late(l)
        /\ \A p : Timed(l, p)' <=> Timed(l, p)
    BY <2>1 DEF Start, StartOfCloud, EndOfCloud, Processed, Late, Timed
  <2>4. LidarTimed(l)'
    BY <1>0, <2>1, <2>2, <2>3 DEF OnTime, LidarTimed
  <2>5. NoBoundarySkipped(l)' /\ FollowsBoundary(l)' /\ FrameOnTime(l)'
    BY <1>0, <2>1, <2>3 DEF OnTime, NoBoundarySkipped, FollowsBoundary, FrameOnTime
  <2>. QED  BY <2>4, <2>5 DEF OnTime
<1>12. CASE UNCHANGED vars
  BY <1>0, <1>12, SameTime DEF vars, Pending
<1>. QED
  BY <1>1, <1>2, <1>3, <1>4, <1>5, <1>6, <1>7, <1>8, <1>9, <1>10, <1>11, <1>12
     DEF Next, RawDataProcess

(* When the interval is whole milliseconds and a packet covers at most     *)
(* one, the frames of a synchronised lidar that misses no points come at   *)
(* every boundary of the interval, whatever the other lidars send.         *)
THEOREM FramesAreOnTime ==
  ASSUME WholeMilliseconds
  PROVE  Spec => []FramesOnTime
<1>1. Init => TimeInv
  BY TimeInit
<1>2. HandlerInv /\ HandlerInv' /\ TimeInv /\ [Next]_vars => TimeInv'
  BY TimeStep
<1>3. HandlerInv /\ TimeInv => FramesOnTime
  BY SpanBounded DEF TimeInv, OnTime, FrameOnTime, FramesOnTime
<1>. QED  BY <1>1, <1>2, <1>3, HandlerInvariant, PTL DEF Spec
=============================================================================

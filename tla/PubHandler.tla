------------------------------ MODULE PubHandler -----------------------------
(***************************************************************************)
(* The driver's packet handler (livox_ros_driver2, comm/pub_handler.cpp):  *)
(* the SDK's thread puts the raw packets of all lidars in one queue, and   *)
(* the processing thread turns each into points of its lidar and publishes *)
(* the points collected as a frame when it is time.                        *)
(*                                                                         *)
(* A lidar that is time-synchronised stamps its packets itself; those of   *)
(* one that is not get the host's time.  Which of the two ways to cut      *)
(* frames is used depends on the flag is_timestamp_sync_, one for all      *)
(* lidars, which every packet of every lidar sets when it arrives, long    *)
(* before it is processed.                                                 *)
(*                                                                         *)
(* Time is counted in ticks.  A packet is its number and the times of its  *)
(* first and last points; coordinates are left out.  The processing        *)
(* thread's wait for packets ends after half a second at the latest.       *)
(***************************************************************************)
EXTENDS Integers, Sequences

CONSTANTS
  Lidars,
  TicksPerMs,    \* kRatioOfMsToNs
  PacketTicks,   \* the time one packet covers
  Interval,      \* publish_interval_, in ticks
  HostTicks,     \* the step of the host's clock
  Starts,        \* when a lidar's first packet may start
  MaxClock,      \* bound: a lidar sends packets that start before it
  MaxTime,       \* bound: the last host time
  MaxFaults,     \* bound: packets lost or unknown, time sources found or lost
  MaxQueue       \* bound: packets waiting to be processed (none in the code)

ASSUME HandlerAssumption ==
  /\ TicksPerMs \in Nat \ {0}
  /\ PacketTicks \in Nat \ {0}
  /\ HostTicks \in Nat
  /\ Interval \in Nat
  /\ Interval >= TicksPerMs
  /\ Starts \subseteq Nat
  /\ MaxTime \in Nat

VARIABLES
  synced,              \* whether a lidar has a time source
  clock,               \* when a lidar's next packet starts, by that time
  faults,
  now,                 \* the host's clock
  is_timestamp_sync,
  recv_pc, packet,     \* the SDK's thread, and the packet it has read
  raw_packet_queue,
  is_quit,
  proc_pc, raw_data,   \* RawDataProcess, and the packet it has taken
  points_clouds,       \* the packets whose points a lidar has collected
  first, last_pub_time,
  frame,               \* frame_: the packets of each lidar in it
  received, framed,    \* history: packets of points received, and framed
  timer_frames,        \* history: frames cut by the host's clock
  regular              \* history: all lidars were synchronised from the start
                       \* and none of this one's points are missing

net_vars == <<synced, clock, faults>>
recv_vars == <<recv_pc, packet>>
proc_vars == <<proc_pc, raw_data>>
timer_vars == <<first, last_pub_time, timer_frames>>
frame_vars == <<frame, framed>>
vars == <<net_vars, now, is_timestamp_sync, recv_vars, raw_packet_queue, is_quit,
          proc_vars, points_clouds, timer_vars, frame_vars, received, regular>>

(* SetPointCloudConfig.                                                    *)
IntervalMs == Interval \div TicksPerMs
IntervalTolerance == Interval - TicksPerMs

Packets ==
  [lidar : Lidars, known : BOOLEAN, number : Nat, begin : Nat, end : Nat]

NoPoints == [l \in Lidars |-> << >>]
NoPacket == << >>

Init ==
  /\ synced \in [Lidars -> BOOLEAN]
  /\ clock \in [Lidars -> Starts]
  /\ faults = 0
  /\ now = 0
  /\ is_timestamp_sync = FALSE
  /\ recv_pc = "idle"
  /\ packet = NoPacket
  /\ raw_packet_queue = << >>
  /\ is_quit = FALSE
  /\ proc_pc = "top"
  /\ raw_data = NoPacket
  /\ points_clouds = NoPoints
  /\ first = TRUE
  /\ last_pub_time = 0
  /\ timer_frames = 0
  /\ frame = NoPoints
  /\ framed = [l \in Lidars |-> 0]
  /\ received = [l \in Lidars |-> 0]
  /\ regular = [l \in Lidars |-> \A k \in Lidars : synced[k]]

-----------------------------------------------------------------------------
(* The lidars, the network and the host's clock (external).                *)

Tick ==
  /\ now < MaxTime
  /\ now' = now + HostTicks
  /\ UNCHANGED <<net_vars, is_timestamp_sync, recv_vars, raw_packet_queue, is_quit,
                 proc_vars, points_clouds, timer_vars, frame_vars, received, regular>>

PacketIsSent(l) ==
  /\ clock[l] < MaxClock[l]
  /\ clock' = [clock EXCEPT ![l] = @ + PacketTicks]

Fault ==
  /\ faults < MaxFaults
  /\ faults' = faults + 1

PacketLost(l) ==
  /\ Fault
  /\ PacketIsSent(l)
  /\ regular' = [regular EXCEPT ![l] = FALSE]
  /\ UNCHANGED <<synced, now, is_timestamp_sync, recv_vars, raw_packet_queue, is_quit,
                 proc_vars, points_clouds, timer_vars, frame_vars, received>>

ChangeSync(l) ==
  /\ Fault
  /\ synced' = [synced EXCEPT ![l] = ~@]
  /\ regular' = [k \in Lidars |-> FALSE]
  /\ UNCHANGED <<clock, now, is_timestamp_sync, recv_vars, raw_packet_queue, is_quit,
                 proc_vars, points_clouds, timer_vars, frame_vars, received>>

-----------------------------------------------------------------------------
(* OnLivoxLidarPointCloudCallback, called by the SDK's thread.             *)

(* The flag is set by every packet, also of IMU data, which is passed on   *)
(* at once.                                                                *)
NoteTimeType(l) ==
  /\ recv_pc = "idle"
  /\ ~is_quit
  /\ is_timestamp_sync' = synced[l]

ImuPacket(l) ==
  /\ NoteTimeType(l)
  /\ UNCHANGED <<net_vars, now, recv_vars, raw_packet_queue, is_quit, proc_vars,
                 points_clouds, timer_vars, frame_vars, received, regular>>

NewPacket(l, known, number) ==
  LET begin == IF synced[l] THEN clock[l] ELSE now
  IN  [lidar |-> l, known |-> known, number |-> number,
       begin |-> begin, end |-> begin + PacketTicks - 1]

PointPacket(l) ==
  /\ NoteTimeType(l)
  /\ Len(raw_packet_queue) < MaxQueue
  /\ PacketIsSent(l)
  /\ packet' = NewPacket(l, TRUE, received[l] + 1)
  /\ received' = [received EXCEPT ![l] = @ + 1]
  /\ recv_pc' = "enqueue"
  /\ UNCHANGED <<synced, faults, now, raw_packet_queue, is_quit, proc_vars,
                 points_clouds, timer_vars, frame_vars, regular>>

(* A packet of a data type that PointCloudProcess does not know.           *)
UnknownPacket(l) ==
  /\ Fault
  /\ NoteTimeType(l)
  /\ Len(raw_packet_queue) < MaxQueue
  /\ PacketIsSent(l)
  /\ packet' = NewPacket(l, FALSE, 0)
  /\ regular' = [regular EXCEPT ![l] = FALSE]
  /\ recv_pc' = "enqueue"
  /\ UNCHANGED <<synced, now, raw_packet_queue, is_quit, proc_vars, points_clouds,
                 timer_vars, frame_vars, received>>

(* Mutant: the packet is put at the front of the queue.                    *)
EnqueueAtFront ==
  /\ recv_pc = "enqueue"
  /\ raw_packet_queue' = <<packet>> \o raw_packet_queue
  /\ packet' = NoPacket
  /\ recv_pc' = "idle"
  /\ UNCHANGED <<net_vars, now, is_timestamp_sync, is_quit, proc_vars,
                 points_clouds, timer_vars, frame_vars, received, regular>>

Enqueue ==
  /\ recv_pc = "enqueue"
  /\ raw_packet_queue' = Append(raw_packet_queue, packet)
  /\ packet' = NoPacket
  /\ recv_pc' = "idle"
  /\ UNCHANGED <<net_vars, now, is_timestamp_sync, is_quit, proc_vars,
                 points_clouds, timer_vars, frame_vars, received, regular>>

-----------------------------------------------------------------------------
(* RawDataProcess.                                                         *)

CheckQuit ==
  /\ proc_pc = "top"
  /\ proc_pc' = IF is_quit THEN "done" ELSE "take"
  /\ UNCHANGED <<net_vars, now, is_timestamp_sync, recv_vars, raw_packet_queue,
                 is_quit, raw_data, points_clouds, timer_vars, frame_vars, received,
                 regular>>

TakePacket ==
  /\ proc_pc = "take"
  /\ raw_packet_queue # << >>
  /\ raw_data' = Head(raw_packet_queue)
  /\ raw_packet_queue' = Tail(raw_packet_queue)
  /\ proc_pc' = "process"
  /\ UNCHANGED <<net_vars, now, is_timestamp_sync, recv_vars, is_quit, points_clouds,
                 timer_vars, frame_vars, received, regular>>

(* Mutant: the wait for a packet has no timeout.                           *)
WaitForPacket ==
  /\ proc_pc = "take"
  /\ raw_packet_queue = << >>
  /\ UNCHANGED vars

(* The wait for a packet ended and there is none.                          *)
WaitTimesOut ==
  /\ proc_pc = "take"
  /\ raw_packet_queue = << >>
  /\ proc_pc' = "top"
  /\ UNCHANGED <<net_vars, now, is_timestamp_sync, recv_vars, raw_packet_queue,
                 is_quit, raw_data, points_clouds, timer_vars, frame_vars, received,
                 regular>>

(* The points of a packet follow those collected, each with the packet's   *)
(* time plus its place in it.  What the three data types and the extrinsic *)
(* parameters make of the coordinates is left out.                         *)
ProcessPoints(points, pkt) == Append(points, pkt)

(* A packet of an unknown data type leaves no points.                      *)
PointCloudProcess ==
  /\ proc_pc = "process"
  /\ points_clouds' = [points_clouds EXCEPT ![raw_data.lidar] =
                         IF raw_data.known THEN ProcessPoints(@, raw_data) ELSE @]
  /\ proc_pc' = "timer"
  /\ UNCHANGED <<net_vars, now, is_timestamp_sync, recv_vars, raw_packet_queue,
                 is_quit, raw_data, timer_vars, frame_vars, received, regular>>

-----------------------------------------------------------------------------
(* CheckTimer.                                                             *)

GetRecentTimeStamp(l) ==
  IF points_clouds[l] = << >> THEN 0
  ELSE points_clouds[l][Len(points_clouds[l])].end

GetLidarBaseTime(l) ==
  IF points_clouds[l] = << >> THEN 0 ELSE points_clouds[l][1].begin

(* The difference is unsigned: when time went back it is past any limit.   *)
LongEnough(l) ==
  \/ GetRecentTimeStamp(l) < GetLidarBaseTime(l)
  \/ GetRecentTimeStamp(l) - GetLidarBaseTime(l) >= IntervalTolerance

OnBoundary(l) ==
  LET recent_time_ms == GetRecentTimeStamp(l) \div TicksPerMs
  IN  recent_time_ms % IntervalMs = 0 /\ recent_time_ms # 0

(* Mutant: a frame may be of any length.                                   *)
SyncFrameIsDueAnyLength(l) == OnBoundary(l) /\ points_clouds[l] # << >>

SyncFrameIsDue(l) == OnBoundary(l) /\ LongEnough(l) /\ points_clouds[l] # << >>

(* The points of the lidars that are published move into the frame.        *)
CutFrame(lidars) ==
  /\ proc_pc' = "publish"
  /\ frame' = [l \in Lidars |-> IF l \in lidars THEN points_clouds[l] ELSE << >>]
  /\ framed' = [l \in Lidars |->
       IF l \in lidars THEN framed[l] + Len(points_clouds[l]) ELSE framed[l]]
  /\ points_clouds' = [l \in Lidars |-> IF l \in lidars THEN << >> ELSE points_clouds[l]]

NoFrame ==
  /\ proc_pc' = "top"
  /\ UNCHANGED <<points_clouds, frame_vars>>

(* With time synchronisation the lidar of the packet alone is published.   *)
CheckTimerSync ==
  /\ IF SyncFrameIsDue(raw_data.lidar)
     THEN CutFrame({raw_data.lidar})
     ELSE NoFrame
  /\ UNCHANGED timer_vars

FirstTimer ==
  /\ first' = FALSE
  /\ last_pub_time' = now
  /\ UNCHANGED timer_frames

(* Mutant: the time of the last frame does not advance.                    *)
TimerFrameKeepsTime ==
  /\ timer_frames' = timer_frames + 1
  /\ UNCHANGED <<first, last_pub_time>>

TimerFrame ==
  /\ last_pub_time' = last_pub_time + Interval
  /\ timer_frames' = timer_frames + 1
  /\ UNCHANGED first

(* Without it the host's clock decides, and all lidars are published: the  *)
(* time of the last frame advances by one interval, however late it is.    *)
CheckTimerNoSync ==
  \/ /\ first
     /\ FirstTimer
     /\ NoFrame
  \/ /\ ~first
     /\ now - last_pub_time < Interval
     /\ NoFrame
     /\ UNCHANGED timer_vars
  \/ /\ ~first
     /\ now - last_pub_time >= Interval
     /\ TimerFrame
     /\ CutFrame(Lidars)

CheckTimer ==
  /\ proc_pc = "timer"
  /\ IF is_timestamp_sync THEN CheckTimerSync ELSE CheckTimerNoSync
  /\ raw_data' = NoPacket
  /\ UNCHANGED <<net_vars, now, is_timestamp_sync, recv_vars, raw_packet_queue,
                 is_quit, received, regular>>

(* The callback passes the frame to Lds::StoragePointData, which pushes    *)
(* the points of each lidar into its queue; then the frame is emptied.     *)
PublishPointCloud ==
  /\ proc_pc = "publish"
  /\ frame' = NoPoints
  /\ proc_pc' = "top"
  /\ UNCHANGED <<net_vars, now, is_timestamp_sync, recv_vars, raw_packet_queue,
                 is_quit, raw_data, points_clouds, timer_vars, framed, received,
                 regular>>

(* Uninit removes the observer, so no callback starts any more, sets the   *)
(* flag and joins the processing thread.                                   *)
RequestExit ==
  /\ ~is_quit
  /\ is_quit' = TRUE
  /\ UNCHANGED <<net_vars, now, is_timestamp_sync, recv_vars, raw_packet_queue,
                 proc_vars, points_clouds, timer_vars, frame_vars, received, regular>>

-----------------------------------------------------------------------------
RawDataProcess ==
  \/ CheckQuit \/ TakePacket \/ WaitTimesOut
  \/ PointCloudProcess \/ CheckTimer \/ PublishPointCloud

Next ==
  \/ Tick
  \/ \E l \in Lidars :
       \/ PacketLost(l) \/ ChangeSync(l)
       \/ ImuPacket(l) \/ PointPacket(l) \/ UnknownPacket(l)
  \/ Enqueue
  \/ RawDataProcess
  \/ RequestExit

Spec == Init /\ [][Next]_vars

(* The operating system runs the processing thread.                        *)
FairSpec == Spec /\ WF_vars(RawDataProcess)

-----------------------------------------------------------------------------
(* Correctness.                                                            *)

TypeOK ==
  /\ synced \in [Lidars -> BOOLEAN]
  /\ clock \in [Lidars -> Nat]
  /\ faults \in Nat
  /\ now \in Nat
  /\ is_timestamp_sync \in BOOLEAN
  /\ recv_pc \in {"idle", "enqueue"}
  /\ recv_pc = "enqueue" => packet \in Packets
  /\ raw_packet_queue \in Seq(Packets)
  /\ is_quit \in BOOLEAN
  /\ proc_pc \in {"top", "take", "process", "timer", "publish", "done"}
  /\ proc_pc \in {"process", "timer"} => raw_data \in Packets
  /\ points_clouds \in [Lidars -> Seq(Packets)]
  /\ first \in BOOLEAN
  /\ last_pub_time \in Nat
  /\ timer_frames \in Nat
  /\ frame \in [Lidars -> Seq(Packets)]
  /\ framed \in [Lidars -> Nat]
  /\ received \in [Lidars -> Nat]
  /\ regular \in [Lidars -> BOOLEAN]

(* The packets on their way from the callback to a lidar's points.         *)
Pending ==
  (IF proc_pc = "process" THEN <<raw_data>> ELSE << >>)
  \o raw_packet_queue
  \o (IF recv_pc = "enqueue" THEN <<packet>> ELSE << >>)

Processed(l) == framed[l] + Len(points_clouds[l])

(* The inductive invariant behind the refinement: the packets of a lidar   *)
(* that wait have the numbers after those of its points, in order.         *)
PointsInOrder ==
  \A l \in Lidars : \A i \in 1 .. Len(points_clouds[l]) :
    points_clouds[l][i].number = framed[l] + i

PendingInOrder ==
  \A i, j \in 1 .. Len(Pending) :
    /\ i < j
    /\ Pending[i].lidar = Pending[j].lidar
    /\ Pending[i].known /\ Pending[j].known
    => Pending[i].number < Pending[j].number

PendingInRange ==
  \A i \in 1 .. Len(Pending) :
    Pending[i].known =>
      Pending[i].number \in Processed(Pending[i].lidar) + 1 .. received[Pending[i].lidar]

NoneMissing ==
  \A l \in Lidars : \A n \in Processed(l) + 1 .. received[l] :
    \E i \in 1 .. Len(Pending) :
      Pending[i].lidar = l /\ Pending[i].known /\ Pending[i].number = n

FramedWasReceived == \A l \in Lidars : Processed(l) <= received[l]

FrameIsEmpty == proc_pc # "publish" => frame = NoPoints

TimerOnTime ==
  /\ last_pub_time <= now
  /\ timer_frames * Interval <= last_pub_time

HandlerInv ==
  /\ TypeOK
  /\ PointsInOrder
  /\ PendingInOrder
  /\ PendingInRange
  /\ NoneMissing
  /\ FramedWasReceived
  /\ FrameIsEmpty
  /\ TimerOnTime

(* Every packet of points is published once and in the order of arrival,   *)
(* although frames are cut in two ways that lidars and packets switch      *)
(* between, and although the points of all lidars pass one queue.          *)
Frames == INSTANCE PointFrames WITH
  frame <- [l \in Lidars |-> [i \in 1 .. Len(frame[l]) |-> frame[l][i].number]]

ImplementsFrames == Frames!Spec

(* Frames cut by the host's clock never come more often than the interval  *)
(* allows, counted from the start: a late one is made up for, not more.    *)
RateBounded == timer_frames * Interval <= now

SpanOf(points) == points[Len(points)].end - points[1].begin

(* When every lidar is synchronised and none of a lidar's points are       *)
(* missing, its frames come at every boundary of the interval: none is     *)
(* shorter than the interval less a millisecond, the first is shorter than *)
(* two intervals and the others are at most a millisecond longer than one. *)
(* That the test on the length never skips a boundary, and that one        *)
(* boundary never makes two frames, depends on the tolerance.              *)
FramesOnTime ==
  \A l \in Lidars : regular[l] =>
    /\ frame[l] # << >> =>
         /\ SpanOf(frame[l]) >= IntervalTolerance
         /\ SpanOf(frame[l]) < 2 * Interval
         /\ frame[l][1].number > 1 => SpanOf(frame[l]) <= Interval + TicksPerMs
    /\ points_clouds[l] # << >> => SpanOf(points_clouds[l]) < 2 * Interval

(* The handler's thread ends once it is asked to, also when no packet      *)
(* arrives any more: joining it cannot hang.                               *)
ThreadEnds == is_quit ~> proc_pc = "done"
==============================================================================

---------------------------- MODULE DriverPipeline ---------------------------
(***************************************************************************)
(* How livox_ros_driver2 moves data from the threads that receive it to    *)
(* the threads that publish it.  There are two channels, point clouds      *)
(* ("pcd") and IMU samples ("imu").  Each has one receiving thread (the    *)
(* packet thread of PubHandler, the SDK's data thread), one polling thread *)
(* (DriverNode::PointCloudDataPollThread, ImuDataPollThread), a queue for  *)
(* each lidar and one semaphore.  The node's destructor stops both polling *)
(* threads.                                                                *)
(*                                                                         *)
(* A queue is represented by the number of items it holds: LidarQueue      *)
(* shows that the ring buffer is a bounded FIFO, and the IMU queue is a    *)
(* list behind a mutex.  The semaphore's count is read without its lock.   *)
(***************************************************************************)
EXTENDS Naturals

CONSTANTS
  Channels,    \* the channels of the instance: "pcd", "imu" or both
  NumLidars,   \* lidars are scanned by index, 1 .. NumLidars
  Capacity,    \* frames a point-cloud queue holds
  MaxImu       \* bound: samples an IMU queue grows to (unbounded in the code)

ASSUME PipelineAssumption ==
  /\ Channels \subseteq {"pcd", "imu"}
  /\ NumLidars \in Nat \ {0}
  /\ Capacity \in Nat \ {0}
  /\ MaxImu \in Nat \ {0}

Lidars == 1 .. NumLidars
TransferFormats == {"PointCloud2", "CustomMsg", "PclMsg"}

VARIABLES
  depth,          \* items in the queue of a lidar
  count,          \* pcd_semaphore_, imu_semaphore_
  push_pc, push_lidar,   \* the receiving threads
  poll_pc, scan,         \* the polling threads; scan is the lidar index i
  connect_state,
  transfer_format,
  request_exit,   \* Lds::request_exit_
  exit_signal,    \* whether the promise exit_signal_ is set
  main_pc,        \* the thread that destroys the node
  live            \* history: the queue holds an item pushed while the lidar
                  \* was already sampling

push_vars == <<push_pc, push_lidar>>
poll_vars == <<poll_pc, scan>>
exit_vars == <<request_exit, exit_signal, main_pc>>
vars == <<depth, count, push_vars, poll_vars, connect_state, transfer_format,
          exit_vars, live>>

Init ==
  /\ depth = [c \in Channels |-> [l \in Lidars |-> 0]]
  /\ count = [c \in Channels |-> 0]
  /\ push_pc = [c \in Channels |-> "idle"]
  /\ push_lidar = [c \in Channels |-> 1]
  /\ poll_pc = [c \in Channels |-> "top"]
  /\ scan = [c \in Channels |-> 1]
  /\ connect_state = [l \in Lidars |-> "Off"]
  /\ transfer_format \in TransferFormats
  /\ request_exit = FALSE
  /\ exit_signal = FALSE
  /\ main_pc = "running"
  /\ live = [c \in Channels |-> [l \in Lidars |-> FALSE]]

Sampling(l) == connect_state[l] = "Sampling"
QueueIsEmpty(c, l) == depth[c][l] = 0
Room(c) == IF c = "pcd" THEN Capacity ELSE MaxImu

PushGoto(c, pc) == push_pc' = [push_pc EXCEPT ![c] = pc]
PollGoto(c, pc) == poll_pc' = [poll_pc EXCEPT ![c] = pc]

-----------------------------------------------------------------------------
(* The receiving threads: Lds::PushLidarData and Lds::StorageImuData.      *)

Push(c, l) ==
  /\ push_pc[c] = "idle"
  /\ depth[c][l] < Room(c)
  /\ depth' = [depth EXCEPT ![c][l] = @ + 1]
  /\ live' = [live EXCEPT ![c][l] = @ \/ Sampling(l)]
  /\ push_lidar' = [push_lidar EXCEPT ![c] = l]
  /\ PushGoto(c, "check_empty")
  /\ UNCHANGED <<count, poll_vars, connect_state, transfer_format, exit_vars>>

(* A full point-cloud queue loses the new frame but still signals.         *)
DropFrame(c, l) ==
  /\ c = "pcd"
  /\ push_pc[c] = "idle"
  /\ depth[c][l] = Capacity
  /\ push_lidar' = [push_lidar EXCEPT ![c] = l]
  /\ PushGoto(c, "check_count")
  /\ UNCHANGED <<depth, count, poll_vars, connect_state, transfer_format,
                 exit_vars, live>>

(* Mutant: a signal for the first item of a queue only.                    *)
CheckFirstItem(c) ==
  /\ push_pc[c] = "check_empty"
  /\ PushGoto(c, IF depth[c][push_lidar[c]] # 1 THEN "idle" ELSE "check_count")
  /\ UNCHANGED <<depth, count, push_lidar, poll_vars, connect_state,
                 transfer_format, exit_vars, live>>

CheckEmpty(c) ==
  /\ push_pc[c] = "check_empty"
  /\ PushGoto(c, IF QueueIsEmpty(c, push_lidar[c]) THEN "idle" ELSE "check_count")
  /\ UNCHANGED <<depth, count, push_lidar, poll_vars, connect_state,
                 transfer_format, exit_vars, live>>

(* Mutant: a signal for every item.                                        *)
SkipCheckCount(c) ==
  /\ push_pc[c] = "check_count"
  /\ PushGoto(c, "signal")
  /\ UNCHANGED <<depth, count, push_lidar, poll_vars, connect_state,
                 transfer_format, exit_vars, live>>

CheckCount(c) ==
  /\ push_pc[c] = "check_count"
  /\ PushGoto(c, IF count[c] <= 0 THEN "signal" ELSE "idle")
  /\ UNCHANGED <<depth, count, push_lidar, poll_vars, connect_state,
                 transfer_format, exit_vars, live>>

Signal(c) ==
  /\ push_pc[c] = "signal"
  /\ count' = [count EXCEPT ![c] = @ + 1]
  /\ PushGoto(c, "idle")
  /\ UNCHANGED <<depth, push_lidar, poll_vars, connect_state, transfer_format,
                 exit_vars, live>>

-----------------------------------------------------------------------------
(* The polling threads: DriverNode::PointCloudDataPollThread and           *)
(* ImuDataPollThread, Lddc::DistributePointCloudData and DistributeImuData.*)

IsRequestExit(c) ==
  /\ poll_pc[c] = "top"
  /\ PollGoto(c, IF request_exit THEN "bottom" ELSE "wait")
  /\ UNCHANGED <<depth, count, push_vars, scan, connect_state, transfer_format,
                 exit_vars, live>>

(* Semaphore::Wait, then the loop over the lidars starts.                  *)
Wait(c) ==
  /\ poll_pc[c] = "wait"
  /\ count[c] > 0
  /\ count' = [count EXCEPT ![c] = @ - 1]
  /\ scan' = [scan EXCEPT ![c] = 1]
  /\ PollGoto(c, "scan")
  /\ UNCHANGED <<depth, push_vars, connect_state, transfer_format, exit_vars, live>>

ScanLidar(c) ==
  /\ poll_pc[c] = "scan"
  /\ \/ /\ scan[c] \notin Lidars
        /\ PollGoto(c, "bottom")
        /\ UNCHANGED scan
     \/ /\ scan[c] \in Lidars
        /\ Sampling(scan[c])
        /\ PollGoto(c, "poll")
        /\ UNCHANGED scan
     \/ /\ scan[c] \in Lidars
        /\ ~Sampling(scan[c])
        /\ scan' = [scan EXCEPT ![c] = @ + 1]
        /\ UNCHANGED poll_pc
  /\ UNCHANGED <<depth, count, push_vars, connect_state, transfer_format,
                 exit_vars, live>>

(* The loop head of PollingLidarPointCloudData and PollingLidarImuData.    *)

(* Mutant: the polling loop does not look at request_exit.                 *)
LeavesPollWhenEmpty(c) == QueueIsEmpty(c, scan[c])
LeavesPoll(c) == request_exit \/ QueueIsEmpty(c, scan[c])

NextLidar(c) ==
  /\ poll_pc[c] = "poll"
  /\ LeavesPoll(c)
  /\ scan' = [scan EXCEPT ![c] = @ + 1]
  /\ PollGoto(c, "scan")
  /\ UNCHANGED <<depth, count, push_vars, connect_state, transfer_format,
                 exit_vars, live>>

(* PublishPclMsg returns at once in ROS 2, and the loop goes round again.  *)
EnterPublish(c) ==
  /\ poll_pc[c] = "poll"
  /\ ~LeavesPoll(c)
  /\ PollGoto(c, IF c = "pcd" /\ transfer_format = "PclMsg" THEN "poll" ELSE "publish")
  /\ UNCHANGED <<depth, count, push_vars, scan, connect_state, transfer_format,
                 exit_vars, live>>

(* Mutant: one item of a lidar for each round.                             *)
PopOnePerRound(c) ==
  /\ poll_pc[c] = "publish"
  /\ ~QueueIsEmpty(c, scan[c])
  /\ depth' = [depth EXCEPT ![c][scan[c]] = @ - 1]
  /\ live' = [live EXCEPT ![c][scan[c]] = @ /\ depth[c][scan[c]] > 1]
  /\ scan' = [scan EXCEPT ![c] = @ + 1]
  /\ PollGoto(c, "scan")
  /\ UNCHANGED <<count, push_vars, connect_state, transfer_format, exit_vars>>

(* The inner loop of PublishPointcloud2 and PublishCustomPointcloud pops   *)
(* frames without looking at request_exit; PublishImuData pops one sample. *)
PopAndPublish(c) ==
  /\ poll_pc[c] = "publish"
  /\ ~QueueIsEmpty(c, scan[c])
  /\ depth' = [depth EXCEPT ![c][scan[c]] = @ - 1]
  /\ live' = [live EXCEPT ![c][scan[c]] = @ /\ depth[c][scan[c]] > 1]
  /\ PollGoto(c, IF c = "imu" THEN "poll" ELSE "publish")
  /\ UNCHANGED <<count, push_vars, scan, connect_state, transfer_format, exit_vars>>

Drained(c) ==
  /\ poll_pc[c] = "publish"
  /\ QueueIsEmpty(c, scan[c])
  /\ PollGoto(c, "poll")
  /\ UNCHANGED <<depth, count, push_vars, scan, connect_state, transfer_format,
                 exit_vars, live>>

(* The loop of the thread function ends when the promise is set.           *)
CheckFuture(c) ==
  /\ poll_pc[c] = "bottom"
  /\ PollGoto(c, IF exit_signal THEN "done" ELSE "top")
  /\ UNCHANGED <<depth, count, push_vars, scan, connect_state, transfer_format,
                 exit_vars, live>>

-----------------------------------------------------------------------------
(* The configuration callbacks start a lidar (module LidarConfig): nothing *)
(* ever takes it out of the sampling state.                                *)
StartSampling(l) ==
  /\ ~Sampling(l)
  /\ connect_state' = [connect_state EXCEPT ![l] = "Sampling"]
  /\ UNCHANGED <<depth, count, push_vars, poll_vars, transfer_format, exit_vars, live>>

(* DriverNode::~DriverNode.                                                *)
RequestExit ==
  /\ main_pc = "running"
  /\ request_exit' = TRUE
  /\ main_pc' = "set_value"
  /\ UNCHANGED <<depth, count, push_vars, poll_vars, connect_state,
                 transfer_format, exit_signal, live>>

SetExitSignal ==
  /\ main_pc = "set_value"
  /\ exit_signal' = TRUE
  /\ main_pc' = "join_pcd"
  /\ UNCHANGED <<depth, count, push_vars, poll_vars, connect_state,
                 transfer_format, request_exit, live>>

Join(c, from, to) ==
  /\ main_pc = from
  /\ c \in Channels => poll_pc[c] = "done"
  /\ main_pc' = to
  /\ UNCHANGED <<depth, count, push_vars, poll_vars, connect_state,
                 transfer_format, request_exit, exit_signal, live>>

JoinPcd == Join("pcd", "join_pcd", "join_imu")
JoinImu == Join("imu", "join_imu", "joined")

-----------------------------------------------------------------------------
Arrival ==
  \E c \in Channels, l \in Lidars : Push(c, l) \/ DropFrame(c, l)

Notify(c) == CheckEmpty(c) \/ CheckCount(c) \/ Signal(c)

Poll(c) ==
  \/ IsRequestExit(c) \/ Wait(c) \/ ScanLidar(c) \/ NextLidar(c)
  \/ EnterPublish(c) \/ PopAndPublish(c) \/ Drained(c) \/ CheckFuture(c)

Shutdown == SetExitSignal \/ JoinPcd \/ JoinImu

Next ==
  \/ Arrival
  \/ \E c \in Channels : Notify(c) \/ Poll(c)
  \/ \E l \in Lidars : StartSampling(l)
  \/ RequestExit \/ Shutdown

Spec == Init /\ [][Next]_vars

(* The operating system runs every thread that can run.  That data arrives,*)
(* that a lidar starts and that the node is destroyed is not assumed.      *)
Fairness ==
  /\ \A c \in Channels : WF_vars(Notify(c)) /\ WF_vars(Poll(c))
  /\ WF_vars(Shutdown)

FairSpec == Spec /\ Fairness

-----------------------------------------------------------------------------
(* Correctness.                                                            *)

TypeOK ==
  /\ depth \in [Channels -> [Lidars -> Nat]]
  /\ \A c \in Channels, l \in Lidars : depth[c][l] <= Room(c)
  /\ count \in [Channels -> Nat]
  /\ push_pc \in [Channels -> {"idle", "check_empty", "check_count", "signal"}]
  /\ push_lidar \in [Channels -> Lidars]
  /\ poll_pc \in [Channels ->
       {"top", "wait", "scan", "poll", "publish", "bottom", "done"}]
  /\ scan \in [Channels -> 1 .. NumLidars + 1]
  /\ connect_state \in [Lidars -> {"Off", "Sampling"}]
  /\ transfer_format \in TransferFormats
  /\ request_exit \in BOOLEAN
  /\ exit_signal \in BOOLEAN
  /\ main_pc \in {"running", "set_value", "join_pcd", "join_imu", "joined"}
  /\ live \in [Channels -> [Lidars -> BOOLEAN]]

(* The polling thread is blocked in Semaphore::Wait.                       *)
Parked(c) == poll_pc[c] = "wait" /\ count[c] = 0

(* The test of the count and the signal are two steps and the count is     *)
(* read without the lock, yet at most one wake-up is ever pending: wake-   *)
(* ups do not add up.  (One may outlive its item: a push during a round    *)
(* signals, the same round may take the item, and the next one is empty.)  *)
OneWakeUp == \A c \in Channels : count[c] <= 1

(* No lost wake-up: while the polling thread is blocked and the receiving  *)
(* thread is between two pushes, no queue holds an item that was pushed    *)
(* when its lidar was already sampling.                                    *)
NoLostWakeup ==
  \A c \in Channels, l \in Lidars :
    live[c][l] /\ push_pc[c] = "idle" => ~Parked(c)

(* The inductive strengthening.  A live item is always covered: a signal   *)
(* is on its way or pending, or the polling thread has still to visit its  *)
(* lidar in this round, or it will not wait again.                         *)
VisitsALidar ==
  \A c \in Channels : poll_pc[c] \in {"poll", "publish"} => scan[c] \in Lidars

SignalsWhenZero == \A c \in Channels : push_pc[c] = "signal" => count[c] = 0

LiveIsQueued ==
  \A c \in Channels, l \in Lidars :
    live[c][l] => Sampling(l) /\ ~QueueIsEmpty(c, l)

Covered(c, l) ==
  \/ push_pc[c] \in {"check_count", "signal"}
  \/ push_pc[c] = "check_empty" /\ push_lidar[c] = l
  \/ count[c] > 0
  \/ poll_pc[c] \in {"scan", "poll", "publish"} /\ scan[c] <= l
  \/ request_exit /\ poll_pc[c] # "wait"

LiveIsCovered == \A c \in Channels, l \in Lidars : live[c][l] => Covered(c, l)

PipelineInv ==
  /\ TypeOK
  /\ VisitsALidar
  /\ OneWakeUp
  /\ SignalsWhenZero
  /\ LiveIsQueued
  /\ LiveIsCovered

NoMoreData == <>[][~Arrival]_vars

(* An item pushed while its lidar was sampling is published although       *)
(* nothing else arrives, unless the node is being destroyed or was asked   *)
(* for PCL messages, which the ROS 2 build refuses.                        *)
EveryItemPublished ==
  NoMoreData =>
    \A c \in Channels, l \in Lidars :
      live[c][l] ~> \/ QueueIsEmpty(c, l)
                    \/ request_exit
                    \/ c = "pcd" /\ transfer_format = "PclMsg"

(* Once the destructor has set the exit signal and data has stopped, each  *)
(* polling thread ends or is blocked in Semaphore::Wait: the destructor    *)
(* signals neither semaphore, and its join can hang there and only there.  *)
ExitEndsOrParks ==
  NoMoreData =>
    \A c \in Channels : exit_signal ~> (poll_pc[c] = "done" \/ Parked(c))
==============================================================================

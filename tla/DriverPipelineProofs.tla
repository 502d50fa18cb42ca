------------------------ MODULE DriverPipelineProofs -------------------------
(***************************************************************************)
(* For every number of lidars and every queue capacity, no wake-up of a    *)
(* polling thread is lost and at most one is pending.                      *)
(***************************************************************************)
EXTENDS DriverPipeline, TLAPS

LEMMA InvInit == Init => PipelineInv
<1>. SUFFICES ASSUME Init PROVE PipelineInv
  OBVIOUS
<1>. USE PipelineAssumption DEF Init
<1>1. TypeOK
  <2>1. depth \in [Channels -> [Lidars -> Nat]]
    OBVIOUS
  <2>2. \A c \in Channels, l \in Lidars : depth[c][l] <= Room(c)
    BY DEF Room
  <2>3. live \in [Channels -> [Lidars -> BOOLEAN]]
    OBVIOUS
  <2>4. 1 \in Lidars /\ 1 \in 1 .. NumLidars + 1
    BY DEF Lidars
  <2>. QED  BY <2>1, <2>2, <2>3, <2>4 DEF TypeOK
<1>2. VisitsALidar /\ OneWakeUp /\ SignalsWhenZero
  BY DEF VisitsALidar, OneWakeUp, SignalsWhenZero
<1>3. LiveIsQueued /\ LiveIsCovered
  BY DEF LiveIsQueued, LiveIsCovered
<1>. QED  BY <1>1, <1>2, <1>3 DEF PipelineInv

-----------------------------------------------------------------------------
(* Typing: the index of the lidar loop stays in range, and the semaphore   *)
(* is never taken below zero.                                              *)

LEMMA TypeStep ==
  ASSUME TypeOK, VisitsALidar, [Next]_vars
  PROVE  TypeOK' /\ VisitsALidar'
<1>. USE PipelineAssumption DEF TypeOK, VisitsALidar, Room,
         push_vars, poll_vars, exit_vars, PushGoto, PollGoto
<1>1. ASSUME NEW c \in Channels, NEW l \in Lidars, Push(c, l)
      PROVE  TypeOK' /\ VisitsALidar'
  <2>. USE <1>1 DEF Push
  <2>1. depth' \in [Channels -> [Lidars -> Nat]]
    OBVIOUS
  <2>2. ASSUME NEW d \in Channels, NEW m \in Lidars
        PROVE  depth'[d][m] <= Room(d)
    OBVIOUS
  <2>3. live' \in [Channels -> [Lidars -> BOOLEAN]]
    BY DEF Sampling
  <2>. QED  BY <2>1, <2>2, <2>3
<1>2. ASSUME NEW c \in Channels, NEW l \in Lidars, DropFrame(c, l)
      PROVE  TypeOK' /\ VisitsALidar'
  BY <1>2 DEF DropFrame
<1>3. ASSUME NEW c \in Channels, CheckEmpty(c) \/ CheckCount(c)
      PROVE  TypeOK' /\ VisitsALidar'
  BY <1>3 DEF CheckEmpty, CheckCount
<1>4. ASSUME NEW c \in Channels, Signal(c)
      PROVE  TypeOK' /\ VisitsALidar'
  <2>. USE <1>4 DEF Signal
  <2>1. count' \in [Channels -> Nat]
    <3>1. count[c] + 1 \in Nat
      OBVIOUS
    <3>. QED  BY <3>1
  <2>. QED  BY <2>1
<1>5. ASSUME NEW c \in Channels, Wait(c)
      PROVE  TypeOK' /\ VisitsALidar'
  <2>. USE <1>5 DEF Wait
  <2>1. count' \in [Channels -> Nat]
    <3>1. count[c] - 1 \in Nat
      OBVIOUS
    <3>. QED  BY <3>1
  <2>2. scan' \in [Channels -> 1 .. NumLidars + 1]
    OBVIOUS
  <2>. QED  BY <2>1, <2>2
<1>6. ASSUME NEW c \in Channels, ScanLidar(c) \/ NextLidar(c)
      PROVE  TypeOK' /\ VisitsALidar'
  <2>. USE <1>6 DEF ScanLidar, NextLidar, Lidars
  <2>1. scan' \in [Channels -> 1 .. NumLidars + 1]
    <3>1. CASE scan' = scan
      BY <3>1
    <3>2. CASE scan' # scan
      <4>1. scan[c] \in 1 .. NumLidars /\ scan' = [scan EXCEPT ![c] = @ + 1]
        BY <3>2
      <4>2. scan[c] + 1 \in 1 .. NumLidars + 1
        BY <4>1
      <4>. QED  BY <4>1, <4>2
    <3>. QED  BY <3>1, <3>2
  <2>2. poll_pc' \in [Channels ->
          {"top", "wait", "scan", "poll", "publish", "bottom", "done"}]
    OBVIOUS
  <2>3. ASSUME NEW d \in Channels, poll_pc'[d] \in {"poll", "publish"}
        PROVE  scan'[d] \in Lidars
    BY <2>3
  <2>. QED  BY <2>1, <2>2, <2>3
<1>7. ASSUME NEW c \in Channels,
             IsRequestExit(c) \/ EnterPublish(c) \/ Drained(c) \/ CheckFuture(c)
      PROVE  TypeOK' /\ VisitsALidar'
  BY <1>7 DEF IsRequestExit, EnterPublish, Drained, CheckFuture
<1>8. ASSUME NEW c \in Channels, PopAndPublish(c)
      PROVE  TypeOK' /\ VisitsALidar'
  <2>. USE <1>8 DEF PopAndPublish, QueueIsEmpty
  <2>1. scan[c] \in Lidars
    OBVIOUS
  <2>2. depth[c][scan[c]] - 1 \in Nat /\ depth[c][scan[c]] - 1 <= Room(c)
    BY <2>1
  <2>3. depth' \in [Channels -> [Lidars -> Nat]]
    BY <2>1, <2>2
  <2>4. ASSUME NEW d \in Channels, NEW m \in Lidars
        PROVE  depth'[d][m] <= Room(d)
    BY <2>1, <2>2
  <2>5. live' \in [Channels -> [Lidars -> BOOLEAN]]
    BY <2>1
  <2>. QED  BY <2>3, <2>4, <2>5
<1>9. ASSUME NEW l \in Lidars, StartSampling(l)
      PROVE  TypeOK' /\ VisitsALidar'
  BY <1>9 DEF StartSampling
<1>10. CASE RequestExit
  BY <1>10 DEF RequestExit
<1>11. CASE Shutdown
  <2>1. UNCHANGED <<depth, count, push_vars, poll_vars, connect_state,
                    transfer_format, request_exit, live>>
    BY <1>11 DEF Shutdown, SetExitSignal, JoinPcd, JoinImu, Join
  <2>2. /\ exit_signal' \in BOOLEAN
        /\ main_pc' \in {"running", "set_value", "join_pcd", "join_imu", "joined"}
    BY <1>11 DEF Shutdown, SetExitSignal, JoinPcd, JoinImu, Join
  <2>. QED  BY <2>1, <2>2
<1>12. CASE UNCHANGED vars
  BY <1>12 DEF vars
<1>. QED
  BY <1>1, <1>2, <1>3, <1>4, <1>5, <1>6, <1>7, <1>8, <1>9, <1>10, <1>11, <1>12
     DEF Next, Arrival, Notify, Poll

-----------------------------------------------------------------------------
(* At most one wake-up: a signal is under way only while none is pending.  *)

LEMMA WakeUpStep ==
  ASSUME TypeOK, OneWakeUp, SignalsWhenZero, [Next]_vars
  PROVE  OneWakeUp' /\ SignalsWhenZero'
<1>. USE DEF TypeOK, OneWakeUp, SignalsWhenZero,
         push_vars, poll_vars, exit_vars, PushGoto, PollGoto
<1>1. ASSUME NEW c \in Channels, NEW l \in Lidars, Push(c, l) \/ DropFrame(c, l)
      PROVE  OneWakeUp' /\ SignalsWhenZero'
  BY <1>1 DEF Push, DropFrame
<1>2. ASSUME NEW c \in Channels, CheckEmpty(c) \/ CheckCount(c)
      PROVE  OneWakeUp' /\ SignalsWhenZero'
  BY <1>2 DEF CheckEmpty, CheckCount
<1>3. ASSUME NEW c \in Channels, Signal(c)
      PROVE  OneWakeUp' /\ SignalsWhenZero'
  <2>1. count[c] = 0 /\ count' = [count EXCEPT ![c] = 1]
    <3>1. count[c] = 0 /\ count' = [count EXCEPT ![c] = count[c] + 1]
      BY <1>3 DEF Signal
    <3>2. count[c] + 1 = 1
      BY <3>1
    <3>. QED  BY <3>1, <3>2
  <2>. QED  BY <1>3, <2>1 DEF Signal
<1>4. ASSUME NEW c \in Channels, Wait(c)
      PROVE  OneWakeUp' /\ SignalsWhenZero'
  <2>1. count[c] = 1 /\ count' = [count EXCEPT ![c] = 0]
    <3>1. count[c] \in Nat /\ count[c] <= 1 /\ count[c] > 0
      BY <1>4 DEF Wait
    <3>2. count[c] = 1
      BY <3>1
    <3>. QED  BY <1>4, <3>2 DEF Wait
  <2>. QED  BY <1>4, <2>1 DEF Wait
<1>5. ASSUME NEW c \in Channels, Poll(c), ~Wait(c)
      PROVE  OneWakeUp' /\ SignalsWhenZero'
  <2>1. UNCHANGED <<count, push_vars>>
    BY <1>5 DEF Poll, IsRequestExit, ScanLidar, NextLidar, EnterPublish,
                PopAndPublish, Drained, CheckFuture
  <2>. QED  BY <2>1
<1>6. CASE (\E l \in Lidars : StartSampling(l)) \/ RequestExit \/ Shutdown
  <2>1. UNCHANGED <<count, push_vars>>
    BY <1>6 DEF StartSampling, RequestExit, Shutdown, SetExitSignal, JoinPcd,
                JoinImu, Join
  <2>. QED  BY <2>1
<1>7. CASE UNCHANGED vars
  BY <1>7 DEF vars
<1>. QED
  BY <1>1, <1>2, <1>3, <1>4, <1>5, <1>6, <1>7 DEF Next, Arrival, Notify

-----------------------------------------------------------------------------
(* Live items: they are in their queue, and their lidar goes on sampling.  *)

LEMMA QueuedStep ==
  ASSUME TypeOK, VisitsALidar, LiveIsQueued, [Next]_vars
  PROVE  LiveIsQueued'
<1>. USE DEF TypeOK, LiveIsQueued, Sampling, QueueIsEmpty,
         push_vars, poll_vars, exit_vars, PushGoto, PollGoto
<1>1. ASSUME NEW c \in Channels, NEW l \in Lidars, Push(c, l)
      PROVE  LiveIsQueued'
  <2>. SUFFICES ASSUME NEW d \in Channels, NEW m \in Lidars, live'[d][m]
                PROVE  connect_state'[m] = "Sampling" /\ depth'[d][m] # 0
    OBVIOUS
  <2>1. CASE d = c /\ m = l
    <3>1. depth'[d][m] = depth[c][l] + 1 /\ live'[d][m] = (live[c][l] \/ connect_state[l] = "Sampling")
      BY <1>1, <2>1 DEF Push
    <3>. QED  BY <1>1, <2>1, <3>1 DEF Push
  <2>2. CASE ~(d = c /\ m = l)
    BY <1>1, <2>2 DEF Push
  <2>. QED  BY <2>1, <2>2
<1>2. ASSUME NEW c \in Channels, PopAndPublish(c)
      PROVE  LiveIsQueued'
  <2>. DEFINE l == scan[c]
  <2>. SUFFICES ASSUME NEW d \in Channels, NEW m \in Lidars, live'[d][m]
                PROVE  connect_state'[m] = "Sampling" /\ depth'[d][m] # 0
    OBVIOUS
  <2>0. l \in Lidars
    BY <1>2 DEF PopAndPublish, VisitsALidar
  <2>1. CASE d = c /\ m = l
    <3>1. /\ depth'[d][m] = depth[c][l] - 1
          /\ live'[d][m] = (live[c][l] /\ depth[c][l] > 1)
      BY <1>2, <2>0, <2>1 DEF PopAndPublish
    <3>2. live[c][l] /\ depth[c][l] > 1
      BY <2>1, <3>1
    <3>3. depth[c][l] - 1 # 0
      BY <2>0, <3>2
    <3>4. connect_state[l] = "Sampling" /\ connect_state' = connect_state
      BY <1>2, <2>0, <3>2 DEF PopAndPublish
    <3>. QED  BY <2>1, <3>1, <3>3, <3>4
  <2>2. CASE ~(d = c /\ m = l)
    BY <1>2, <2>0, <2>2 DEF PopAndPublish
  <2>. QED  BY <2>1, <2>2
<1>3. ASSUME NEW l \in Lidars, StartSampling(l)
      PROVE  LiveIsQueued'
  BY <1>3 DEF StartSampling
<1>4. ASSUME UNCHANGED <<depth, live, connect_state>>
      PROVE  LiveIsQueued'
  BY <1>4
<1>5. ASSUME NEW c \in Channels, Notify(c) \/ (Poll(c) /\ ~PopAndPublish(c))
      PROVE  UNCHANGED <<depth, live, connect_state>>
  BY <1>5 DEF Notify, CheckEmpty, CheckCount, Signal, Poll, IsRequestExit, Wait,
              ScanLidar, NextLidar, EnterPublish, Drained, CheckFuture
<1>6. ASSUME NEW c \in Channels, NEW l \in Lidars, DropFrame(c, l)
      PROVE  UNCHANGED <<depth, live, connect_state>>
  BY <1>6 DEF DropFrame
<1>7. ASSUME RequestExit \/ Shutdown \/ UNCHANGED vars
      PROVE  UNCHANGED <<depth, live, connect_state>>
  BY <1>7 DEF RequestExit, Shutdown, SetExitSignal, JoinPcd, JoinImu, Join, vars
<1>. QED
  BY <1>1, <1>2, <1>3, <1>4, <1>5, <1>6, <1>7 DEF Next, Arrival

(* Live items are covered until they are published.                        *)

LEMMA CoveredStep ==
  ASSUME PipelineInv, [Next]_vars
  PROVE  LiveIsCovered'
<1>. USE DEF PipelineInv, TypeOK, LiveIsCovered, Covered,
         push_vars, poll_vars, exit_vars, PushGoto, PollGoto
<1>. SUFFICES ASSUME NEW d \in Channels, NEW m \in Lidars, live'[d][m]
              PROVE  Covered(d, m)'
  OBVIOUS
<1>1. ASSUME NEW c \in Channels, NEW l \in Lidars, Push(c, l)
      PROVE  Covered(d, m)'
  <2>1. CASE d = c /\ m = l
    BY <1>1, <2>1 DEF Push
  <2>2. CASE ~(d = c /\ m = l)
    <3>1. live[d][m]
      BY <1>1, <2>2 DEF Push
    <3>. QED  BY <1>1, <2>2, <3>1 DEF Push
  <2>. QED  BY <2>1, <2>2
<1>2. ASSUME NEW c \in Channels, NEW l \in Lidars, DropFrame(c, l)
      PROVE  Covered(d, m)'
  BY <1>2 DEF DropFrame
<1>3. ASSUME NEW c \in Channels, CheckEmpty(c)
      PROVE  Covered(d, m)'
  <2>1. live[d][m]
    BY <1>3 DEF CheckEmpty
  <2>2. ~QueueIsEmpty(d, m)
    BY <2>1 DEF LiveIsQueued
  <2>. QED  BY <1>3, <2>1, <2>2 DEF CheckEmpty
<1>4. ASSUME NEW c \in Channels, CheckCount(c)
      PROVE  Covered(d, m)'
  <2>1. count[d] \in Nat /\ count[c] \in Nat
    OBVIOUS
  <2>. QED  BY <1>4, <2>1 DEF CheckCount
<1>5. ASSUME NEW c \in Channels, Signal(c)
      PROVE  Covered(d, m)'
  <2>1. CASE d = c
    <3>1. count'[d] = count[d] + 1 /\ count[d] \in Nat
      BY <1>5, <2>1 DEF Signal
    <3>. QED  BY <3>1
  <2>2. CASE d # c
    BY <1>5, <2>2 DEF Signal
  <2>. QED  BY <2>1, <2>2
<1>6. ASSUME NEW c \in Channels, Wait(c)
      PROVE  Covered(d, m)'
  <2>1. CASE d = c
    <3>1. poll_pc'[d] = "scan" /\ scan'[d] = 1
      BY <1>6, <2>1 DEF Wait
    <3>2. 1 <= m
      BY PipelineAssumption DEF Lidars
    <3>. QED  BY <3>1, <3>2
  <2>2. CASE d # c
    BY <1>6, <2>2 DEF Wait
  <2>. QED  BY <2>1, <2>2
<1>7. ASSUME NEW c \in Channels, ScanLidar(c) \/ NextLidar(c)
      PROVE  Covered(d, m)'
  <2>0. /\ live[d][m]
        /\ UNCHANGED <<push_vars, count, request_exit>>
    BY <1>7 DEF ScanLidar, NextLidar
  <2>1. CASE d # c
    <3>1. poll_pc'[d] = poll_pc[d] /\ scan'[d] = scan[d]
      BY <1>7, <2>1 DEF ScanLidar, NextLidar
    <3>. QED  BY <2>0, <3>1
  <2>2. CASE d = c /\ ~(poll_pc[c] \in {"scan", "poll"} /\ scan[c] <= m)
    BY <1>7, <2>0, <2>2 DEF ScanLidar, NextLidar
  <2>3. CASE d = c /\ scan[c] < m
    <3>1. scan[c] \in Lidars
      BY <2>3, PipelineAssumption DEF Lidars
    <3>2. poll_pc'[c] \in {"scan", "poll"} /\ scan'[c] \in {scan[c], scan[c] + 1}
      BY <1>7, <3>1 DEF ScanLidar, NextLidar
    <3>3. scan'[c] <= m
      BY <2>3, <3>1, <3>2, PipelineAssumption DEF Lidars
    <3>. QED  BY <2>3, <3>2, <3>3
  <2>4. CASE d = c /\ scan[c] = m
    <3>1. Sampling(m) /\ ~QueueIsEmpty(d, m)
      BY <2>0 DEF LiveIsQueued
    <3>2. CASE ScanLidar(c)
      <4>1. poll_pc'[c] = "poll" /\ scan' = scan
        BY <2>4, <3>1, <3>2 DEF ScanLidar
      <4>2. scan'[c] <= m
        BY <2>4, <4>1, PipelineAssumption DEF Lidars
      <4>. QED  BY <2>4, <4>1, <4>2
    <3>3. CASE NextLidar(c)
      <4>1. request_exit /\ poll_pc'[c] = "scan"
        BY <2>4, <3>1, <3>3 DEF NextLidar, LeavesPoll
      <4>. QED  BY <2>0, <2>4, <4>1
    <3>. QED  BY <1>7, <3>2, <3>3
  <2>5. scan[c] < m \/ scan[c] = m \/ ~(scan[c] <= m)
    BY PipelineAssumption DEF Lidars
  <2>. QED  BY <2>1, <2>2, <2>3, <2>4, <2>5
<1>8. ASSUME NEW c \in Channels, IsRequestExit(c) \/ EnterPublish(c)
                                  \/ Drained(c) \/ CheckFuture(c)
      PROVE  Covered(d, m)'
  <2>1. live[d][m]
    BY <1>8 DEF IsRequestExit, EnterPublish, Drained, CheckFuture
  <2>. QED  BY <1>8, <2>1 DEF IsRequestExit, EnterPublish, Drained, CheckFuture
<1>9. ASSUME NEW c \in Channels, PopAndPublish(c)
      PROVE  Covered(d, m)'
  <2>1. live[d][m]
    <3>1. scan[c] \in Lidars
      BY <1>9 DEF PopAndPublish, VisitsALidar
    <3>. QED  BY <1>9, <3>1 DEF PopAndPublish
  <2>. QED  BY <1>9, <2>1 DEF PopAndPublish
<1>10. CASE (\E l \in Lidars : StartSampling(l)) \/ Shutdown
  <2>1. UNCHANGED <<live, push_vars, poll_vars, count, request_exit>>
    BY <1>10 DEF StartSampling, Shutdown, SetExitSignal, JoinPcd, JoinImu, Join
  <2>. QED  BY <2>1
<1>11. CASE RequestExit
  BY <1>11 DEF RequestExit
<1>12. CASE UNCHANGED vars
  BY <1>12 DEF vars
<1>. QED
  BY <1>1, <1>2, <1>3, <1>4, <1>5, <1>6, <1>7, <1>8, <1>9, <1>10, <1>11, <1>12
     DEF Next, Arrival, Notify, Poll

-----------------------------------------------------------------------------
(* What each thread has established at each point of its code stays true:  *)
(* the inductive invariant of the pipeline.                                *)
THEOREM PipelineInvariant == Spec => []PipelineInv
<1>1. PipelineInv /\ [Next]_vars => PipelineInv'
  BY TypeStep, WakeUpStep, QueuedStep, CoveredStep DEF PipelineInv
<1>. QED  BY InvInit, <1>1, PTL DEF Spec

(* Every variable of the pipeline keeps its type; a point-cloud queue      *)
(* never exceeds its capacity.                                             *)
THEOREM PipelineTypeCorrect == Spec => []TypeOK
<1>1. PipelineInv => TypeOK
  BY DEF PipelineInv
<1>. QED  BY PipelineInvariant, <1>1, PTL

(* Although the receiving thread reads the semaphore's count without its   *)
(* lock, it never makes two wake-ups pending.                              *)
THEOREM AtMostOneWakeUp == Spec => []OneWakeUp
<1>1. PipelineInv => OneWakeUp
  BY DEF PipelineInv
<1>. QED  BY PipelineInvariant, <1>1, PTL

(* No polling thread is blocked on its semaphore while the queue of a      *)
(* lidar holds an item pushed when that lidar was sampling, and the        *)
(* receiving thread has nothing left to do for it.                         *)
THEOREM NoWakeUpIsLost == Spec => []NoLostWakeup
<1>1. PipelineInv => NoLostWakeup
  BY DEF PipelineInv, LiveIsCovered, Covered, NoLostWakeup, Parked
<1>. QED  BY PipelineInvariant, <1>1, PTL
==============================================================================

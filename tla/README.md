# Verification of Sim_SLAM

TLA+ specifications of this repository: the Livox lidar driver
(`livox_ros_driver2`), the SLAM frontend and backend (`lidarslam_ros2`), the octomap
servers and their RViz displays (`octomap`), and the simulated car and lidar
(`slam_car`, `livox_laser_simulation_RO2`). TLC checks each specification on a small
instance; TLAPS proves the main safety properties for every value of the
constants. Paths below are relative to the repository's `src/src/`.

Contents: 1 the system, 2 the modules and how they correspond to the code,
3 the runs and their bounds, 4 fairness, 5 what is proved, 6 what is only
model-checked, 7 disagreements found, 8 what is not modelled, 9 the plan.

## 1. The system

Data flows from the lidars to a map:

```
 lidars --UDP--> Livox SDK threads
                   |  LidarInfoChangeCallback, answers to settings  (LidarConfig)
                   |  raw packets
                   v
                PubHandler: one queue, one processing thread        (PubHandler)
                   |  frames of points, one list per lidar
                   v
                LidarDataQueue, one lock-free ring per lidar        (LidarQueue)
                   |  semaphore                                     (DriverPipeline)
                   v
                polling threads --PointCloud2/CustomMsg/Imu-->  ROS topics
                                                                   |
                   scanmatcher_node: callbacks + mapping thread <--+ (ScanMatcher)
                   |  map_array, a topic that keeps one message      (SubmapStream)
                   v
                graph_based_slam_node: subscription, timer, service (GraphSlam)

 simulated car --odom--> guess of the frontend       (SlamCar, OdomPrediction)
 simulated lidar --scans--> the topics of a lidar    (LivoxPointsPlugin)
 imu --> ring of samples --> corrected clouds        (LidarUndistortion)

 clouds --> octomap servers --map, octree--> RViz    (OctomapServer and the like,
            |  changes --> a listening server         OctomapDisplays)
            +--> map files
```

### Driver: point-cloud queue
`livox_ros_driver2/src/comm/ldq.{h,cpp}`, `lds.cpp` (`PushLidarData`)

- *State*: for each lidar a buffer `storage_packet`, the indices `rd_idx` and
  `wr_idx` (free-running `uint32_t`), `size` and `mask`.
- *Operations*: `InitQueue`, `QueuePrePop`, `QueuePop`, `QueuePopUpdate`,
  `QueueUsedSize`, `QueueIsFull`, `QueueIsEmpty`, `QueuePushAny`,
  `CalculateQueueSize`, `RoundupPowerOf2`.
- *Interactions*: the packet thread pushes, the polling thread pops; no lock.
- *Hard*: interleaving of the two, creation of the queue by the first push while
  the other thread polls it, wrap-round of the indices, a full queue.
- *Correct when*: it is a bounded FIFO; the threads never meet in a slot; a packet
  that is popped has the header and the points of one frame.

### Driver: receiving, polling and shutdown
`lds.cpp`, `lddc.cpp`, `driver_node.cpp`, `comm/semaphore.{h,cpp}`,
`comm/lidar_imu_data_queue.cpp`, `livox_ros_driver2.cpp`

- *State*: the queues, two semaphores, the connection state of each lidar, the
  exit flag and the promise `exit_signal_`.
- *Operations*: `PushLidarData`, `StorageImuData`, `Semaphore::Signal`/`Wait`,
  `DistributePointCloudData`, `DistributeImuData`, `PollingLidar...Data`,
  `Publish...`, the node's constructor and destructor.
- *Interactions*: a receiving and a polling thread per channel; the destructor
  joins both polling threads.
- *Hard*: the count is read without its lock and the wake-up depends on it; one
  wake-up serves all lidars; shutdown while a thread waits or publishes.
- *Correct when*: no wake-up is lost and they do not add up, every item is published,
  and the threads end.

### Driver: lidar configuration
`call_back/livox_lidar_callback.cpp`, `comm/cache_index.cpp`, `lds_lidar.cpp`

- *State*: the table from lidars to slots, per slot the configuration, the bits of
  the settings that wait for an answer and the connection state.
- *Operations*: `LidarInfoChangeCallback`, `GetFreeIndex`, `GetIndex`,
  `GenerateIndexKey`, the four setting callbacks.
- *Interactions*: called by SDK threads; `connect_state` decides what
  the polling threads publish.
- *Hard*: answers in any order, lost (timed out) or refused; repeated and
  concurrent reports; two locked sections in `GetFreeIndex`.
- *Correct when*: lidars never share a slot; a configured lidar samples when, and
  only when, each of its settings was confirmed.

### Driver: framing of raw packets
`comm/pub_handler.{h,cpp}`

- *State*: one queue of raw packets, the points collected per lidar, the frame,
  the timer (`last_pub_time_`), one flag `is_timestamp_sync_`, `is_quit_`.
- *Operations*: `OnLivoxLidarPointCloudCallback`, `RawDataProcess`, `CheckTimer`,
  `PublishPointCloud`, `LidarPubHandler::PointCloudProcess`,
  `SetPointCloudConfig`, `RequestExit`, `Uninit`.
- *Interactions*: fed by the SDK's data thread, calls `Lds::StoragePointData`.
- *Hard*: two rules for cutting frames chosen by a flag that any lidar's packet
  sets; lost packets; lidars that gain or lose their time source; a clock that is
  looked at late.
- *Correct when*: every packet of points leaves in one frame and in order, frames
  keep the interval, and the thread ends when asked.

### Driver: configuration file
`parse_cfg_file/`, `lds_lidar.cpp`

- *State*: none of its own; it fills the slots and settings of the lidar table and
  the mounting offsets that `PubHandler` keeps.
- *Operations*: `ParseSummaryInfo`, `Parse`, `ParseUserConfigs`, `InitLivoxLidar`,
  `SetLidarPubHandle`; later the first report and the first packet of each lidar.
- *Interactions*: runs before the callbacks are registered; what it leaves behind is read
  by threads of the SDK.
- *Hard*: lidars named twice, without an address or beyond the last slot; one entry
  spread over two objects; an offset taken over once and for all; casts to 8 bits.
- *Correct when*: what is sent to a lidar and added to its points is what its last
  entry says, or the lidar is not configured at all.

### SLAM frontend
`lidarslam_ros2/scanmatcher/src/scanmatcher_component.cpp`

- *State*: the pose, the position of the last map update, `trans_`, the travelled
  distance, the map array, the flags `mapping_flag_` and `is_map_updated_`, the
  target of the registration, the mapping thread and its future.
- *Operations*: the callbacks for the initial pose, the cloud, the IMU and the
  odometry; `receiveCloud`, `publishMapAndPose`, `updateMap`, `publishMap`.
- *Interactions*: the callbacks (mutually exclusive) start and collect the
  mapping thread; the map array goes to the backend.
- *Hard*: the callbacks and the thread share variables without a lock; a
  movement noticed while a mapping is under way.
- *Correct when*: shared data is used in turns; clouds are aligned to the newest
  submaps; the map array only grows; the map keeps up with the robot.

### SLAM frontend: IMU undistortion
`scanmatcher/lidar_undistortion.hpp`

- *State*: a ring of 200 samples and the pointers `imu_ptr_front_`,
  `imu_ptr_last_`, `imu_ptr_last_iter_`.
- *Operations*: `getImu` for a sample, `adjustDistortion` for a cloud.
- *Interactions*: the callbacks for the IMU and for clouds, one at a time.
- *Hard*: the search for the samples around a point starts where the last one ended and
  only goes forward, while the times of points, which come from their azimuths, go back
  within a cloud and between clouds; the ring may lap that place meanwhile.
- *Correct when*: a point is interpolated between the two samples around it, or it is
  known which points may not be.

### SLAM backend
`lidarslam_ros2/graph_based_slam/src/graph_based_slam_component.cpp`

- *State*: the map array received last, two flags, the loop edges.
- *Operations*: the subscription, `searchLoop` (timer), `doPoseAdjustment`, the
  `map_save` service.
- *Interactions*: a reliable topic that keeps the last message.
- *Hard*: map arrays that are never delivered; loop edges of an old array in the
  graph of a new one; indices next to the end of the array.
- *Correct when*: its searches stay inside the array, its graphs are well formed,
  a loop is closed once, every map array or a newer one is searched.

### Octomap servers
`octomap/octomap_mapping/octomap_server`, `octomap/octomap_msgs`

- *State*: the occupancy tree, the box of the last scan, the projected 2D map, two
  parameters that change at run time, the latched topics; the changed keys (tracking
  server); one map per layer (multilayer server).
- *Operations*: `insertCloudCallback`, `insertScan`, `publishAll` and its hooks,
  `clearBBoxSrv`, `resetSrv`, `onParameter`, `openFile`, `trackChanges`,
  `trackCallback`, the services, `octomap_saver`, `octomap_server_static`.
- *Interactions*: clouds come in, topics and services go out; a listening server
  applies the changes of a tracking one; map files go from one server to the next.
- *Hard*: the map's size, its data and the indices written to it are computed apart;
  depth, mode, resets and scans in any order; change messages that are lost; restarts.
- *Correct when*: the projected maps show the tree, nothing is written outside of a
  map, the listener follows, a saved map comes back as it was.

### Octomap RViz displays
`octomap/octomap_rviz_plugins/src`

- *State*: the properties; selected points and points on display (grid display);
  the current map, its swatches and textures, the scene node (map display).
- *Operations*: `processMessage`, `update`, `updateTopic` and the other property
  slots, `onEnable`, `onDisable`, `reset`, `incomingUpdate`, `showMap`,
  `createSwatches`, `transformMap`.
- *Interactions*: the latched topics of a server; one user; a render loop.
- *Hard*: properties that change while a message waits; missing transforms; voxels
  hidden by neighbours of another size; maps cut into pieces.
- *Correct when*: what is on display is the surface, or the map, of one message, and
  comes to be that of the last one.

### Simulated car and lidar
`slam_car/src`, `livox_laser_simulation_RO2/src`

- *State*: velocity, pose and time of the last update (controller); the scan pattern,
  the place in it, the rays (lidar).
- *Operations*: the keyboard loop, `cmdVelCallback`, `jointStateCallback`,
  `publishOdom`; `Load`, `OnNewLaserScans`, `InitializeRays`, `UpdateRays`.
- *Interactions*: the odometry is the frontend's guess (`use_odom`); the scans are
  its clouds.
- *Hard*: commands between two joint states, a missing transform, an index that
  grows for as long as the simulation runs, bodies in any order.
- *Correct when*: the odometry's error is bounded by what happened between two joint
  states, the guess moves as the odometry, every direction is scanned in turn, a
  point is the nearest echo.

### Other parts
The conversions of `octomap_ros`, `ndt_omp_ros2` and `rapidjson` (vendored), launch
files and packaging. See section 8.

## 2. The modules

| Module | Models | Extends or instantiates |
|---|---|---|
| `FrameFifo` | abstract: a bounded FIFO that may refuse a frame only when full | |
| `LidarQueue` | the lock-free ring buffer | implements `FrameFifo` |
| `QueueSizing` | how large a queue is made | |
| `MCLidarQueue` | the ring with the size `QueueSizing` computes | `LidarQueue`, `QueueSizing` |
| `DriverPipeline` | both channels: receiving, semaphores, polling, shutdown | |
| `MCDriverPipeline` | which lidars and channels have data | `DriverPipeline` |
| `LidarStartup` | the configuration file, up to the first reports and points | |
| `MCLidarStartup` | the files that are checked | `LidarStartup` |
| `LidarConfig` | slots and settings, from the reports on | |
| `PointFrames` | abstract: each packet of a lidar leaves in one frame, in order | |
| `PubHandler` | the packet callback and the processing thread | implements `PointFrames` |
| `MCPubHandler` | a bound on the packets of each lidar | `PubHandler` |
| `SubmapStream` | abstract: a map array that only grows and is published in steps | |
| `ScanMatcher` | callbacks and mapping thread of the frontend | implements `SubmapStream` |
| `GraphSlam` | the backend, composed with the frontend's promise | instantiates `SubmapStream` |
| `Octree` | external: the tree of the octomap library | |
| `OctomapServer` | the plain server, saver and static server | `Octree` |
| `TrackingOctomapServer` | the tracking server, the topic and the listener | `OctomapServer` |
| `OctomapServerMultilayer` | the layers | `OctomapServer` |
| `OctomapNodes` | the servers as launched, and what they promise | both of these |
| `MCOctomapNodes` | the launches that are checked | `OctomapNodes` |
| `DisplayTopic` | external: topic and subscription of an RViz display | `Octree` |
| `OccupancyGridDisplay`, `OccupancyMapDisplay` | the two displays | `DisplayTopic` |
| `OctomapDisplays` | one of them on a server's topic, and its properties | both displays |
| `MCOctomapDisplays` | the messages and settings that are checked | `OctomapDisplays` |
| `SlamCar` | keyboard, controller and odometry | |
| `OdomPrediction` | the frontend's guess from the odometry | `SlamCar` |
| `LivoxPointsPlugin` | the simulated lidar | |
| `LidarUndistortion` | the IMU ring and its search | |
| `RobotInputs` | the three inputs of the frontend, and their properties | the last three |
| `MCRobotInputs` | the pattern, bodies and clouds that are checked | `RobotInputs` |
| `SlamProofs` | the theorems about `GraphSlam` and `RobotInputs` | both, `TLAPS` |
| `OctomapProofs` | the theorems about `OctomapNodes` and `OctomapDisplays` | both, `TLAPS` |
| other `*Proofs` | the theorems about the module they are named after | the module, `TLAPS` |

The components are composed through what they promise. `LidarQueue` shows
that the ring is a FIFO, so `DriverPipeline` counts the items of a queue.
`ScanMatcher` shows that its map array is a `SubmapStream`, and `GraphSlam` runs
against that stream: it is correct behind any frontend that keeps the promise.
`LidarStartup` ends where `LidarConfig` begins: with the slots of the file filled before
any report. `LidarConfig` decides when a lidar samples, and nothing stops one again:
`DriverPipeline` has the single action `StartSampling`. `OdomPrediction` runs the
frontend's guess on the odometry `SlamCar` publishes. A listening and a tracking
server, and a server and the map files it leaves to the next one, are composed in
`OctomapNodes`; the displays run against any sequence of a server's messages.

Variables keep the names of the members they stand for (`rd_idx`, `mapping_flag`,
`is_timestamp_sync`, ...). `*_pc` variables say where a thread or a callback is.
Variables marked *history* in the declarations are read by properties only.
Definitions preceded by `Mutant:` are wrong variants of the definition that
follows, which the checks must tell apart from it; no specification uses them.

**LidarQueue.** A store to a slot, its index and the lazy creation are separate
steps, and a frame has two parts (header and points) that are copied separately,
so a half-written slot can be seen. An index is taken modulo `IndexRange` (2^32 in
the code) and masked into the buffer. The stores of a thread are seen by the
other in program order: the code has no fences, and this is what the hardware it
is built for (x86-64) gives.

**DriverPipeline.** One receiving thread per channel: `PubHandler`'s processing
thread for point clouds, the SDK's data thread for IMU samples. `CheckEmpty`,
`CheckCount` and `Signal` are the separate accesses of `PushLidarData`. The inner
loop of the publishers does not look at the exit request. `PublishPclMsg` returns
without taking an item in the ROS 2 build. A full point-cloud queue drops the new
frame and still signals. The destructor sets the flag and the promise, then joins.

**LidarConfig.** The device table lives in a function-local static object and is
zero-initialised, so a slot that is not configured has the value 0 for each
setting, which the code takes for a value (-1 stands for "not set"). Callbacks may
run on any number of SDK threads; what happens between two lock operations is one
step. A setting that timed out is sent again and changes nothing.

**LidarStartup.** One action per step of `InitLdsLidar`: the summary, each entry parsed,
the SDK, each slot filled, the two registrations. `UserConfig` casts each setting to
8 bits, `PointOffset` divides the offset by ten for data in centimetres. A file is its
entries; one coordinate stands for the mounting. `ReportKnown` sends the values of the
slot and `PointsArrive` takes the kept offset over once. *history*: `sent`.

**PubHandler.** A packet is its number and the times of its first and last points.
The flag is set when a packet arrives and read when an older one is processed. The
packets that are lost or of an unknown type, and the lidars that find or lose
their time source, are bounded by `MaxFaults`. The unsigned difference of
`CheckTimer` is modelled as wrapping (`LongEnough`).

**ScanMatcher.** The robot moves on a line and the registration may find any
position. `previous_position_` is not initialised by the constructor and may have
any value. `receiveCloud` and `publishMapAndPose` are split where they meet the
mapping thread's data; `updateMap` has one step per shared variable it touches.

**GraphSlam.** Callbacks, timer and service of the node are mutually exclusive
(one callback group) and each is one action. The topic holds at most one map
array. Whether a candidate becomes a loop is left open (registration score).

**OctomapServer.** The tree is a function from voxels to log-odds; its nodes follow
from it (`Leaves`, `Pruned`), because the library prunes eagerly. Each callback is one
action: the node spins in one thread. Every handler but `resetSrv` ends with
`PublishAll`, which is `publishAll` with its hooks in order: the size of the map
(`GridInfo`), the old data in the new size (`Adjusted`), the box of the incremental
mode, then one write per leaf. When an end of the padded area has no key (the tree has a
voxel at an upper edge of the space, or the padding reaches over an edge: not `HasKeys`)
`handlePreNodeTraversal` returns early (1160-1173): `PreTraversal` then keeps the grid, the
scale and `project_complete_map_`, but the key of the lower end has moved
(`Displaced`), and the leaves are written by it if the map before was drawn whole. A topic
is published when it is latched or has a subscriber: `params.topics` are those of a
launch. `Cleared` sets every leaf that reaches into the box as a whole, as
`clearBBoxSrv` does. `max_depth` is at least 1, and the sensor stands in the space. The map keeps the layout of the code, an origin, a
width and a row-major array; every write is an index into it, and an index outside
of it ends in `health = "stray"`, a failed assertion in `"aborted"`. Rays go
along the line between two voxels with integer division (the library's own
ray is external); a coordinate is a voxel. `GroundOf` is any set of points a plane
filter may return.

**TrackingOctomapServer.** `changed` are the keys of the library's change detection
with its creation flag; a message is kept back until more than `min_change_pub`
keys changed; `wire` is a topic of depth one. *history*: `missed` are the voxels whose
change no message told, because it was overwritten, or was made by a service, a file
or a restart, which the change detection does not see.

**OctomapServerMultilayer.** The hooks of the subclass around the same handlers. A
layer's data are its own, the indices are the base class's.

**OccupancyGridDisplay, OccupancyMapDisplay.** `processMessage` and `update` are
separate actions of the user interface's thread, with the user's commands and new
messages between them. Whether the transform of a frame is there is left open each
time it is looked up. A subscription that asks for latched messages gets the last
one again. The map display's swatches are cut by the code's arithmetic. Its update topic
is a subscription of its own, which `updateMapUpdateTopic` makes for a disabled display
too. `WithUpdate` copies the first row of an update to each of its rows, as the code does.

**SlamCar, OdomPrediction.** Angles are quarter turns, time is in steps. The odometry
is integrated from commands, as in the code, not from the wheels, and only over times
that passed (`Driven`). A pose of the
frontend is a heading, so the identity is 0: the guess treats it as "no transform".

**LivoxPointsPlugin.** A direction is its index in the pattern. `IntMax` is the largest
value of the loop variable; the order of the bodies is any.

**LidarUndistortion.** A sample is the number it arrived with; the three pointers move
as in the code. `imu_time_` is not initialised by the code: an unwritten slot may hold
any time of `Unset`. Clouds and their points have any times, in any order; a cloud without
points is left out (the code would read its first). *history*: `reached`, the latest
time looked up so far; `lapped`, whether the ring dropped the sample the search is to
start from and it has not moved on since.

## 3. The runs

Ten runs must find no error; two more (`scan_matcher_spacing`,
`lidar_startup_blind_spot`) must find the disagreements of section 7.

| Run (distinct states) | Instance | What it shows |
|---|---|---|
| `lidar_queue` (135,349) | 3 frames, 3 frames asked for (4 slots), 3-bit indices | The ring is a FIFO; threads never share a slot; no torn packet |
| `driver` (324,160) | both channels of 1 lidar, or point clouds of 2; 2 slots, 1 IMU sample | No lost wake-up, at most one pending; items are published, for a lidar the round has passed too; polling ends or parks |
| `lidar_startup` (23,421) | 402 files of up to 3 entries, 3 lidars, 2 slots, 2 settings | Settings sent and offsets of points come from the last entry, or the lidar is not configured |
| `lidar_config` (67,275) | 3 lidars, 1 configured, 2 slots, 2 settings, 2 SDK threads, 4 reports | Slots stay apart; sampling is configured; configured lidars sample |
| `pub_handler` (1,557,680) | 2 lidars, 1 fault, queue of 2 packets | Packets leave once and in order; frames are on time; the thread ends |
| `scan_matcher` (90,948) | 3 positions, 3 submaps, 2 of them targeted | Callbacks and thread take turns; the stream is kept; the map keeps up |
| `graph_slam` (243,027) | 2 positions, 5 submaps, steps up to 2 | Searches stay inside; graphs are well formed; every map is searched |
| `octomap` (143,644) | 4 x 4 x 4 voxels, 5 clouds, 7 launches | Maps show the tree; no write goes astray while the area has keys; the listener follows; saved maps return |
| `octomap_displays` (42,654) | 5 trees of up to 28 voxels in a space of 128, 2 messages, 2 commands | One message's surface; settles on the last one; the picture is that of the map in memory; swatches cover it; no obstacle lost |
| `robot_inputs` (1,314,276) | 3 clock ticks and 3 clouds; 5 directions, 3 bodies, 9 scans; a ring of 4 | Bounded heading error; guess as odometry; pattern covered; nearest echo; samples around each point |

Why the bounds are enough, and what each makes happen:

- `lidar_queue`: with 3-bit indices and 4 slots an index wraps after eight frames,
  two rounds of the buffer, so every slot is reused before and after the wrap; the
  queue becomes full and empty. Asking for 3 frames exercises the rounding up.
- `driver`: capacity 2 lets a queue be empty, neither and full. Two channels with two
  lidars each are out of reach in minutes; the channels meet only in the shutdown, so
  `MCDriverPipeline` chooses the sources at the start: both channels of one lidar, or
  the point clouds of two. Custom messages pass the same loop as `PointCloud2` and are
  left out there. `DriverPipelineProofs` has the safety part for any number.
- `lidar_startup`: three entries repeat a lidar around another one, skip an entry without
  an address, or overflow two slots; lidars outside the file take slots after it. Blind
  spots of 100 and 200 are on either side of the cast, offsets of 15 and -15 mm do
  not divide by ten and show the rounding.
- `lidar_config`: three lidars for two slots make the table overflow; two threads
  make two reports of the same lidar overlap; four reports leave room for a second
  report between the answers to the first.
- `pub_handler`: a millisecond is three ticks, a packet two, the interval two
  milliseconds, and the first packets start off the boundary, so a packet's end falls
  on each position in a millisecond and two packets may end in one. The first lidar
  sends enough packets for two frames. The single fault may be a lost packet,
  an unknown one, or a change of the time source.
- `scan_matcher`: three submaps are needed for a target (of two) that leaves one out.
  Positions on a line suffice: only distances are compared.
- `graph_slam`: five submaps let the search be cut off below, and two loops be
  closed. `SearchSubmapNum * MaxStep <= DistanceLoopClosure` holds; where it
  does not, `NearSubmapsExist` fails (section 7).

- `octomap`: one launch for each question, because servers differ in their parameters,
  not in their state: the map at two depths and with a range limit, the ground
  filter, the incremental mode at two depths, map files, a tracking server that sends at
  once and at two depths, one that keeps changes back, the layers at two depths. Log-odds have three values
  (-1, 0, 1), so a voxel meets both clamps and the threshold. Two clouds lie on either
  side of the origin, one has a single ray, one (`MCCloud3`) ends in the uppermost voxels,
  so that the area has no keys and `handlePreNodeTraversal` returns early, one (`MCWall`) fills a block
  of eight voxels, which is drawn as one leaf, so the map grows to either
  side and shrinks only by a reset; blocks of eight voxels become equal and are pruned.
- `octomap_displays`: a 3 x 3 x 3 block has an enclosed voxel, and a free voxel at one face
  opens it when free voxels are not shown; at depth 6 eight voxels are one. Textures
  of 32 cells make maps of 123 x 6 and 40 x 60 cells be cut into 8 and 4 swatches whose
  sides do not divide them. Two messages and two commands let each fall between the
  taking, the processing and the rendering of another.
- `robot_inputs`: with the pattern of five, sample counts of 2, 3 and 6 wrap round it
  evenly and unevenly; an int that ends at 15 overflows within nine scans; three bodies hide each
  other in part. A ring of four laps the search while clouds wait; the points of two of
  the three clouds go back in time, a cloud may start before the last one ended, and the
  unwritten slots hold a time later than most. Two keys give
  every change of a velocity between two joint states.

`CHECK_DEADLOCK FALSE` is used in `octomap_displays` and `robot_inputs`, because messages,
commands, clock and scans are bounded, and where the system may stop: in
`lidar_startup`, because a failed start goes no further, in `lidar_config`, because the
reports are bounded and all of them may have been answered, and in `pub_handler`,
because the handler is finished after `Uninit`.

`FramesOnTime` speaks of lidars that were synchronised from the start and lost no
packet, packets no longer than a millisecond and an interval of whole milliseconds.
`MapsShowTree`, `StaysUp` and `IncrementalKeepsRest` speak of trees whose padded area has
keys (`HasKeys`): for any other the code reports an error, keeps its old map and may write
leaves into other cells of it or behind its data, and so does the model.
`MapsShowTree` and `StaysUp` excuse a map of a coarser depth when a leaf is larger than
its cells (`CellsHoldLeaves`, section 7); the layers are excused at the full depth as well,
where the multilayer server walks over more of a large leaf than its own. `BinaryMapCurrent`
excuses a tree of one node, which `publishAll` takes for an empty one. `StaysUp` is
stated for servers that keep no changes back and, in the incremental mode, for scans
whose box has two columns and two rows in the map (`BoxCoversCells`; the others fail an
assertion, section 7), `IncrementalKeepsRest` for the full depth, the only one at which a map is
drawn in parts.
`PictureIsCurrent` compares the picture with `current_map_`, not with what was received:
after an update of several rows the two differ (section 7).
`PointsBracketed` has two exceptions, for the slot a search starts in: a point that is
earlier than one looked up before (`late`), and a search the ring has lapped (`lapped`),
until it moves on. Without either exception the run finds it violated.
`EveryItemPublished` and `NoLostWakeup` speak of items that were pushed while the
lidar was sampling: the code leaves older ones in the queue without a wake-up
until the next push.

Every property has a mutant (PROJECT.json): a plausible error in one definition
that makes it fail in the same run. The inductive invariants `ConfigInv`, `BackendInv`
and `FrontendInv` are checked by the runs, with what follows from them
(`SamplesAsConfigured`, `EdgesJoinNodes`, `OneMappingThread`, the types). Those of the
other components (`QueueInv`, `PipelineInv`, `StartupInv`, `HandlerInv`, those of the
octomap servers and of the robot's inputs) are proved, with the types, `ThreadsApart` and
`LastEntryCounts`; the runs check what they are there for.

## 4. Fairness

- `DriverPipeline`: weak fairness of a receiving thread inside a push, of each
  polling thread and of the destructor once it has begun: threads that can run are
  run. Arrivals, lidars that start and the node's destruction are not assumed.
- `LidarConfig`: a callback that runs ends; an answer comes at last, because the
  code sends a setting that timed out again without a limit. Confirmed and
  refused are one alternative: neither is promised.
- `PubHandler`: the processing thread runs; its wait ends after half a second.
- `ScanMatcher`: a cloud's callback and the mapping thread run on. Clouds need
  not come: `MapKeepsUp` has their repeated arrival as its premise.
- `GraphSlam`: the reliable topic delivers what it keeps, and the timer fires.
- `OctomapDisplays`: the user interface processes a message that was taken, and renders:
  RViz's event loop does both for as long as it runs. Messages, commands and
  transforms are not assumed.

No run assumes strong fairness or that the environment is helpful.

## 5. What is proved

Each theorem holds for every value of the constants that satisfies the named
assumptions of its module; five have a premise more, named with them. The argument is
the same in each proof module: an inductive invariant holds initially, is kept by every
action (one step per action), and implies the property; the last step is temporal.

**LidarQueueProofs** (from `QueueAssumption`: the index range is a multiple, at least
twofold, of the size). `QueueInv` says what each thread has established: between its
test for room and its index update the pushing thread has `QueueUsedSize < Size`, the
polling thread has `QueueUsedSize > 0`, unread slots are whole, local copies agree
with the slot. Without it, `ThreadsApart` is not inductive: a full or empty
queue would make the two slots equal. Theorems: `TypeCorrect`, `QueueInvariant`,
`ThreadsStayApart`, `PacketsAreWhole`, and `QueueImplementsFifo` (every step
maps to a step of `FrameFifo` or to a stutter).

**DriverPipelineProofs** (from `PipelineAssumption`). `PipelineInv` says that a live
item is always covered: a signal is on its way or pending, the polling thread has
still to visit the lidar in this round, or it will not wait again. The polling
thread alone lowers the count, so a signal that was decided on at zero still finds
zero. Theorems: `PipelineInvariant`, `PipelineTypeCorrect`, `AtMostOneWakeUp`,
`NoWakeUpIsLost`.

**LidarConfigProofs** (from `ConfigAssumption`). `ConfigInv` adds that a configured
lidar keeps the slot it was given, that a lidar without a slot was sent nothing, and
that each setting of a lidar that was sent any is waited for or confirmed. Theorems:
`ConfigInvariant`, `ConfigTypeCorrect`, `SlotsStayApart`, `SamplingIsConfigured`.

**LidarStartupProofs** (from `StartupAssumption`). The properties compare the running
driver with the file, so `StartupInv` links them step by step: `Parsed` says that the
last parsed entry of each lidar is the last of the entries read so far, `Filled` that
each lidar has the settings and the offset of its last entry filled so far, or no
entry, or found no slot when all were taken (and slots are never freed),
`PointsInv` and `SentInv` that threads of the SDK see only what was filled. Theorems:
`StartupInvariant`, `StartupTypeCorrect`, `NeverByHalves`, `LastEntryOfEach`,
`OffsetFromTheStart`, `SettingsAsWritten`.

**PubHandlerProofs** (from `HandlerAssumption`). `HandlerInv` says that the points
collected for a lidar carry the numbers after those framed, that the packets under
way (processed, queued, being queued) carry the numbers after those, in order and
without a gap, and that frames cut by the timer are paid for by elapsed time.
`TimeInv` adds, for a lidar that misses nothing, which boundary of the interval its last
frame ended at: a boundary falls into one packet only, and that packet cannot be
passed without cutting the frame. Theorems: `HandlerInvariant`, `HandlerTypeCorrect`,
`RateIsBounded`, `HandlerImplementsFrames`, and `FramesAreOnTime`, with the premise
`WholeMilliseconds` (the interval is whole milliseconds, as `publish_freq` values that
divide 1000 make it, and a packet covers at most one).

**ScanMatcherProofs** (from `FrontendAssumption`). `FrontendInv` ties `mapping_flag_` to
the thread's existence and `is_map_updated_` to its end, and says at each point of
the thread what the targeted cloud, the map array and the distance are. Theorems:
`FrontendInvariant`, `FrontendTypeCorrect`, `TargetIsNeverRaced`, `TargetIsUpToDate`,
`MappingThreadsAreOne`, `FrontendImplementsStream`.

**SlamProofs, the backend** (from `BackendAssumption`). `BackendInv` says that the arrays
under way are prefixes of the frontend's, in order of age, that loop edges lie in the
array received last, and that n steps of the array cover at most n times `MaxStep`.
Theorems: `BackendInvariant`, `BackendTypeCorrect`, `PoseGraphIsWellFormed`,
`LoopsCloseOnce`, and `SearchStaysInArray`, which has the additional premise
`StepsShort` (section 7).

**SlamProofs, the inputs of the frontend** (from `SpeedAssumption`, `CorrectionsAssumption`,
`LidarAssumption`, `RingAssumption`). `InputsInv` has one part for each. `CarInv` bounds
the error of the heading by what the commands changed since the joint state before
(`OdometryHeading`). `GuessInv` says that the transform that is kept is the odometry at
the last cloud, or the identity where there was none (`OdometryGuess`). `LidarInv` says
which directions the scans so far came by: those from the start of the pattern to the
place in it, as often as the index has wrapped (`ScansCoverPattern`); and that the nearest
body collided so far is the one kept, by induction over the order of the bodies
(`NearestBodyEchoes`).

`PointsAreBracketed` has an invariant of its own, `ImuInv`. `RingOK` says that the ring
holds the newest samples in the order they arrived; `Startable`, that unless the ring
has lapped the search, the sample before the slot a search starts from is still there and
not later than the latest time looked up. Without the second part, a search that stops in
its first slot would say nothing of the sample before it. The invariant is kept by induction
over the slots a search walks through and over the points of a cloud. The premise
`TimesInAnyOrder` asks for integers as times and for clouds that are not empty, and for no
order: points that go back in time and rings that lap the search are covered, and the
property says what holds of them (a search of which neither is true is bracketed, and so is
every search that moved on from its first slot).

**OctomapProofs, the servers** (from `ClampAssumption`: log-odds are clamped around the
threshold; `DepthAssumption`; `SensorModel`; `LaunchAssumption`: the sensor stands in a voxel
of the space and the depths that are set are at least 1, as their parameter's range has
it, and at most the tree's).

- *The listener and the file.* `ListenerFollows` alone is not inductive: it says nothing of a
  voxel whose change waits, and when the voxel changes back its key is taken out of the
  set. The invariant `TrackingInv` therefore says of every voxel that is not `missed`
  what the listener will know once the message under way arrives: the voxel as it is
  when no change waits, as it is *not* when a change (that is no creation) waits. This
  holds for every space, sensor model, set of clouds and `min_change_pub`, whatever is
  lost. `FileInv` says that the file holds the occupancy it was saved from and is
  written only when some server loads it. Theorems: `ListenerAlwaysFollows`,
  `SavedMapAlwaysReturns`.
- *The tree.* Lemmas give, for every depth, the blocks and corners of the tree, its
  leaves (each voxel has one, and its value is the largest in its block) and the steps
  that keep all voxels inside the space, rays included. With `OutInv`, that the last
  publication was of this tree, follows `BinaryMapIsCurrent`.
- *The map.* The map spans all voxels (`MapArea`), so each voxel has a column and a row, and
  row times width plus column finds exactly the voxels above a cell (`MapIndex`). A leaf
  of a cell's size is written to the cell of its voxels, a larger one at the full depth
  to exactly the cells below it (`OneCell`, `FineCells`); so drawing all leaves into a
  blank map gives the projection (`Painted`). `MapInv` and `LayersInv` say that the
  published maps were drawn like this, for trees whose padded area has keys (`HasKeys`); for
  another the code keeps the map it has, and nothing is said. Theorem: `MapsAlwaysShowTree`.
- *No stray index.* The same lemmas, with `QuietInv` (a tracking server that sends at
  once keeps no key back), `BoxInv` (the box of the last scan has whole corners) and
  `FreshInv` (a map without cells is the one of the launch, so that it is never cleared in
  parts). Theorem: `NodesStayUp`, for both modes and with the excuses that `StaysUp`
  itself has (section 3); its premise `ArmsKnown` asks for the transforms of the arms where
  the server is a multilayer one.
- *The incremental map.* `GridInv` says that the map that is kept lies within the area of
  the tree, whose area only grows between resets (`AreaGrows`), and has one entry
  for each of its cells. So `adjustMapData` copies every cell of a map that has any to
  its place (`MovedKeeps`), and does not meet the case it does not implement (1408-1413). Theorem:
  `IncrementalAlwaysKeepsRest`, of the steps after which the tree's area has keys.

**OctomapProofs, the displays** (from the same facts about the tree, `MessagesAssumption`:
a message's tree maps keys to log-odds; `SettingsAssumption`; `MapDepthsAssumption`: the
depths set on the map display are between 1 and the tree's; `TextureAssumption`: the graphics
card takes textures of 32 cells, where OpenGL asks for 64).

- *The voxels.* `VoxelsInv` says that the points that wait and the points on display were
  each selected from one message under one choice of the properties, whatever came in
  between. What is left is a fact about the selection: the code looks up the keys in front of
  each face of a leaf, one in every row of blocks, and leaves the leaf out when it finds them
  all. `LookedUp` shows that these keys meet every block in front of the face, so the leaves
  that are kept are those with an open face (`SelectedIsSurface`). Theorem:
  `ShowsOneSurfaceAlways`, with the premise `ClearOfEdge`: the voxels stay one block away
  from the edge of the space, where the keys of neighbours wrap around.
- *The swatches.* `createSwatches` walks over the map by a running position and a remaining
  size. `WalkIs` gives the walk in closed form, a product of columns and rows. `Halvings`
  bounds the sizes it tries: each halving loses less than a cell per cut, and as a texture takes
  32 cells, a side that does not fit is long enough for its half to have as many cells as there
  are cuts. So the rest is shorter than a swatch and the last one takes it, and every
  cell is in exactly one swatch (`SwatchesCover`); `PictureInv` adds that
  the swatches, the textures and the place are those of `current_map_`. Theorem:
  `PictureIsAlwaysCurrent`.
- *The obstacles.* The occupied cells of the projection are the cells of the occupied voxels
  (`ObstacleCells`); the origin that is shifted differently in x and y (section 7) and the rounding
  to cells together cost at most two cells (`AlongAxis`). Theorem: `ObstaclesAlwaysDrawn`.

To check a proof again: `tlapm <module>Proofs.tla`.

## 6. What is only model-checked

- Liveness: `EveryItemPublished`, `ExitEndsOrParks`, `MapKeepsUp`, `MapIsSearched`,
  `ConfiguredSamples`, `ThreadEnds`, `SettlesOnCurrent`. The prover handles neither ENABLED nor
  properties under fairness.
- `QueueSizing`: powers of a symbolic exponent are beyond the prover's arithmetic; the
  run evaluates `QueueAssumption` for the size it computes.

## 7. Disagreements between the code and what is said of it

The first two are each the counterexample of one run.

1. `scan_matcher_spacing` / `SubmapsSpaced` (`scanmatcher_component.cpp:463`). The
   mapping thread adds `trans_`, which later callbacks have overwritten, to the
   travelled distance; README:84 calls `trans_for_mapupdate` the moving distance
   between map updates. The distances of the map array, which the backend compares
   with `distance_loop_closure`, are too small.
2. `lidar_startup_blind_spot` / `BlindSpotAsDocumented` (`parse_livox_lidar_cfg.cpp:88`).
   The blind spot is cast to an 8-bit signed integer, although its field has 32 bits
   and the driver's README:247 gives the range 50 cm to 200 cm: 200 is sent as -56.

Seen in the models, whose definitions follow the code, without a run of their own:

- Backend: with updates far apart, or a large `search_submap_num`, the loop search
  reads past the end of the submaps (`graph_based_slam_component.cpp:208`): with three
  positions a step and three submaps on either side `NearSubmapsExist` fails. Nothing
  relates the parameters; `StepsShort` is what a configuration must satisfy.
- Backend: the first `num_adjacent_pose_cnstraints + 1` nodes of a pose graph have no edge
  between them (`graph_based_slam_component.cpp:291`), against README:121.
- Driver: the points of a lidar without an entry keep the built-in transformation, whose
  second row is (0, 1, 1) and not (0, 1, 0) (`pub_handler.h:67`): y becomes y + z.
  `PointsPlacedAsWritten` shows that lidars with an entry never get it. The offset of an
  entry is scaled for the data type it asks for (`lds_lidar.cpp:163`), not the one the
  lidar's packets have.
- Driver: a lidar without an entry in the file is sent zeroed settings at its second
  report (`livox_lidar_callback.cpp:55`).
- Octomap, incremental mode: `handlePreNodeTraversal` clears the cells of the update box
  (`octomap_server.cpp:1260-1265`), and the hooks that should fill them again test
  `project_complete_map_` (1291-1303): the map forgets what it knew there, against
  `octomap_server.hpp:197-205`. `IncrementalKeepsRest` is about the rest of the map.
  The code asserts that the box of a scan spans more than one column and more than one row of
  the map (1244-1245); a scan along one column or row has a box that does not, and a node
  built with assertions aborts.
- Octomap, edge of the space: when a corner of the padded area of the tree has no key, z
  included, `handlePreNodeTraversal` reports an error and returns (`octomap_server.cpp:1160-1173`).
  A tree with a voxel in the topmost layer is enough. The map keeps its size and data, its
  header has already the new time, and, if the lower corner has a key, `padded_min_key_` has
  already moved; `project_complete_map_` and the scale are those of the map before. If that
  was complete, the leaves are then written into the old cells with the new corner, shifted or
  behind the data (`stray`). The run reaches this; the properties with `HasKeys` leave it out.
- Octomap, coarser depth: `update2DMap` (1316-1320) covers a part only of a leaf that is
  larger than a cell, and at the left edge the unsigned difference of `mapIdx`
  (`octomap_server.hpp:219-224`) wraps.
- Octomap: `resetSrv` leaves the full map, the points and the projected map on their
  latched topics. A map pruned to one node counts as empty (629-634). A file in the
  `.ot` format replaces the sensor model set by parameters (353-364).
- Tracking server: with `min_change_pub` above 0, a reset leaves changed keys without a node,
  and `trackChanges` dereferences the null pointer (`tracking_octomap_server.cpp:87-89`).
  The listener is told neither a loaded map nor a cleared box nor a reset.
- Grid display: a message that selects nothing leaves the old points on display, and
  `clear` keeps the points that wait for the next rendering, which then appear. The
  16-bit keys in front of a face wrap around at the edge of the space (472-477), where the
  model's do as well: a leaf there is looked up on the opposite side of the space, and a face
  whose end no key reaches is walked along for ever when its row has no gap.
- Map display: `updateMapDataInMemory` copies the first row of an update to each of its
  rows (`occupancy_map_display.cpp:374-383`), so the picture is of a map nobody sent; a
  display that is disabled subscribes to the updates when their topic is set
  (662-668), and takes them; the origin is shifted differently in x and
  y (715-716); a missing transform hides the map until swatches are shown again.
- Car: the keyboard publishes nothing when no key is pressed and `cmd_vel_timeout`
  (`custom_slam_controller.cpp:15`) is not used, against `slam_car/README.md:70`, by which
  the robot stops when a key is released; the help names J and K, the code takes J and L;
  the terminal is restored from a structure nobody has filled.
- Simulated lidar: the loop index is an `int` that a 64-bit index overflows
  (`livox_points_plugin.cpp:231`); an empty pattern is divided by; each point is twice in
  the cloud (184-194).
- IMU: a cloud is not corrected when the newest sample is in slot 0
  (`lidar_undistortion.hpp:155`). A search never goes back: a point that is earlier than one
  before it is extrapolated from the slot the search starts in, as is one whose samples
  a lap of the ring has replaced. A search that stops at the first sample takes the slot
  before it as its predecessor, whose time nobody has set (239). An empty cloud is not
  tested for before its first point is read.
- Odometry guess: the identity stands for "no transform"
  (`scanmatcher_component.cpp:333`), so the first motion is not used.

Observed while reading, without a run: several defaults in `lidarslam_ros2/README.md`
differ from the code (`search_submap_num` 2 and 3, `vg_size_for_map` 0.05 and 0.1,
`scan_min_range` 1.0 and 0.1); CHANGELOG.md:33 of the driver gives the publishing
range as up to 10 Hz where the code clamps at 100; the second row of the default
rotation at `pub_handler.h:67` is {0, 1, 1}.

## 8. What is not modelled, and why

- Coordinates, extrinsic parameters, message contents, file formats: no step that
  is modelled depends on them.
- `DeInitQueue` and `ResetQueue`: called only when the process ends.
- An invalid `data_src`: a constructor branch without concurrency.
- Registration (`ndt_omp_ros2`) and pose optimisation: numerical; the modules let
  them return anything.
- tf lookups of the frontend, the path, the map published for display, the
  optimised map: no other step reads them.
- Restart of the frontend alone: the launch file restarts no node.
- The text of the JSON file and values of the wrong type, the angles of the mounting, the
  point conversions: pure functions of their input.
- Octomap servers: colours, markers of free space, `heightMapColor`, the parameters of the
  sensor model and of the filters at run time, the colour build. `isSpeckleNode` is never
  reached (its condition asks for a depth below the deepest). The ground filter
  that reports that it quits (`octomap_server.cpp:448`) and goes on is modelled as
  going on.
- A multilayer server without the transforms of the arms: its layers have no data when
  they are written to; the run gives it the transforms (`ArmHeights` non-empty).
- RViz displays: colours, palettes, alpha, textures' contents beyond the map they are
  filled from. Depths of the map display above the tree's, and depth 0, which stands for the
  full depth in the walk over the leaves only (the property has neither a maximum nor a
  minimum, `occupancy_map_display.cpp:149-154`). The octomap library, RViz and Gazebo are external and modelled from
  their use.
- The wheels' joint commands; the angles of the scan pattern.
- Vendored libraries, launch files: not the program's own logic.

## 9. Order of the work and what is left

Done, in this order: queue, pipeline, configuration, frontend, backend, framing,
octomap servers, displays, car, simulated lidar, IMU ring, configuration file. The
order follows the data, with the concurrent parts first.

Left: a proof that `LidarQueue` and `DriverPipeline` compose (the pipeline counts the items
of a queue that the queue's theorems describe); liveness, which stays with TLC (section 6).

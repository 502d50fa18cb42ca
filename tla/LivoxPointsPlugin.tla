-------------------------- MODULE LivoxPointsPlugin ---------------------------
(***************************************************************************)
(* The simulated lidar of livox_laser_simulation_RO2, a plugin of Gazebo:  *)
(* it reads the scan pattern of a lidar from a file, and at every scan it  *)
(* points its rays along the next part of the pattern and has them         *)
(* collided with the bodies of the world, in the order the physics engine  *)
(* keeps them.  A direction is its index in the pattern.                   *)
(***************************************************************************)
EXTENDS Integers, Sequences, SequencesExt, FiniteSetsExt

CONSTANTS
  PatternFiles,     \* the files a plugin may be given: the kind of each line
                    \*   after the header, or NoPattern for no such file
  SampleCounts,     \* "samples" of the sensor's description
  DownSamples,      \* "downsample"
  MinRange, MaxRange,
  Bodies,           \* what there is to hit: what it reflects, and how far along
                    \*   the ray of a direction it is hit, when it is
  IntMax,           \* the largest int
  MaxScans          \* bound: scans

ASSUME LidarAssumption ==
  /\ \A file \in PatternFiles : file \in Seq(STRING)
  /\ SampleCounts \subseteq Nat
  /\ DownSamples \subseteq Int
  /\ MinRange \in Nat /\ MaxRange \in Nat /\ MinRange <= MaxRange
  /\ IsFiniteSet(Bodies)
  /\ \A b \in Bodies : \A d \in DOMAIN b.depth : b.depth[d] \in Nat
  /\ IntMax \in Nat

VARIABLES
  plugin,           \* "new", "idle" (no pattern), "loaded" or "stray" (bad index)
  aviaInfos,        \* the directions read from the pattern
  samplesStep, downSample,
  rays,             \* the rays of the ray shape
  currStartIndex,   \* 64 bits: does not overflow
  points,           \* the last scan: direction, range and reflectivity
  scans,            \* how many scans there were
  seen              \* history: the directions scanned so far

lidar_vars == <<plugin, aviaInfos, samplesStep, downSample, rays,
                currStartIndex, points, scans, seen>>

NoPattern == <<"missing">>

LidarInit ==
  /\ plugin = "new"
  /\ aviaInfos = 0
  /\ samplesStep = 0 /\ downSample = 1
  /\ rays = 0
  /\ currStartIndex = 0
  /\ points = <<>>
  /\ scans = 0
  /\ seen = {}

(* ReadCsvFile drops lines that are no numbers, convertDataToRotateInfo    *)
(* lines that are not three.                                               *)
RotateInfos(file) == Cardinality({i \in DOMAIN file : file[i] = "three numbers"})

(* The rays are as many as there are samples, every downSample-th of them. *)
RayCount(samples, down) == (samples + down - 1) \div down

(* Load.  A pattern without directions has no first one to point a ray at. *)
Load(file, samples, down) ==
  /\ plugin = "new"
  /\ plugin' = IF file = NoPattern THEN "idle"
               ELSE IF RotateInfos(file) = 0 /\ samples > 0 THEN "stray" ELSE "loaded"
  /\ aviaInfos' = IF file = NoPattern THEN 0 ELSE RotateInfos(file)
  /\ samplesStep' = samples
  /\ downSample' = Max({1, down})
  /\ rays' = IF file = NoPattern THEN 0 ELSE RayCount(samples, downSample')
  /\ UNCHANGED <<currStartIndex, points, scans, seen>>

(* InitializeRays: k is an int, and runs up to a 64-bit index.  The        *)
(* remainder of a negative k is negative.                                  *)
Narrowed(k) == ((k + IntMax + 1) % (2 * (IntMax + 1))) - (IntMax + 1)

LoopLength == RayCount(samplesStep, downSample)
LoopK == [i \in 1 .. LoopLength + 1 |-> Narrowed(currStartIndex + (i - 1) * downSample)]
LoopStrays == \E i \in 1 .. LoopLength + 1 : LoopK[i] # currStartIndex + (i - 1) * downSample

(* Mutant: the index starts over one direction early.                      *)
DirectionsButLast ==
  [i \in 1 .. Min({LoopLength, rays}) |-> LoopK[i] % Max({1, aviaInfos - 1})]

Directions == [i \in 1 .. Min({LoopLength, rays}) |-> LoopK[i] % aviaInfos]

(* Mutant: the last body that is hit counts.                               *)
UpdateCallbackLast(ray, body, direction) ==
  IF direction \in DOMAIN body.depth
    THEN [length |-> body.depth[direction], retro |-> body.retro]
    ELSE ray

(* UpdateRays and UpdateCallback, for the ray of a direction: each body    *)
(* that is hit nearer than all before it shortens the ray.                 *)
UpdateCallback(ray, body, direction) ==
  IF direction \in DOMAIN body.depth /\ body.depth[direction] < ray.length
    THEN [length |-> body.depth[direction], retro |-> body.retro]
    ELSE ray

UpdateRays(bodies, direction) ==
  LET ray[n \in 0 .. Len(bodies)] ==
        IF n = 0 THEN [length |-> MaxRange - MinRange, retro |-> 0]
        ELSE UpdateCallback(ray[n - 1], bodies[n], direction)
  IN ray[Len(bodies)]

(* The point of a direction: out of range is range 0.                      *)
Point(bodies, direction) ==
  LET ray == UpdateRays(bodies, direction)
      range == MinRange + ray.length
  IN [direction |-> direction,
      range |-> IF range >= MaxRange \/ range <= MinRange THEN 0 ELSE range,
      intensity |-> ray.retro]

(* OnNewLaserScans: a custom message with the points, and a cloud in which *)
(* each of them comes twice.  A plugin without a pattern does nothing.     *)
OnNewLaserScans ==
  /\ plugin \in {"idle", "loaded"}
  /\ scans < MaxScans
  /\ scans' = scans + 1
  /\ IF plugin = "idle" THEN UNCHANGED <<plugin, currStartIndex, points, seen>>
     ELSE IF LoopStrays
       THEN plugin' = "stray" /\ UNCHANGED <<currStartIndex, points, seen>>
       ELSE /\ \E bodies \in SetToSeqs(Bodies) :
                 points' = [i \in DOMAIN Directions |-> Point(bodies, Directions[i])]
            /\ seen' = seen \cup Range(Directions)
            /\ currStartIndex' = currStartIndex + samplesStep
            /\ UNCHANGED plugin
  /\ UNCHANGED <<aviaInfos, samplesStep, downSample, rays>>

LidarNext ==
  \/ \E f \in PatternFiles, s \in SampleCounts, d \in DownSamples : Load(f, s, d)
  \/ OnNewLaserScans
==============================================================================

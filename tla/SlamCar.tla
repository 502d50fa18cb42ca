------------------------------- MODULE SlamCar --------------------------------
(***************************************************************************)
(* The simulated car of the slam_car package: the keyboard node publishes  *)
(* a velocity for a key, the controller node turns it into joint commands  *)
(* and integrates the odometry it publishes whenever the states of the     *)
(* joints arrive.  The odometry is integrated from the commands, not from  *)
(* the joints.  Angles are quarter turns; the wheels, which are not in the *)
(* repository, follow the joint commands at once.                          *)
(***************************************************************************)
EXTENDS Integers, Sequences, FiniteSetsExt

CONSTANTS
  LinearSpeed, AngularSpeed,    \* the keyboard's parameters
  MaxClock,                     \* bound: clock ticks
  MaxKeys                       \* bound: keys pressed

ASSUME SpeedAssumption == LinearSpeed \in Nat /\ AngularSpeed \in Nat

VARIABLES
  keyboard,         \* "running" or "ended"
  terminal,         \* how the keyboard node has left it
  cmd_vel,          \* the commands under way: the queue holds one
  velocity,         \* x_vel_, theta_vel_
  pose,             \* x_pos_, y_pos_, theta_pos_
  last_update_time_,
  odom,             \* the last odometry published
  clock, keys,
  heading,          \* the true heading of the car
  slack             \* history: what the commands between two joint states
                    \*   may have added to the error of the heading

car_vars == <<keyboard, terminal, cmd_vel, velocity, pose, last_update_time_,
              odom, clock, keys, heading, slack>>

Twist(x, z) == [x |-> x, z |-> z]
Still == Twist(0, 0)

CarInit ==
  /\ keyboard = "running"
  /\ terminal = "raw"
  /\ cmd_vel = <<>>
  /\ velocity = Still
  /\ pose = [x |-> 0, y |-> 0, theta |-> 0]
  /\ last_update_time_ = 0
  /\ odom = pose
  /\ clock = 0 /\ keys = 0
  /\ heading = 0
  /\ slack = 0

(* The main loop of the keyboard node: a key that moves the car is         *)
(* published; no key, or another one, is not.  The command that is not yet *)
(* taken is replaced.                                                      *)
KeyTwist ==
  [i |-> Twist(LinearSpeed, 0), comma |-> Twist(-LinearSpeed, 0),
   j |-> Twist(0, AngularSpeed), l |-> Twist(0, -AngularSpeed),
   u |-> Twist(LinearSpeed, AngularSpeed), o |-> Twist(LinearSpeed, -AngularSpeed),
   n |-> Twist(-LinearSpeed, AngularSpeed), m |-> Twist(-LinearSpeed, -AngularSpeed)]

PressKey(k) ==
  /\ keyboard = "running"
  /\ keys < MaxKeys
  /\ keys' = keys + 1
  /\ cmd_vel' = IF k \in DOMAIN KeyTwist THEN <<KeyTwist[k]>> ELSE cmd_vel
  /\ UNCHANGED <<keyboard, terminal, velocity, pose, last_update_time_, odom,
                 clock, heading, slack>>

(* Q restores the terminal from a structure nobody has filled, and a       *)
(* signal does not restore it.                                             *)
EndKeyboard ==
  /\ keyboard = "running"
  /\ keyboard' = "ended"
  /\ terminal' \in {"raw", "garbage"}
  /\ UNCHANGED <<cmd_vel, velocity, pose, last_update_time_, odom, clock,
                 keys, heading, slack>>

Magnitude(i) == IF i < 0 THEN -i ELSE i

(* cmdVelCallback *)
CmdVelCallback ==
  /\ cmd_vel # <<>>
  /\ velocity' = Head(cmd_vel)
  /\ cmd_vel' = <<>>
  /\ slack' = slack + Magnitude(velocity'.z - velocity.z) * (clock - last_update_time_)
  /\ UNCHANGED <<keyboard, terminal, pose, last_update_time_, odom, clock,
                 keys, heading>>

(* jointStateCallback: what was driven, in the frame of the car, turned by *)
(* its heading.                                                            *)
Along(q, d) ==
  CASE q % 4 = 0 -> [x |-> d, y |-> 0]
    [] q % 4 = 1 -> [x |-> 0, y |-> d]
    [] q % 4 = 2 -> [x |-> -d, y |-> 0]
    [] OTHER     -> [x |-> 0, y |-> -d]

Driven(dt) ==
  LET d == Along(pose.theta, velocity.x * dt)
  IN IF dt > 0 THEN [x |-> pose.x + d.x, y |-> pose.y + d.y,
                     theta |-> pose.theta + velocity.z * dt]
               ELSE pose

(* Mutant: the time of the update is not recorded.                         *)
JointStateUndated ==
  /\ pose' = Driven(clock - last_update_time_)
  /\ UNCHANGED <<keyboard, terminal, cmd_vel, velocity, last_update_time_,
                 odom, clock, keys, heading, slack>>

JointStateCallback ==
  /\ last_update_time_' = clock
  /\ pose' = Driven(clock - last_update_time_)
  /\ UNCHANGED <<keyboard, terminal, cmd_vel, velocity, odom, clock, keys,
                 heading, slack>>

(* publishOdom, on a timer.                                                *)
PublishOdom ==
  /\ odom' = pose
  /\ UNCHANGED <<keyboard, terminal, cmd_vel, velocity, pose, last_update_time_,
                 clock, keys, heading, slack>>

Drive ==
  /\ clock < MaxClock
  /\ clock' = clock + 1
  /\ heading' = heading + velocity.z
  /\ UNCHANGED <<keyboard, terminal, cmd_vel, velocity, pose, last_update_time_,
                 odom, keys, slack>>

CarNext ==
  \/ \E k \in DOMAIN KeyTwist \cup {"k"} : PressKey(k)
  \/ EndKeyboard
  \/ CmdVelCallback
  \/ JointStateCallback
  \/ PublishOdom
  \/ Drive
==============================================================================

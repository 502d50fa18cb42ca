-------------------------- MODULE MCDriverPipeline ---------------------------
(***************************************************************************)
(* Two lidars.  Both with data on both channels are out of TLC's reach, so *)
(* an instance chooses the sources of its data: one lidar with point       *)
(* clouds and IMU samples (its imu_data_en is on), or two lidars with      *)
(* point clouds only.  The other threads run in both.  Custom messages are *)
(* published by the same loop as PointCloud2 and are left out.             *)
(***************************************************************************)
EXTENDS DriverPipeline

VARIABLE sources   \* the channels and lidars that have data

SourceChoices == { Channels \X {1}, {"pcd"} \X Lidars }

OnlyFromSources ==
  \A c \in Channels, l \in Lidars :
    <<c, l>> \in sources \/ depth'[c][l] = 0

OnlySourcesStart ==
  \A l \in Lidars :
    connect_state'[l] = "Sampling" => \E c \in Channels : <<c, l>> \in sources

MCInit ==
  /\ Init
  /\ transfer_format # "CustomMsg"
  /\ sources \in SourceChoices

MCNext == Next /\ OnlyFromSources /\ OnlySourcesStart /\ UNCHANGED sources

(* Only arrivals and starts are restricted, which have no fairness.        *)
MCSpec == MCInit /\ [][MCNext]_<<vars, sources>> /\ Fairness
==============================================================================

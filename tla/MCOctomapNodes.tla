---------------------------- MODULE MCOctomapNodes ----------------------------
(***************************************************************************)
(* Launches of the octomap nodes in a space of 4 x 4 x 4 voxels, one for   *)
(* each question: the projected map, the incremental map, the map files,   *)
(* the listener, and the layers.                                           *)
(***************************************************************************)
EXTENDS OctomapNodes

MCClampMin == -1

MCCloud1 == [pose |-> <<1, 1, 2>>, points |-> {<<1, 1, 0>>, <<0, 1, -1>>}]
MCCloud2 == [pose |-> <<2, 2, 1>>, points |-> {<<-1, -1, 1>>, <<-2, -1, 0>>, <<-1, -1, 0>>}]
(* Its point is in the uppermost voxels: the map of the tree has no keys.  *)
MCCloud3 == [pose |-> <<0, 2, 2>>, points |-> {<<2, -1, 1>>}]
MCCloud4 == [pose |-> <<0, 2, 1>>, points |-> {<<2, -1, 1>>}]
Two == {MCCloud1, MCCloud2}
(* A scan that fills a block of 2 x 2 x 2 voxels.                          *)
MCWall == [pose |-> <<2, 2, 2>>, points |-> {-1, -2} \X {-1, -2} \X {-1, -2}]

Latched == {"map", "binary", "full", "markers"}
Plain == [class |-> "plain", topics |-> Latched, incremental |-> FALSE, load |-> FALSE,
          maxRange |-> -1, ground |-> FALSE, half |-> 0, minChange |-> 0, depths |-> {Depth},
          clouds |-> Two \cup {MCCloud4}]

MCLaunches ==
  { [Plain EXCEPT !.half = 1, !.depths = {1, Depth}, !.maxRange = 1],
    [Plain EXCEPT !.ground = TRUE, !.maxRange = 1, !.topics = {"map", "binary"}],
    [Plain EXCEPT !.incremental = TRUE, !.depths = {1, Depth},
                  !.clouds = Two \cup {MCCloud3}],
    [Plain EXCEPT !.topics = Latched \ {"map"}, !.load = TRUE, !.clouds = Two \cup {MCCloud3}],
    [Plain EXCEPT !.class = "tracking", !.topics = {"full"}, !.clouds = {MCCloud1},
                  !.depths = {1, Depth}],
    [Plain EXCEPT !.class = "tracking", !.topics = {}, !.clouds = Two, !.minChange = 4],
    [Plain EXCEPT !.class = "multilayer", !.topics = {"binary", "markers"},
                  !.depths = {1, Depth}, !.clouds = Two \cup {MCWall}] }

(* A box that cuts the block of MCWall.                                    *)
MCBoxes == {{k \in Key : k[1] < Zero /\ k[3] > 0}}

MCHeights == << [lo |-> 0, hi |-> 1], [lo |-> 2, hi |-> 3], [lo |-> 2, hi |-> 2] >>
MCArmHeights == { [lo |-> 2, hi |-> 2], [lo |-> 1, hi |-> 2] }
==============================================================================

---------------------------- MODULE MCLidarStartup ----------------------------
(***************************************************************************)
(* Three lidars for two slots.  Files of up to three entries for two of    *)
(* the lidars or three, with and without settings, offsets that do and do  *)
(* not divide by ten, both kinds of data, a repeated lidar and an entry    *)
(* without an address.                                                     *)
(***************************************************************************)
EXTENDS LidarStartup

CONSTANTS h1, h2, h3

Entry(h, data_type, blind_spot, offset) ==
  [ip |-> h,
   settings |-> [p \in Settings |-> IF p = DataType THEN data_type ELSE blind_spot],
   offset |-> offset]

MCEntries ==
  { Entry(h1, 1, 100, 15), Entry(h1, 2, Missing, -15), Entry(h1, Missing, 200, 0),
    Entry(h2, 2, -1, 30), Entry(h2, Missing, Missing, 0),
    Entry(h3, 1, Missing, 7), Entry(NoIp, 1, 50, 9) }

MCFiles ==
  { [summary |-> "livox", entries |-> es] : es \in UNION {[1 .. n -> MCEntries] : n \in 0 .. 3} }
  \cup { [summary |-> kind, entries |-> <<Entry(h1, 1, 100, 15)>>] : kind \in {"bad", "other"} }
==============================================================================

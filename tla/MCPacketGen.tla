---------------------------- MODULE MCPacketGen ----------------------------
(* Values of -n for the runs of PacketGen: -1, the default, is written    *)
(* here since a configuration file has no negative numbers.               *)
EXTENDS PacketGen

(* -n up to the statistics period, and unlimited. *)
NumUpToPeriod == {-1, 1, 2, 3, 4}

(* -n above the statistics period. *)
NumAbovePeriod == {6}
=============================================================================

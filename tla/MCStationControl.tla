-------------------------- MODULE MCStationControl --------------------------
(* StationControl for TLC: three commands, so that one can be taken over by  *)
(* a connection nobody wants any more, and two stations.                     *)
EXTENDS StationControl

CONSTANTS c1, c2, c3, s1, s2

MCCommands == {c1, c2, c3}
MCStations == {s1, s2}
=============================================================================

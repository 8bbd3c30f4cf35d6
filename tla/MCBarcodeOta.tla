---------------------------- MODULE MCBarcodeOta ----------------------------
(* BarcodeOta for TLC: two stations, five chunks, a wait after the second,   *)
(* the fourth and the last, and a channel that just holds the reports of one *)
(* group; the file may be empty, cut inside a group or at one's end.   *)
EXTENDS BarcodeOta, TLC

CONSTANTS s1, s2

MCStations == {s1, s2}
MCFiles == {0, 3, 4, 5}
Symmetry == Permutations(MCStations)
=============================================================================

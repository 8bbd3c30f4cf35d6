----------------------------- MODULE MCQtermOta -----------------------------
(* QtermOta for TLC: a firmware of whole chunks and a short one at the end,  *)
(* through a window of three; the file may be empty, or cut inside a chunk or  *)
(* between two.                                                              *)
EXTENDS QtermOta

MCFiles == {0, 5, 8, 11}
=============================================================================

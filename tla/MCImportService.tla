-------------------------- MODULE MCImportService --------------------------
(* ImportService for TLC: requests of concurrent and of successive clients. *)
EXTENDS ImportService, TLC

CONSTANTS r1, r2, r3

TwoRequests == {r1, r2}
ThreeRequests == {r1, r2, r3}
Symmetry == Permutations(ThreeRequests)
=============================================================================

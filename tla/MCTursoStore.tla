--------------------------- MODULE MCTursoStore ---------------------------
(* TursoStore for TLC: two barcodes that two rows can share, so that a     *)
(* file can repeat a barcode, replace a product and leave one out.         *)
EXTENDS TursoStore, TLC

CONSTANTS b1, b2, d1, d2

MCBarcodes == {b1, b2}
MCDetails == {d1, d2}
Symmetry == Permutations(MCBarcodes) \cup Permutations(MCDetails)
=============================================================================

--------------------------- MODULE MCImportClient ---------------------------
(* ImportClient for TLC: an operator who tries again, at any time after the *)
(* first command returned.                                                 *)
EXTENDS ImportClient

CONSTANTS r1, r2

TwoRequests == {r1, r2}
=============================================================================

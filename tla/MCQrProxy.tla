----------------------------- MODULE MCQrProxy -----------------------------
(* Instances of QrProxy for TLC: short channels, so that every blocking send *)
(* is reached with the jobs at hand, and one can overtake another in them.   *)
EXTENDS QrProxy
=============================================================================

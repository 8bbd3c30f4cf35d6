---------------------------- MODULE MCTlsAssets ----------------------------
(* TlsAssets for TLC: the four files of the script. *)
EXTENDS TlsAssets
=============================================================================

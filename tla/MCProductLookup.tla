-------------------------- MODULE MCProductLookup --------------------------
(* ProductLookup for TLC: two workers and a channel with one place; a      *)
(* station that asks twice, and one that asks for nonsense.                *)
EXTENDS ProductLookup, TLC

CONSTANTS l1, l2, l3, s1, s2, b1, none, w1, w2

MCLookups == {l1, l2, l3}
MCStations == {s1, s2}
MCBarcodes == {b1}
MCWorkers == {w1, w2}
MCStationOf == (l1 :> s1) @@ (l2 :> s1) @@ (l3 :> s2)
MCBarcodeOf == (l1 :> b1) @@ (l2 :> b1) @@ (l3 :> none)
=============================================================================

------------------------------ MODULE Catalog ------------------------------
(***************************************************************************)
(* What a catalog store promises to the rest of catalog_service: the       *)
(* products that lookups see change only as a whole, when an import        *)
(* installs everything it staged.  TursoStore is shown to implement this   *)
(* specification, and ImportService drives it through its operations.      *)
(*                                                                         *)
(*   products   the catalog that Lookup reads, one entry per barcode       *)
(*   staged     what the running import has written so far, or NoStage     *)
(***************************************************************************)
CONSTANTS Barcodes,   (* the barcodes a product can have                   *)
          Details,    (* everything else a product row holds               *)
          NoProduct,  (* the entry of a barcode that has no row: no detail *)
          NoStage     (* no import is writing: not a catalog               *)

VARIABLES products, staged

vars == <<products, staged>>

Contents == [Barcodes -> Details \cup {NoProduct}]

Empty == [b \in Barcodes |-> NoProduct]

TypeOK ==
  /\ products \in Contents
  /\ staged \in Contents \cup {NoStage}

Init ==
  /\ products = Empty
  /\ staged = NoStage

\* An import starts from an empty catalog, not from the current one.
Begin ==
  /\ staged = NoStage
  /\ staged' = Empty
  /\ UNCHANGED products

\* A later row of the same barcode replaces the earlier one.
Stage(b, d) ==
  /\ staged # NoStage
  /\ staged' = [staged EXCEPT ![b] = d]
  /\ UNCHANGED products

Install ==
  /\ staged # NoStage
  /\ products' = staged
  /\ staged' = NoStage

Discard ==
  /\ staged' = NoStage
  /\ UNCHANGED products

Next ==
  \/ Begin
  \/ \E b \in Barcodes, d \in Details : Stage(b, d)
  \/ Install
  \/ Discard

Spec == Init /\ [][Next]_vars
=============================================================================

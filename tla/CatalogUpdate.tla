--------------------------- MODULE CatalogUpdate ---------------------------
(***************************************************************************)
(* What an update of the catalog promises to the operators who start it    *)
(* and to everyone who looks products up, whatever breaks in between: the  *)
(* catalog changes only as a whole, to what one complete file holds, and   *)
(* not twice by the same request; and an operator who was given an outcome *)
(* was given the final one.  ImportClient - mobctl, the connection, the    *)
(* service and its store - is shown to implement this specification.       *)
(*                                                                         *)
(*   sent       the requests whose file was sent to its end                *)
(*   catalog    what lookups see                                           *)
(*   installed  the requests whose file became the catalog, at any time    *)
(*   told       the outcome that each operator was given                   *)
(***************************************************************************)
CONSTANTS Requests,
          Empty,       (* the catalog before the first update               *)
          Readings     (* the catalogs that each request's file can make    *)

VARIABLES sent, catalog, installed, told

vars == <<sent, catalog, installed, told>>

Init ==
  /\ sent = {} /\ catalog = Empty /\ installed = {}
  /\ told = [r \in Requests |-> "nothing"]

\* Only while the operator waits.
Send(r) ==
  /\ r \notin sent /\ told[r] = "nothing"
  /\ sent' = sent \cup {r}
  /\ UNCHANGED <<catalog, installed, told>>

\* Also when the operator was told nothing, or that the outcome is unknown, but
\* never of an update that was reported as failed.
Install(r) ==
  /\ r \in sent \ installed /\ told[r] \in {"nothing", "unknown"}
  /\ catalog' \in Readings[r]
  /\ installed' = installed \cup {r}
  /\ UNCHANGED <<sent, told>>

Tell(r) ==
  /\ told[r] = "nothing"
  /\ \/ r \in installed /\ told' = [told EXCEPT ![r] = "completed"]
     \/ r \notin installed /\ told' = [told EXCEPT ![r] = "failed"]
     \/ told' = [told EXCEPT ![r] = "unknown"]
  /\ UNCHANGED <<sent, catalog, installed>>

Next == \E r \in Requests : Send(r) \/ Install(r) \/ Tell(r)

Spec == Init /\ [][Next]_vars
=============================================================================

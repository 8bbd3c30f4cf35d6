--------------------------- MODULE FirmwareUpdate ---------------------------
(***************************************************************************)
(* What an update over the air promises, by barcode-ota or by qterm-ota,   *)
(* whatever messages are lost and whoever fails: the devices that take     *)
(* part write in step, none installs before all of them have everything,   *)
(* and a success means that all of them have installed.  BarcodeOta and    *)
(* QtermOta are shown to implement this specification.                     *)
(*                                                                         *)
(*   members   the devices whose reports are waited for                    *)
(*   device    each device's state and how much it has written             *)
(*   result    what runOTA returned, "ok" or "failed", or "none" so far    *)
(***************************************************************************)
EXTENDS Naturals

CONSTANTS Devices,  (* all that could hear the update                      *)
          Size,     (* of the firmware                                     *)
          Lead      (* how far a device may be ahead of a member           *)

VARIABLES members, device, result

vars == <<members, device, result>>

In(d, state) == device[d].state = state

Complete(d) == device[d].written = Size

Become(d, state) == device' = [device EXCEPT ![d].state = state]

Init ==
  /\ members \in SUBSET Devices
  /\ device = [d \in Devices |-> [state |-> "idle", written |-> 0]]
  /\ result = "none"

\* Who takes part is settled before the first chunk is written.
Join(d) ==
  /\ result = "none" /\ In(d, "receiving")
  /\ \A other \in Devices : device[other].written = 0
  /\ members' = members \cup {d}
  /\ UNCHANGED <<device, result>>

Open(d) ==
  /\ In(d, "idle") /\ device[d].written = 0
  /\ Become(d, "receiving")
  /\ UNCHANGED <<members, result>>

\* The next chunk, unless that leaves a member too far behind.
Write(d) ==
  /\ In(d, "receiving")
  /\ \E written \in device[d].written + 1 .. Size :
       /\ \A m \in members : written <= device[m].written + Lead
       /\ device' = [device EXCEPT ![d].written = written]
  /\ UNCHANGED <<members, result>>

\* All together or nobody, and nobody a part of it.
Install(d) ==
  /\ In(d, "receiving") /\ Complete(d) /\ \A m \in members : Complete(m)
  /\ Become(d, "done")
  /\ UNCHANGED <<members, result>>

\* The session ends without an installation: a failure, or an abort.
Leave(d) ==
  /\ In(d, "idle") \/ In(d, "receiving")
  /\ \E state \in {"idle", "failed"} : Become(d, state)
  /\ UNCHANGED <<members, result>>

Succeed ==
  /\ result = "none" /\ members # {} /\ \A m \in members : In(m, "done")
  /\ result' = "ok"
  /\ UNCHANGED <<members, device>>

Fail ==
  /\ result = "none" /\ result' = "failed"
  /\ UNCHANGED <<members, device>>

Next ==
  \/ \E d \in Devices : Join(d) \/ Open(d) \/ Write(d) \/ Install(d) \/ Leave(d)
  \/ Succeed \/ Fail

Spec == Init /\ [][Next]_vars
=============================================================================

----------------------------- MODULE BarcodeOta -----------------------------
(***************************************************************************)
(* cmd/mobctl/ota.go, barcode-ota: one firmware stream for every barcode   *)
(* station that answers.  mobctl publishes ota_begin, collects the         *)
(* stations that report "started" during the discovery window, publishes   *)
(* the chunks and waits at every 64 KiB, and at the end, until each of     *)
(* them has reported that much as written, publishes ota_finish and waits  *)
(* until each has reported "done".  All of it is QoS 0: any message can be *)
(* lost.  Reports pass through statusCh, whose sender, the MQTT callback,  *)
(* throws a report away when the channel is full.                          *)
(*                                                                         *)
(*   file       how many chunks can be read, now that the digest and the    *)
(*              size were taken: fewer if the file was replaced meanwhile  *)
(*   eof        Read has returned io.EOF                                   *)
(*   phase      where runOTA is; "ok" and "failed" are its results         *)
(*   devices    the stations that were discovered                          *)
(*   remaining  those the current waitAllOTADevices still waits for        *)
(*   offset     how many chunks were published                             *)
(*   statusCh   the channel of reports                                     *)
(*   down       what is on its way to each station                         *)
(*   up         the reports on their way to mobctl                         *)
(*   station    each station's state and how many chunks it has written    *)
(*   troubles   lost messages and failures so far (bounded)                *)
(*                                                                         *)
(* The stations are external: they take the chunks in order, and report    *)
(* truthfully; "begin_failed" stands for "bad_begin" as well, "anonymous"  *)
(* for a "started" without a device id.  Chunks are counted, their bytes   *)
(* are left out, and so are reports of other sessions, which the callback  *)
(* ignores.                                                                *)
(***************************************************************************)
EXTENDS Naturals, Sequences, FiniteSets

CONSTANTS Stations,
          Chunks,      (* chunks of the firmware, of 512 bytes             *)
          Files,       (* how many of them there can be when it is sent    *)
          Group,       (* chunks between two waits: 128                    *)
          StatusCap,   (* capacity of statusCh: 128                        *)
          MaxTroubles  (* bound: lost messages and failures                *)

ASSUME OtaAssumption ==
  /\ IsFiniteSet(Stations)
  /\ Chunks \in Nat \ {0} /\ Files \subseteq 0..Chunks
  /\ Group \in Nat \ {0} /\ StatusCap \in Nat \ {0}
  /\ MaxTroubles \in Nat

VARIABLES file, eof, phase, devices, remaining, offset, statusCh, down, up, station,
          troubles

fileVars == <<file, eof>>
ctlVars == <<fileVars, phase, devices, remaining, offset>>
vars == <<ctlVars, statusCh, down, up, station, troubles>>

Messages == [type : {"begin", "finish", "abort"}, number : {0}]
            \cup [type : {"chunk"}, number : 1..Chunks]

Control(type) == [type |-> type, number |-> 0]

Reports == [device : Stations, written : 0..Chunks,
            status : {"started", "anonymous", "begin_failed", "chunk", "bad_chunk",
                      "chunk_failed", "done", "bad_finish", "finish_failed"}]

Init ==
  /\ file \in Files /\ eof = FALSE
  /\ phase = "begin" /\ devices = {} /\ remaining = {} /\ offset = 0
  /\ statusCh = <<>> /\ up = <<>>
  /\ down = [s \in Stations |-> <<>>]
  /\ station = [s \in Stations |-> [state |-> "idle", written |-> 0]]
  /\ troubles = 0

-----------------------------------------------------------------------------
(* The network. *)

\* A publish reaches every station but those that miss it.
Cast(message) ==
  \E missing \in SUBSET Stations :
    /\ troubles + Cardinality(missing) <= MaxTroubles
    /\ troubles' = troubles + Cardinality(missing)
    /\ down' = [s \in Stations |-> IF s \in missing THEN down[s]
                                   ELSE Append(down[s], message)]

\* The callback: a report enters the channel, or is lost when that is full.
Callback ==
  /\ up # <<>>
  /\ up' = Tail(up)
  /\ statusCh' = IF Len(statusCh) < StatusCap THEN Append(statusCh, Head(up)) ELSE statusCh
  /\ UNCHANGED <<ctlVars, down, station, troubles>>

-----------------------------------------------------------------------------
(* mobctl *)

Goto(there) == phase' = there /\ UNCHANGED <<fileVars, devices, remaining, offset>>

PublishBegin ==
  /\ phase = "begin"
  /\ Goto("discovering") /\ Cast(Control("begin"))
  /\ UNCHANGED <<statusCh, up, station>>

\* discoverOTADevices: a report that comes within the window.
Discover ==
  /\ phase = "discovering" /\ statusCh # <<>>
  /\ statusCh' = Tail(statusCh)
  /\ LET report == Head(statusCh)
     IN IF report.status \in {"begin_failed", "anonymous"}
          THEN Goto("failed") /\ Cast(Control("abort"))
          ELSE /\ devices' = IF report.status = "started" THEN devices \cup {report.device}
                             ELSE devices
               /\ UNCHANGED <<fileVars, phase, remaining, offset, down, troubles>>
  /\ UNCHANGED <<up, station>>

\* The window of 8 s is over.
WindowCloses ==
  /\ phase = "discovering"
  /\ IF devices = {} THEN Goto("failed") /\ Cast(Control("abort"))
                     ELSE Goto("sending") /\ UNCHANGED <<down, troubles>>
  /\ UNCHANGED <<statusCh, up, station>>

\* Mutant: only the end is waited for.
AtEnd(n) == n = Chunks

AtBoundary(n) == n % Group = 0 \/ n = Chunks

\* uploadOTAChunksForDevices: the next chunk, and the wait at a boundary.
PublishChunk ==
  /\ phase = "sending" /\ offset < file
  /\ offset' = offset + 1
  /\ IF AtBoundary(offset') THEN phase' = "waiting" /\ remaining' = devices
                            ELSE UNCHANGED <<phase, remaining>>
  /\ Cast([type |-> "chunk", number |-> offset'])
  /\ UNCHANGED <<fileVars, devices, statusCh, up, station>>

\* Mutant: the end of the file ends the loop, wherever it comes.
EOFBreaks ==
  /\ phase = "sending" /\ offset = file /\ eof' = TRUE
  /\ phase' = "finish"
  /\ UNCHANGED <<file, devices, remaining, offset, statusCh, down, up, station, troubles>>

\* The file ends too early.  Between two boundaries that is an error; at one,
\* the stations are asked once more for what they have reported already.
ReadEOF ==
  /\ phase = "sending" /\ offset = file /\ eof' = TRUE
  /\ IF AtBoundary(offset)
       THEN phase' = "waiting" /\ remaining' = devices /\ UNCHANGED <<down, troubles>>
       ELSE phase' = "failed" /\ Cast(Control("abort")) /\ UNCHANGED remaining
  /\ UNCHANGED <<file, devices, offset, statusCh, up, station>>

PublishFinish ==
  /\ phase = "finish"
  /\ phase' = "finishing" /\ remaining' = devices
  /\ Cast(Control("finish"))
  /\ UNCHANGED <<fileVars, devices, offset, statusCh, up, station>>

\* The firmware cannot be read on, or a publish fails: aborted while chunks
\* are sent, given up without it before and after.
PublishFails ==
  /\ phase \in {"begin", "sending", "finish"} /\ troubles < MaxTroubles
  /\ Goto("failed")
  /\ IF phase = "sending"
       THEN Cast(Control("abort"))
       ELSE troubles' = troubles + 1 /\ UNCHANGED down
  /\ UNCHANGED <<statusCh, up, station>>

\* waitAllOTADevices, called with what counts as success and as failure.
Waiting == phase \in {"waiting", "finishing"} /\ statusCh # <<>>

Fails(report) ==
  /\ report.device \in remaining
  /\ report.status \in IF phase = "waiting" THEN {"bad_chunk", "chunk_failed"}
                                            ELSE {"bad_finish", "finish_failed"}

\* Mutant: any chunk counts, also an earlier one.
AnyChunkAcks(report) ==
  /\ report.device \in remaining
  /\ report.status = IF phase = "waiting" THEN "chunk" ELSE "done"

\* Mutant: only a report of more than was sent counts.
AcksBeyond(report) ==
  /\ report.device \in remaining
  /\ report.status = IF phase = "waiting" THEN "chunk" ELSE "done"
  /\ report.written > offset

Acks(report) ==
  /\ report.device \in remaining
  /\ report.status = IF phase = "waiting" THEN "chunk" ELSE "done"
  /\ report.written >= offset

SkipReport ==
  /\ Waiting /\ ~Fails(Head(statusCh)) /\ ~Acks(Head(statusCh))
  /\ statusCh' = Tail(statusCh)
  /\ UNCHANGED <<ctlVars, down, up, station, troubles>>

\* Mutant: one station's answer is enough.
FirstAckEndsWait ==
  /\ Waiting /\ Acks(Head(statusCh))
  /\ statusCh' = Tail(statusCh)
  /\ remaining' = {}
  /\ phase' = IF phase = "finishing" THEN "ok"
              ELSE IF offset = Chunks \/ eof THEN "finish" ELSE "sending"
  /\ UNCHANGED <<fileVars, devices, offset, down, up, station, troubles>>

TakeAck ==
  /\ Waiting /\ Acks(Head(statusCh))
  /\ statusCh' = Tail(statusCh)
  /\ remaining' = remaining \ {Head(statusCh).device}
  /\ phase' = IF remaining' # {} THEN phase
              ELSE IF phase = "finishing" THEN "ok"
              ELSE IF offset = Chunks \/ eof THEN "finish" ELSE "sending"
  /\ UNCHANGED <<fileVars, devices, offset, down, up, station, troubles>>

\* Given up: aborted unless ota_finish is out.
GiveUp ==
  /\ Goto("failed")
  /\ IF phase = "waiting" THEN Cast(Control("abort")) ELSE UNCHANGED <<down, troubles>>
  /\ UNCHANGED <<up, station>>

TakeFailure == Waiting /\ Fails(Head(statusCh)) /\ statusCh' = Tail(statusCh) /\ GiveUp

\* 180 s are over, whatever is still on its way.
Timeout == phase \in {"waiting", "finishing"} /\ GiveUp /\ UNCHANGED statusCh

\* mobctl is interrupted, or loses its connection for good.
Interrupt ==
  /\ phase \notin {"ok", "failed"} /\ troubles < MaxTroubles
  /\ Goto("failed") /\ troubles' = troubles + 1
  /\ UNCHANGED <<statusCh, down, up, station>>

-----------------------------------------------------------------------------
(* A station. *)

\* It takes a message, becomes something, and reports; the report can get lost.
Take(s, type, state, written, status, cost) ==
  /\ down[s] # <<>> /\ Head(down[s]).type = type
  /\ down' = [down EXCEPT ![s] = Tail(@)]
  /\ station' = [station EXCEPT ![s] = [state |-> state, written |-> written]]
  /\ \E missing \in 0..1 :
       /\ troubles + cost + missing <= MaxTroubles
       /\ troubles' = troubles + cost + missing
       /\ up' = IF missing = 1 THEN up
                ELSE Append(up, [device |-> s, status |-> status, written |-> written])
  /\ UNCHANGED <<ctlVars, statusCh>>

In(s, state) == station[s].state = state

StationBegins(s) ==
  /\ In(s, "idle")
  /\ \/ Take(s, "begin", "receiving", 0, "started", 0)
     \/ \E status \in {"begin_failed", "anonymous"} : Take(s, "begin", "failed", 0, status, 1)

StationWrites(s) ==
  /\ In(s, "receiving") /\ down[s] # <<>>
  /\ LET written == station[s].written
     IN IF Head(down[s]).number = written + 1
          THEN \/ Take(s, "chunk", "receiving", written + 1, "chunk", 0)
               \/ Take(s, "chunk", "failed", written, "chunk_failed", 1)
          ELSE Take(s, "chunk", "failed", written, "bad_chunk", 0)

StationFinishes(s) ==
  /\ In(s, "receiving")
  /\ LET written == station[s].written
     IN IF written = Chunks
          THEN \/ Take(s, "finish", "done", written, "done", 0)
               \/ Take(s, "finish", "failed", written, "finish_failed", 1)
          ELSE Take(s, "finish", "failed", written, "bad_finish", 0)

\* ota_abort, and whatever comes outside a session: no report.
StationIgnores(s) ==
  /\ down[s] # <<>>
  /\ \/ Head(down[s]).type = "abort"
     \/ ~In(s, IF Head(down[s]).type = "begin" THEN "idle" ELSE "receiving")
  /\ down' = [down EXCEPT ![s] = Tail(@)]
  /\ station' = [station EXCEPT ![s].state =
                   IF Head(down[s]).type = "abort" /\ @ = "receiving" THEN "idle" ELSE @]
  /\ UNCHANGED <<ctlVars, statusCh, up, troubles>>

StationStep(s) ==
  StationBegins(s) \/ StationWrites(s) \/ StationFinishes(s) \/ StationIgnores(s)

Next ==
  \/ PublishBegin \/ Discover \/ WindowCloses \/ PublishChunk \/ ReadEOF
  \/ PublishFinish \/ PublishFails \/ SkipReport \/ TakeAck \/ TakeFailure \/ Timeout \/ Interrupt
  \/ Callback
  \/ \E s \in Stations : StationStep(s)

Spec == Init /\ [][Next]_vars

-----------------------------------------------------------------------------
TypeOK ==
  /\ file \in Files /\ eof \in BOOLEAN
  /\ phase \in {"begin", "discovering", "sending", "waiting", "finish", "finishing",
                "ok", "failed"}
  /\ remaining \subseteq devices /\ devices \subseteq Stations
  /\ offset \in 0..Chunks
  /\ statusCh \in Seq(Reports) /\ Len(statusCh) <= StatusCap
  /\ down \in [Stations -> Seq(Messages)] /\ up \in Seq(Reports)
  /\ station \in [Stations -> [state : {"idle", "receiving", "done", "failed"},
                               written : 0..Chunks]]
  /\ troubles \in 0..MaxTroubles

Complete(s) == station[s].written = Chunks

\* README: mobctl "requires every discovered station to acknowledge chunks and
\* `done` for that session": a run that succeeds has updated all of them.
SuccessUpdatesAll == phase = "ok" => \A s \in devices : In(s, "done")

\* No station installs the firmware, and so reboots, before every discovered
\* station has all of it, whatever is lost and whoever fails.
UpdateTogether == (\E s \in Stations : In(s, "done")) => \A d \in devices : Complete(d)

\* ota_finish is published only for a firmware that was sent to its end: for one
\* cut short meanwhile the run fails, though at a boundary nothing but the wait
\* for reports that do not come a second time keeps it from going on.
OnlyWholeFirmwareIsFinished ==
  phase \in {"finish", "finishing", "ok"} => offset = Chunks

\* When the reports of one group fit into the channel (with the code's numbers
\* that is one station), every station was discovered in time, and the file is
\* what it was when its size was taken, mobctl never
\* waits for a report that cannot come: something is on its way, or something
\* was lost or failed.  With more stations, or with one that joined too late and
\* whose reports nobody waits for, the callback may throw away the very report
\* that is waited for, and 180 s later a healthy update fails.
SmallFleet ==
  file = Chunks /\ devices = Stations /\ Cardinality(Stations) * Group <= StatusCap

SmallFleetNeverWaitsInVain ==
  SmallFleet /\ phase \in {"waiting", "finishing"}
    => \/ troubles > 0
       \/ statusCh # <<>> \/ up # <<>>
       \/ \E s \in Stations : down[s] # <<>>

\* The discovered stations are the members of the update, and no station is more
\* than one group of chunks ahead of any of them.
Update == INSTANCE FirmwareUpdate WITH
  Devices <- Stations, Size <- Chunks, Lead <- Group,
  members <- devices, device <- station,
  result <- IF phase \in {"ok", "failed"} THEN phase ELSE "none"

\* waitAllOTADevices at each boundary keeps the stations in step, the one after
\* ota_finish makes a success everybody's, and nobody joins, installs or succeeds
\* out of turn, whatever is lost and however late a report is.
ImplementsUpdate == Update!Spec
=============================================================================

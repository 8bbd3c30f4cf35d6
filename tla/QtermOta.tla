------------------------------ MODULE QtermOta ------------------------------
(***************************************************************************)
(* cmd/mobctl/ota.go, qterm-ota: a firmware for the payment terminal, sent *)
(* through a sliding window.  mobctl publishes ota_begin and waits for     *)
(* "started"; it keeps at most otaWindowSize chunks unacknowledged, takes  *)
(* the terminal's cumulative "chunk" reports, and publishes ota_finish     *)
(* when everything is acknowledged.  All of it is QoS 0.                   *)
(*                                                                         *)
(*   file       how much can be read, now that the digest and the size were *)
(*              taken: less if the file was replaced meanwhile             *)
(*   phase      where runOTA is; "sending" and "waiting" are the two       *)
(*              halves of uploadOTAChunks' loop, "uploaded" is behind it   *)
(*   offset, acked, pending, eof   uploadOTAChunks' variables              *)
(*   statusCh   the channel of reports                                     *)
(*   down, up   messages to the terminal, and its reports on their way     *)
(*   terminal   the terminal's state and how much it has written           *)
(*   troubles   lost messages and failures so far (bounded)                *)
(*                                                                         *)
(* Offsets count an arbitrary unit, so that the last chunk can be short.   *)
(* The terminal is external: it takes the chunks in order, and reports     *)
(* truthfully.                                                             *)
(***************************************************************************)
EXTENDS Naturals, Sequences

CONSTANTS Size,        (* of the firmware                                  *)
          Files,       (* how much of it there can be when it is sent      *)
          ChunkSize,   (* 16 KiB                                           *)
          Window,      (* otaWindowSize: 8                                 *)
          StatusCap,   (* capacity of statusCh: 128                        *)
          MaxTroubles  (* bound: lost messages and failures                *)

ASSUME OtaAssumption ==
  /\ Size \in Nat \ {0} /\ Files \subseteq 0..Size /\ ChunkSize \in Nat \ {0}
  /\ Window \in Nat \ {0} /\ StatusCap \in Nat \ {0} /\ MaxTroubles \in Nat

VARIABLES file, phase, offset, acked, pending, eof, statusCh, down, up, terminal, troubles

uploadVars == <<file, offset, acked, pending, eof>>
netVars == <<down, up, terminal, troubles>>
vars == <<phase, uploadVars, statusCh, netVars>>

Messages == [type : {"begin", "finish", "abort"}, from : {0}, length : {0}]
            \cup [type : {"chunk"}, from : 0..Size, length : 1..ChunkSize]

Control(type) == [type |-> type, from |-> 0, length |-> 0]

Reports == [status : {"started", "begin_failed", "chunk", "bad_chunk", "chunk_failed",
                      "done", "bad_finish", "finish_failed"},
            written : 0..Size]

Init ==
  /\ file \in Files
  /\ phase = "begin"
  /\ offset = 0 /\ acked = 0 /\ pending = 0 /\ eof = FALSE
  /\ statusCh = <<>> /\ down = <<>> /\ up = <<>>
  /\ terminal = [state |-> "idle", written |-> 0]
  /\ troubles = 0

-----------------------------------------------------------------------------
(* The network. *)

\* What is sent arrives, or it is lost.
Carry(channel, message, cost) ==
  \/ /\ troubles + cost <= MaxTroubles /\ troubles' = troubles + cost
     /\ channel' = Append(channel, message)
  \/ /\ troubles + cost < MaxTroubles /\ troubles' = troubles + cost + 1
     /\ UNCHANGED channel

Publish(message) == Carry(down, message, 0) /\ UNCHANGED <<up, terminal>>

\* The callback: a report enters the channel, or is lost when that is full.
Callback ==
  /\ up # <<>>
  /\ up' = Tail(up)
  /\ statusCh' = IF Len(statusCh) < StatusCap THEN Append(statusCh, Head(up)) ELSE statusCh
  /\ UNCHANGED <<phase, uploadVars, down, terminal, troubles>>

-----------------------------------------------------------------------------
(* mobctl *)

Least(a, b) == IF a < b THEN a ELSE b

\* Where the loop goes: on reading, to its end, or waiting.
LoopHead(e, p) ==
  IF ~e /\ p < Window THEN "sending" ELSE IF e /\ p = 0 THEN "uploaded" ELSE "waiting"

PublishBegin ==
  /\ phase = "begin" /\ phase' = "starting"
  /\ Publish(Control("begin"))
  /\ UNCHANGED <<uploadVars, statusCh>>

\* Mutant: every chunk is waited for.
WaitsForEachChunk ==
  /\ phase = "sending" /\ offset < file
  /\ offset' = offset + Least(ChunkSize, file - offset) /\ pending' = pending + 1
  /\ phase' = "waiting"
  /\ Publish([type |-> "chunk", from |-> offset, length |-> offset' - offset])
  /\ UNCHANGED <<file, acked, eof, statusCh>>

\* The inner loop reads a chunk and publishes it, until the window is full.
PublishChunk ==
  /\ phase = "sending" /\ offset < file
  /\ offset' = offset + Least(ChunkSize, file - offset) /\ pending' = pending + 1
  /\ phase' = IF pending' < Window THEN "sending" ELSE "waiting"
  /\ Publish([type |-> "chunk", from |-> offset, length |-> offset' - offset])
  /\ UNCHANGED <<file, acked, eof, statusCh>>

\* It finds the end of the file, and waits, whatever is pending.
ReadEOF ==
  /\ phase = "sending" /\ offset = file
  /\ eof' = TRUE /\ phase' = "waiting"
  /\ UNCHANGED <<file, offset, acked, pending, statusCh, netVars>>

\* Mutant: what was sent is compared, not what was announced.
FinishesWhatWasSent ==
  /\ phase = "uploaded" /\ phase' = "finishing" /\ Publish(Control("finish"))
  /\ UNCHANGED <<uploadVars, statusCh>>

\* The loop is over: all that was announced must be acknowledged.
PublishFinish ==
  /\ phase = "uploaded"
  /\ IF acked = Size THEN phase' = "finishing" /\ Publish(Control("finish"))
                     ELSE phase' = "failed" /\ Publish(Control("abort"))
  /\ UNCHANGED <<uploadVars, statusCh>>

\* Mutant: no ota_abort when a wait for a chunk's report fails.
LeavesSession == phase' = "failed" /\ UNCHANGED <<uploadVars, netVars>>

\* Given up, with ota_abort while the firmware is uploaded.
GiveUp ==
  /\ phase' = "failed"
  /\ IF phase = "waiting" THEN Publish(Control("abort")) ELSE UNCHANGED netVars
  /\ UNCHANGED uploadVars

\* The firmware cannot be read on, or a publish fails.
PublishFails ==
  /\ phase \in {"begin", "sending", "uploaded"} /\ (phase = "uploaded" => acked = Size)
  /\ troubles < MaxTroubles /\ phase' = "failed"
  /\ IF phase = "sending"
       THEN Carry(down, Control("abort"), 1)
       ELSE troubles' = troubles + 1 /\ UNCHANGED down
  /\ UNCHANGED <<uploadVars, statusCh, up, terminal>>

\* waitOTAStatus, called with what counts as success and as failure.  It skips
\* other reports; the only terminal, which is heard in order, sends none.
Waiting == phase \in {"starting", "waiting", "finishing"} /\ statusCh # <<>>

Fails(report) ==
  \/ phase = "starting" /\ report.status = "begin_failed"
  \/ phase = "waiting" /\ report.status \in {"bad_chunk", "chunk_failed"}
  \/ phase = "waiting" /\ report.status = "chunk" /\ report.written > offset
  \/ phase = "finishing" /\ report.status \in {"bad_finish", "finish_failed"}

TakeStarted ==
  /\ phase = "starting" /\ Waiting /\ Head(statusCh).status = "started"
  /\ phase' = "sending" /\ statusCh' = Tail(statusCh)
  /\ UNCHANGED <<uploadVars, netVars>>

\* Mutant: whole chunks are counted.
CountsWholeChunks ==
  /\ phase = "waiting" /\ Waiting
  /\ Head(statusCh).status = "chunk" /\ ~Fails(Head(statusCh))
  /\ IF Head(statusCh).written < acked
       THEN UNCHANGED <<acked, pending>>
       ELSE /\ acked' = Head(statusCh).written
            /\ pending' = (offset - acked') \div ChunkSize
  /\ phase' = LoopHead(eof, pending') /\ statusCh' = Tail(statusCh)
  /\ UNCHANGED <<file, offset, eof, netVars>>

\* A report of what is written: an old one changes nothing.
TakeAck ==
  /\ phase = "waiting" /\ Waiting
  /\ Head(statusCh).status = "chunk" /\ ~Fails(Head(statusCh))
  /\ IF Head(statusCh).written < acked
       THEN UNCHANGED <<acked, pending>>
       ELSE /\ acked' = Head(statusCh).written
            /\ pending' = (offset - acked' + ChunkSize - 1) \div ChunkSize
  /\ phase' = LoopHead(eof, pending') /\ statusCh' = Tail(statusCh)
  /\ UNCHANGED <<file, offset, eof, netVars>>

\* Mutant: any answer to ota_finish is a success.
TakesAnyAnswer ==
  /\ phase = "finishing" /\ Waiting
  /\ phase' = "ok" /\ statusCh' = Tail(statusCh)
  /\ UNCHANGED <<uploadVars, netVars>>

TakeDone ==
  /\ phase = "finishing" /\ Waiting /\ Head(statusCh).status = "done"
  /\ phase' = "ok" /\ statusCh' = Tail(statusCh)
  /\ UNCHANGED <<uploadVars, netVars>>

TakeFailure == Waiting /\ Fails(Head(statusCh)) /\ statusCh' = Tail(statusCh) /\ GiveUp

\* 180 s are over, whatever is still on its way.
Timeout ==
  phase \in {"starting", "waiting", "finishing"} /\ GiveUp /\ UNCHANGED statusCh

\* mobctl is interrupted, or loses its connection for good.
Interrupt ==
  /\ phase \notin {"ok", "failed"} /\ troubles < MaxTroubles
  /\ phase' = "failed" /\ troubles' = troubles + 1
  /\ UNCHANGED <<uploadVars, statusCh, down, up, terminal>>

-----------------------------------------------------------------------------
(* The terminal. *)

\* It takes a message, becomes something, and reports.
Take(type, state, written, status, cost) ==
  /\ down # <<>> /\ Head(down).type = type /\ down' = Tail(down)
  /\ terminal' = [state |-> state, written |-> written]
  /\ Carry(up, [status |-> status, written |-> written], cost)
  /\ UNCHANGED <<phase, uploadVars, statusCh>>

TerminalBegins ==
  /\ terminal.state = "idle"
  /\ \/ Take("begin", "receiving", 0, "started", 0)
     \/ Take("begin", "failed", 0, "begin_failed", 1)

TerminalWrites ==
  /\ terminal.state = "receiving" /\ down # <<>>
  /\ LET written == terminal.written
     IN IF Head(down).from = written
          THEN \/ Take("chunk", "receiving", written + Head(down).length, "chunk", 0)
               \/ Take("chunk", "failed", written, "chunk_failed", 1)
          ELSE Take("chunk", "failed", written, "bad_chunk", 0)

TerminalFinishes ==
  /\ terminal.state = "receiving"
  /\ LET written == terminal.written
     IN IF written = Size
          THEN \/ Take("finish", "done", written, "done", 0)
               \/ Take("finish", "failed", written, "finish_failed", 1)
          ELSE Take("finish", "failed", written, "bad_finish", 0)

\* ota_abort, and whatever comes outside a session: no report.
TerminalIgnores ==
  /\ down # <<>>
  /\ \/ Head(down).type = "abort"
     \/ terminal.state # IF Head(down).type = "begin" THEN "idle" ELSE "receiving"
  /\ down' = Tail(down)
  /\ terminal' = [terminal EXCEPT !.state =
                    IF Head(down).type = "abort" /\ @ = "receiving" THEN "idle" ELSE @]
  /\ UNCHANGED <<phase, uploadVars, statusCh, up, troubles>>

CtlStep ==
  \/ PublishBegin \/ PublishChunk \/ ReadEOF \/ PublishFinish \/ PublishFails
  \/ TakeStarted \/ TakeAck \/ TakeDone \/ TakeFailure \/ Timeout

Next ==
  \/ CtlStep \/ Interrupt \/ Callback
  \/ TerminalBegins \/ TerminalWrites \/ TerminalFinishes \/ TerminalIgnores

Spec == Init /\ [][Next]_vars

-----------------------------------------------------------------------------
TypeOK ==
  /\ file \in Files
  /\ phase \in {"begin", "starting", "sending", "waiting", "uploaded", "finishing",
                "ok", "failed"}
  /\ offset \in 0..Size /\ acked \in 0..Size /\ pending \in 0..Window /\ eof \in BOOLEAN
  /\ statusCh \in Seq(Reports) /\ Len(statusCh) <= StatusCap
  /\ down \in Seq(Messages) /\ up \in Seq(Reports)
  /\ terminal \in [state : {"idle", "receiving", "done", "failed"}, written : 0..Size]
  /\ troubles \in 0..MaxTroubles

\* Acknowledged is not more than written, written not more than sent, and the
\* pending chunks are those between sent and acknowledged, the short one at
\* the end included, whatever reports are lost or come late.  So the terminal
\* never has to hold more than a window of chunks, and neither has mobctl's
\* channel: no report is thrown away as long as it holds a window.
WindowIsEnough ==
  /\ acked <= terminal.written /\ terminal.written <= offset
  /\ pending = (offset - acked + ChunkSize - 1) \div ChunkSize
  /\ offset - terminal.written <= Window * ChunkSize
  /\ Len(up) + Len(statusCh) <= Window

\* ota_finish is published, and a success reported, only when the terminal has
\* all of the announced firmware - also when the file was cut short after its
\* digest was taken - and a success means that the terminal accepted it.
SuccessInstalls ==
  /\ phase \in {"finishing", "ok"} => terminal.written = Size
  /\ phase = "ok" => terminal.state = "done"

\* A failed run leaves the terminal in its session, to wait for the terminal's own
\* timeout, only when messages were lost or mobctl was interrupted - or, as no
\* ota_abort follows a "started" that came too late, before the first chunk.
OrphanedOnlyAtStart ==
  phase = "failed" /\ terminal.state = "receiving" /\ down = <<>> /\ troubles = 0
    => offset = 0

\* The loop can wait although nothing is pending: when the window was full with
\* the last chunk and the next report to arrive acknowledges all of it, the end
\* of the file is found after that.  It takes a window of lost reports but one,
\* or an empty file; then a complete upload times out.
WaitsForNothingOnlyAfterLosses ==
  phase = "waiting" /\ pending = 0 /\ file > 0 => troubles >= Window - 1

\* The terminal is the only device, and a member from the start.
Update == INSTANCE FirmwareUpdate WITH
  Devices <- {"terminal"}, Lead <- ChunkSize,
  members <- {"terminal"}, device <- [d \in {"terminal"} |-> terminal],
  result <- IF phase \in {"ok", "failed"} THEN phase ELSE "none"

\* The window makes the same promise as the waits of barcode-ota: the terminal
\* writes a chunk at a time and no more than was announced, installs all of the
\* firmware or nothing, and a success means that it has installed.
ImplementsUpdate == Update!Spec
=============================================================================

---------------------------- MODULE ImportClient ----------------------------
(***************************************************************************)
(* cmd/mobctl: the command `upd` against the service of ImportService.     *)
(* runImport streams the MDB file as the body of one request, through a    *)
(* pipe that a goroutine fills with gzip unless the file is compressed     *)
(* already, and waits for the response no longer than                      *)
(* CATALOG_IMPORT_TIMEOUT - the setting that also limits the import in the *)
(* service, from the moment the upload is saved.                           *)
(*                                                                         *)
(*   limit   "positive", or "none" when CATALOG_IMPORT_TIMEOUT is not:     *)
(*           http.Client takes that for no limit, the service for one      *)
(*           that is over at once                                          *)
(*   cmd     where each command is                                         *)
(*   told    what it printed: "completed", "failed" (a non-2xx response)   *)
(*           or "unknown" (no response)                                    *)
(*   body    the request's body so far: "open", "whole" or "aborted"       *)
(*   source  the reader of the MDB file, a goroutine: "reading", "complete" *)
(*           when it has copied the whole file, or "broken" off            *)
(*   conn    the connection: "open", "closed" by mobctl, or "broken"       *)
(*                                                                         *)
(* Both timers run at the same rate, and mobctl's starts before the upload *)
(* while the service's starts after it.                                    *)
(* A command that is refused before it sends anything is left out.         *)
(***************************************************************************)
EXTENDS ImportService, FiniteSets

CONSTANT MaxOperators   (* bound: operators who wait for a command at once  *)

VARIABLES limit, cmd, told, body, source, conn

clientVars == <<limit, cmd, told, body, source, conn>>
allVars == <<vars, clientVars>>

ClientInit ==
  /\ Init
  /\ limit \in {"positive", "none"}
  /\ cmd = [r \in Requests |-> "idle"]
  /\ told = [r \in Requests |-> "nothing"]
  /\ body = [r \in Requests |-> "none"]
  /\ source = [r \in Requests |-> "none"]
  /\ conn = [r \in Requests |-> "none"]

-----------------------------------------------------------------------------
(* mobctl *)

\* client.Do: the timer starts, and the body begins to flow.
Do(r) ==
  /\ cmd[r] = "idle"
  /\ Cardinality({q \in Requests : cmd[q] = "sending"}) < MaxOperators
  /\ cmd' = [cmd EXCEPT ![r] = "sending"]
  /\ body' = [body EXCEPT ![r] = "open"]
  /\ source' = [source EXCEPT ![r] = "reading"]
  /\ conn' = [conn EXCEPT ![r] = "open"]
  /\ UNCHANGED <<vars, limit, told>>

SourceEnds(r, how, ending) ==
  /\ source[r] = "reading" /\ body[r] = "open" /\ conn[r] = "open"
  /\ source' = [source EXCEPT ![r] = how]
  /\ body' = [body EXCEPT ![r] = ending]
  /\ UNCHANGED <<vars, limit, cmd, told, conn>>

\* Everything was copied: the gzip trailer, and the end of the body.
SourceComplete(r) == SourceEnds(r, "complete", "whole")

\* Mutant: the pipe is closed with the result of gzipWriter.Close alone.
TrailerHidesError(r) == SourceEnds(r, "broken", "whole")

\* The file cannot be read on.  gzipWriter.Close still writes a trailer, but
\* CloseWithError keeps the request from ever being complete.
SourceFails(r) == SourceEnds(r, "broken", "aborted")

\* Mutant: the reader is not closed.
LeavesReader(r) == cmd[r] = "returned" /\ source[r] = "none" /\ UNCHANGED allVars

\* closeReader, deferred: a goroutine that still writes gets an error.
SourceClosed(r) ==
  /\ cmd[r] = "returned" /\ source[r] = "reading"
  /\ source' = [source EXCEPT ![r] = "broken"]
  /\ UNCHANGED <<vars, limit, cmd, told, body, conn>>

\* runImport returns, and the connection goes.
Finish(r, answer) ==
  /\ cmd[r] = "sending"
  /\ cmd' = [cmd EXCEPT ![r] = "returned"]
  /\ told' = [told EXCEPT ![r] = answer]
  /\ body' = [body EXCEPT ![r] = IF @ = "open" THEN "aborted" ELSE @]
  /\ conn' = [conn EXCEPT ![r] = "closed"]
  /\ UNCHANGED <<vars, limit, source>>

\* Mutant: the status of the response is not looked at.
TakesAnyStatus(r) ==
  /\ conn[r] = "open"
  /\ resp[r] \in {"completed", "failed", "cancelled", "busy"} /\ Finish(r, "completed")

\* The response arrives, and only 2xx means success.
ReceiveResponse(r) ==
  /\ conn[r] = "open"
  /\ \/ resp[r] = "completed" /\ Finish(r, "completed")
     \/ resp[r] \in {"failed", "cancelled", "busy"} /\ Finish(r, "failed")

\* The connection or the body broke off: client.Do returns an error.
SendFails(r) == (conn[r] = "broken" \/ body[r] = "aborted") /\ Finish(r, "unknown")

\* The client's limit is over, or the operator interrupts mobctl.
GiveUp(r) == Finish(r, "unknown")

ConnectionBreaks(r) ==
  /\ conn[r] = "open"
  /\ conn' = [conn EXCEPT ![r] = "broken"]
  /\ UNCHANGED <<vars, limit, cmd, told, body, source>>

ClientStep(r) ==
  \/ Do(r) \/ SourceComplete(r) \/ SourceFails(r) \/ SourceClosed(r)
  \/ ReceiveResponse(r) \/ SendFails(r) \/ GiveUp(r) \/ ConnectionBreaks(r)

-----------------------------------------------------------------------------
(* The service sees of a client what its connection carries. *)

\* Mutant: the service's timer starts with the request, or is shorter.
OverAnyTime(r) == TRUE

\* The context ends with the connection.  Its own timer runs out only after
\* mobctl's, that is, when the connection is closed - or at once without a limit.
Over(r) == conn[r] # "open" \/ limit = "none"

Decide(r) ==
  \/ Accept(r) /\ (limit = "none" => cancelled[r])
  \/ AcceptCancelled(r)
  \/ Reject(r)

Serve(r) ==
  /\ \/ StartUpload(r) /\ body[r] # "none"
     \/ UploadFails(r)
     \/ UploadSaved(r) /\ body[r] = "whole"
     \/ ContextDone(r) /\ Over(r)
     \/ Decide(r) \/ AnswerResult(r) \/ AnswerCancelled(r)
     \/ WorkerStep(r) \/ Convert(r) \/ ParserStep(r)
  /\ UNCHANGED clientVars

ServiceCrashes ==
  /\ Crash
  /\ conn' = [r \in Requests |-> IF conn[r] = "open" THEN "broken" ELSE conn[r]]
  /\ UNCHANGED <<limit, cmd, told, body, source>>

ServiceRestarts == Restart /\ UNCHANGED clientVars

ClientNext ==
  \/ \E r \in Requests : ClientStep(r) \/ Serve(r)
  \/ ServiceCrashes \/ ServiceRestarts

ClientSpec == ClientInit /\ [][ClientNext]_allVars

\* What the Go schedulers, the timers and systemd see to: handlers, workers and
\* parsers go on where they can, files end, contexts and http.Client have their
\* timers, if there is a limit.  A client may take for ever to send its body,
\* and the converter, which runs without the context, to end.
Handle(r) == Decide(r) \/ AnswerResult(r) \/ AnswerCancelled(r)
Work(r) == \/ Gunzip(r) \/ StartParser(r) \/ BeginImport(r) \/ InsertRow(r) \/ InsertFails(r)
           \/ RowsDone(r) \/ Swap(r) \/ ImportFails(r) \/ Commit(r) \/ ReleaseSlot(r)

Fairness ==
  /\ WF_allVars(ServiceRestarts)
  /\ \A r \in Requests :
       /\ WF_allVars(ContextDone(r) /\ Over(r) /\ UNCHANGED clientVars)
       /\ WF_allVars(Handle(r) /\ UNCHANGED clientVars)
       /\ WF_allVars(Work(r) /\ UNCHANGED clientVars)
       /\ WF_allVars(ParserStep(r) /\ UNCHANGED clientVars)
       /\ WF_allVars(SourceComplete(r) \/ SourceFails(r) \/ SourceClosed(r))
       /\ WF_allVars(limit = "positive" /\ GiveUp(r))

ClientFairSpec == ClientSpec /\ Fairness

\* The converter always ends, well or badly.
ConvertersEnd ==
  \A r \in Requests : WF_allVars((Convert(r) \/ PrepareFails(r)) /\ UNCHANGED clientVars)

-----------------------------------------------------------------------------
\* README: "The response is final".  The service alone does not keep that (see
\* FailedNeverInstalled), but mobctl, which gives up before the service's limit
\* can be over, is never shown the opposite: what it prints as completed is
\* installed, and what it prints as failed is not, then or later.  Only
\* without a response the outcome is open.
ResponseIsFinal ==
  \A r \in Requests :
    /\ told[r] = "completed" => Installed(r)
    /\ told[r] = "failed" => ~Installed(r)

\* A file that could not be read to its end never becomes a catalog, although
\* what was sent of it ends like a valid gzip file; nor does one that mobctl
\* gave up half-way.
OnlyWholeFilesInstall ==
  \A r \in Requests : Installed(r) => source[r] = "complete" /\ body[r] = "whole"

\* Nobody waits for ever: the service answers a saved upload, and mobctl returns
\* and leaves no goroutine behind, though the converter hang or the service
\* be gone - the latter only with a limit.
NobodyWaitsForEver ==
  \A r \in Requests :
    /\ pc[r] = "saved" ~> pc[r] = "done"
    /\ limit = "positive" /\ cmd[r] = "sending" ~> cmd[r] = "returned" /\ source[r] # "reading"

\* The slot is given back if every converter ends, whatever its client and its
\* handler did, so that later imports are not refused for ever.
SlotIsReleased == ConvertersEnd => (slot ~> ~slot)

-----------------------------------------------------------------------------
(* The whole of it, from the file that the operator names to the catalog that *)
(* lookups see.                                                               *)

FullySent == {r \in Requests : source[r] = "complete"}
Update == INSTANCE CatalogUpdate WITH
  sent <- FullySent, catalog <- products, installed <- {r \in Requests : Installed(r)},
  Empty <- Store!Empty,
  Readings <- [r \in Requests |-> {FirstRows(r, n) : n \in 0..MaxRows}]

\* Whatever mobctl, the connection, the service's handlers, workers and parsers
\* and the ends of its process do: it is an update of the catalog as
\* CatalogUpdate has it.  The catalog goes from one whole file to the next, of a
\* request whose body had been sent to its end and whose operator was not told
\* that it failed; no step, no end of the process in particular, takes back what
\* was installed or said.
ImplementsCatalogUpdate == Update!Spec
=============================================================================

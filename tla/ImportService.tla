--------------------------- MODULE ImportService ---------------------------
(***************************************************************************)
(* cmd/catalog_service: POST /catalog/import, from the upload to the final *)
(* response.  A handler goroutine per request saves the upload and asks    *)
(* the import runner for its only slot; the runner starts a worker         *)
(* goroutine (processImport) that unpacks, converts, and imports, and the  *)
(* worker a parser goroutine (ParseCSV) that hands it rows over an         *)
(* unbuffered channel.  The handler waits for the worker or for its        *)
(* context, whichever comes first; the worker outlives a handler that gave *)
(* up, and the process can end at any moment and be started again.         *)
(*                                                                         *)
(*   up         the process runs                                           *)
(*   pc         where the handler of a request is                          *)
(*   resp       what the client got: "completed", "failed" (the worker's   *)
(*              error), "cancelled" (ctx.Err(), also a failed status),     *)
(*              "busy" (409), "refused" (405) or "cut" (no response)       *)
(*   cancelled  the request's context is done                              *)
(*   slot       importRunner.sem holds its token                           *)
(*   worker     where the worker of a request is                           *)
(*   resultCh   the worker's result, in the channel of capacity one        *)
(*   parser     where the parser of a request is                           *)
(*   handed     how many rows the parser has handed to the import          *)
(*   gz, mdb, csv   the requests whose temporary file of that kind exists  *)
(*   products, staged   the store, see Catalog                             *)
(*   installed  the requests whose catalog was installed, in order (history)*)
(*   crashes    how often the process ended                                *)
(*                                                                         *)
(* The store is driven through the operations of Catalog, which TursoStore *)
(* implements.  Row i of a request's file carries barcode i, and the       *)
(* request stands for all its other columns, so that a catalog shows which *)
(* files it was made from.                                                 *)
(***************************************************************************)
EXTENDS Naturals, Sequences

CONSTANTS Requests,    (* the import requests clients make                 *)
          NoProduct,   (* Catalog: a barcode without a row                 *)
          NoStage,     (* Catalog: no import is writing                    *)
          MaxRows,     (* bound: rows of one file                          *)
          MaxCrashes   (* bound: ends of the process                       *)

RowNumbers == 1..MaxRows

ASSUME ImportAssumption ==
  /\ NoProduct \notin Requests
  /\ NoStage \notin [RowNumbers -> Requests \cup {NoProduct}]
  /\ MaxRows \in Nat
  /\ MaxCrashes \in Nat

VARIABLES up, pc, resp, cancelled, slot, worker, resultCh, parser, handed,
          gz, mdb, csv, products, staged, installed, crashes

processVars == <<up, crashes>>
handlerVars == <<pc, resp, cancelled>>
workerVars == <<slot, worker, resultCh>>
parserVars == <<parser, handed>>
fileVars == <<gz, mdb, csv>>
storeVars == <<products, staged, installed>>
vars == <<processVars, handlerVars, workerVars, parserVars, fileVars, storeVars>>

Store == INSTANCE Catalog WITH Barcodes <- RowNumbers, Details <- Requests

\* The catalog that the first n rows of a request's file make.
FirstRows(r, n) == [i \in RowNumbers |-> IF i <= n THEN r ELSE NoProduct]

Init ==
  /\ up = TRUE /\ crashes = 0
  /\ pc = [r \in Requests |-> "new"]
  /\ resp = [r \in Requests |-> "none"]
  /\ cancelled = [r \in Requests |-> FALSE]
  /\ slot = FALSE
  /\ worker = [r \in Requests |-> "unstarted"]
  /\ resultCh = [r \in Requests |-> "empty"]
  /\ parser = [r \in Requests |-> "unstarted"]
  /\ handed = [r \in Requests |-> 0]
  /\ gz = {} /\ mdb = {} /\ csv = {}
  /\ Store!Init /\ installed = <<>>

-----------------------------------------------------------------------------
(* The handler: handleImport and importRunner.run. *)

Handling(r, here) == up /\ pc[r] = here

\* The handler returns, and its deferred cancel ends the context.
Respond(r, status) ==
  /\ pc' = [pc EXCEPT ![r] = "done"]
  /\ resp' = [resp EXCEPT ![r] = status]
  /\ cancelled' = [cancelled EXCEPT ![r] = TRUE]
  /\ UNCHANGED <<processVars, workerVars, parserVars, mdb, csv, storeVars>>

\* A method other than POST gets 405.
RefuseMethod(r) == Handling(r, "new") /\ Respond(r, "refused") /\ UNCHANGED gz

\* saveUpload creates the temporary file and copies the body into it.
StartUpload(r) ==
  /\ Handling(r, "new")
  /\ pc' = [pc EXCEPT ![r] = "saving"]
  /\ gz' = gz \cup {r}
  /\ UNCHANGED <<processVars, resp, cancelled, workerVars, parserVars, mdb, csv, storeVars>>

\* The body is too large or breaks off: 400, the file is removed.
UploadFails(r) == Handling(r, "saving") /\ Respond(r, "failed") /\ gz' = gz \ {r}

UploadSaved(r) ==
  /\ Handling(r, "saving")
  /\ pc' = [pc EXCEPT ![r] = "saved"]
  /\ UNCHANGED <<processVars, resp, cancelled, workerVars, parserVars, fileVars, storeVars>>

\* The client goes away, or CATALOG_IMPORT_TIMEOUT passes.
ContextDone(r) ==
  /\ up /\ pc[r] \in {"saved", "waiting"} /\ ~cancelled[r]
  /\ cancelled' = [cancelled EXCEPT ![r] = TRUE]
  /\ UNCHANGED <<processVars, pc, resp, workerVars, parserVars, fileVars, storeVars>>

\* Mutant: room for a second import.
AcceptsAnyway(r) ==
  /\ Handling(r, "saved")
  /\ pc' = [pc EXCEPT ![r] = "waiting"]
  /\ slot' = TRUE
  /\ worker' = [worker EXCEPT ![r] = "gunzip"]
  /\ UNCHANGED <<processVars, resp, cancelled, resultCh, parserVars, fileVars, storeVars>>

\* The first select of run: the slot is free, and the worker starts.
Accept(r) ==
  /\ Handling(r, "saved") /\ ~slot
  /\ pc' = [pc EXCEPT ![r] = "waiting"]
  /\ slot' = TRUE
  /\ worker' = [worker EXCEPT ![r] = "gunzip"]
  /\ UNCHANGED <<processVars, resp, cancelled, resultCh, parserVars, fileVars, storeVars>>

\* The same select finds the context done: reported as accepted, so that
\* nobody removes the upload.
AcceptCancelled(r) ==
  Handling(r, "saved") /\ cancelled[r] /\ Respond(r, "cancelled") /\ UNCHANGED gz

\* Mutant: the upload that is refused stays.
RejectKeepsUpload(r) ==
  /\ Handling(r, "saved") /\ slot /\ ~cancelled[r]
  /\ Respond(r, "busy") /\ UNCHANGED gz

\* Neither: the default branch, 409 Conflict.
Reject(r) ==
  /\ Handling(r, "saved") /\ slot /\ ~cancelled[r]
  /\ Respond(r, "busy") /\ gz' = gz \ {r}

\* The second select of run: the worker's result ...
AnswerResult(r) ==
  /\ Handling(r, "waiting") /\ resultCh[r] # "empty"
  /\ Respond(r, IF resultCh[r] = "ok" THEN "completed" ELSE "failed") /\ UNCHANGED gz

\* Mutant: a done context returns an empty result, without its error.
CancelledLooksDone(r) ==
  Handling(r, "waiting") /\ cancelled[r] /\ Respond(r, "completed") /\ UNCHANGED gz

\* ... or the context, also when the result is there as well.
AnswerCancelled(r) ==
  Handling(r, "waiting") /\ cancelled[r] /\ Respond(r, "cancelled") /\ UNCHANGED gz

-----------------------------------------------------------------------------
(* The worker: processImport, and the goroutine around it. *)

Running == {"gunzip", "convert", "open_csv", "begin", "rows", "swap", "committing"}

Busy(r) == worker[r] \in Running \cup {"returned"}

At(r, here) == up /\ worker[r] = here

Goto(r, there) ==
  /\ worker' = [worker EXCEPT ![r] = there]
  /\ UNCHANGED <<processVars, handlerVars, slot, resultCh>>

\* processImport returns: its deferred calls remove the files, and the result
\* goes into the channel.  The slot is given back in a later step.
Return(r, result) ==
  /\ worker' = [worker EXCEPT ![r] = "returned"]
  /\ resultCh' = [resultCh EXCEPT ![r] = result]
  /\ gz' = gz \ {r} /\ mdb' = mdb \ {r} /\ csv' = csv \ {r}
  /\ UNCHANGED <<processVars, handlerVars, slot, handed>>

\* decompressGzip.
Gunzip(r) ==
  /\ At(r, "gunzip") /\ Goto(r, "convert")
  /\ mdb' = mdb \cup {r}
  /\ UNCHANGED <<parserVars, gz, csv, storeVars>>

\* The converter runs without the context: it may take any time, or hang.
Convert(r) ==
  /\ At(r, "convert") /\ Goto(r, "open_csv")
  /\ csv' = csv \cup {r}
  /\ UNCHANGED <<parserVars, gz, mdb, storeVars>>

\* Not a gzip file (400), not a catalog (422), or no csv to open (500).
PrepareFails(r) ==
  /\ \E here \in {"gunzip", "convert", "open_csv"} : At(r, here)
  /\ Return(r, "error")
  /\ UNCHANGED <<parser, storeVars>>

\* os.Open, and ParseCSV starts the parser.
StartParser(r) ==
  /\ At(r, "open_csv") /\ Goto(r, "begin")
  /\ parser' = [parser EXCEPT ![r] = "reading"]
  /\ UNCHANGED <<handed, fileVars, storeVars>>

\* BeginTx up to the prepared insert.
BeginImport(r) ==
  /\ At(r, "begin") /\ ~cancelled[r] /\ Goto(r, "rows")
  /\ Store!Begin
  /\ UNCHANGED <<parserVars, fileVars, installed>>

\* A row comes over the channel and is inserted.
InsertRow(r) ==
  /\ At(r, "rows") /\ ~cancelled[r] /\ parser[r] = "offering"
  /\ handed' = [handed EXCEPT ![r] = @ + 1]
  /\ parser' = [parser EXCEPT ![r] = "reading"]
  /\ Store!Stage(handed[r] + 1, r)
  /\ UNCHANGED <<processVars, handlerVars, workerVars, fileVars, installed>>

\* A row comes over the channel, and its insert fails.
InsertFails(r) ==
  /\ At(r, "rows") /\ parser[r] = "offering" /\ Return(r, "error")
  /\ parser' = [parser EXCEPT ![r] = "reading"]
  /\ Store!Discard /\ UNCHANGED installed

\* Mutant: parseErrors is not read.
IgnoresParseError(r) ==
  /\ At(r, "rows") /\ parser[r] \in {"finished", "broken"} /\ Goto(r, "swap")
  /\ UNCHANGED <<parserVars, fileVars, storeVars>>

\* Mutant: the rows are over when none is ready.
StopsEarly(r) ==
  /\ At(r, "rows") /\ parser[r] # "offering" /\ Goto(r, "swap")
  /\ UNCHANGED <<parserVars, fileVars, storeVars>>

\* Both channels are closed and there was no parse error.
RowsDone(r) ==
  /\ At(r, "rows") /\ parser[r] = "finished" /\ Goto(r, "swap")
  /\ UNCHANGED <<parserVars, fileVars, storeVars>>

\* The swap, up to the point where Commit has found the context alive.
Swap(r) ==
  /\ At(r, "swap") /\ ~cancelled[r] /\ Goto(r, "committing")
  /\ UNCHANGED <<parserVars, fileVars, storeVars>>

\* The parse failed, the store did, or it saw the context done: rolled back.
ImportFails(r) ==
  /\ \/ \E here \in {"begin", "swap", "committing"} : At(r, here)
     \/ At(r, "rows") /\ parser[r] = "broken"
  /\ Return(r, "error")
  /\ Store!Discard /\ UNCHANGED <<parser, installed>>

Commit(r) ==
  /\ At(r, "committing") /\ Return(r, "ok")
  /\ Store!Install /\ installed' = Append(installed, r)
  /\ UNCHANGED parser

\* Mutant: the token is never taken out again.
KeepsSlot(r) ==
  /\ At(r, "returned")
  /\ worker' = [worker EXCEPT ![r] = "finished"]
  /\ UNCHANGED <<processVars, handlerVars, slot, resultCh, parserVars, fileVars, storeVars>>

\* Mutant: the handler that has the result takes the token out.
KeepsSlotOfCancelled(r) ==
  /\ At(r, "returned")
  /\ worker' = [worker EXCEPT ![r] = "finished"]
  /\ slot' = (resp[r] = "cancelled")
  /\ UNCHANGED <<processVars, handlerVars, resultCh, parserVars, fileVars, storeVars>>

\* The deferred receive from sem, after the result was sent.
ReleaseSlot(r) ==
  /\ At(r, "returned")
  /\ worker' = [worker EXCEPT ![r] = "finished"]
  /\ slot' = FALSE
  /\ UNCHANGED <<processVars, handlerVars, resultCh, parserVars, fileVars, storeVars>>

-----------------------------------------------------------------------------
(* The parser: the goroutine of ParseCSV.  The worker closes the file when  *)
(* it returns; a parser that was reading may have a buffered row even then. *)

Parse(r, to) ==
  /\ up /\ parser[r] = "reading"
  /\ parser' = [parser EXCEPT ![r] = to]
  /\ UNCHANGED <<processVars, handlerVars, workerVars, handed, fileVars, storeVars>>

\* A record was read; the send blocks until the import receives.
ReadRecord(r) == handed[r] < MaxRows /\ Parse(r, "offering")

\* io.EOF: a nil error, and the channels are closed.
ReadEOF(r) == Parse(r, "finished")

\* No header, a bad record, or the file was closed.
ReadError(r) == Parse(r, "broken")

-----------------------------------------------------------------------------
(* The process.  SIGTERM makes ListenAndServeTLS return at once and main    *)
(* with it, so stopping is no gentler than a crash.  The temporary files    *)
(* are gone with the container; the database is on a volume.                *)

Handled == {r \in Requests : pc[r] \in {"saving", "saved", "waiting"}}

Crash ==
  /\ up /\ crashes < MaxCrashes
  /\ up' = FALSE /\ crashes' = crashes + 1
  /\ pc' = [r \in Requests |-> IF r \in Handled THEN "done" ELSE pc[r]]
  /\ resp' = [r \in Requests |-> IF r \in Handled THEN "cut" ELSE resp[r]]
  /\ cancelled' = [r \in Requests |-> cancelled[r] \/ r \in Handled]
  /\ slot' = FALSE
  /\ worker' = [r \in Requests |-> IF Busy(r) THEN "finished" ELSE worker[r]]
  /\ parser' = [r \in Requests |-> IF parser[r] \in {"reading", "offering"}
                                     THEN "killed" ELSE parser[r]]
  /\ gz' = {} /\ mdb' = {} /\ csv' = {}
  /\ Store!Discard
  /\ UNCHANGED <<resultCh, handed, installed>>

\* Restart=always.
Restart ==
  /\ ~up /\ up' = TRUE
  /\ UNCHANGED <<crashes, handlerVars, workerVars, parserVars, fileVars, storeVars>>

HandlerStep(r) ==
  \/ RefuseMethod(r) \/ StartUpload(r) \/ UploadFails(r) \/ UploadSaved(r)
  \/ ContextDone(r) \/ Accept(r) \/ AcceptCancelled(r) \/ Reject(r)
  \/ AnswerResult(r) \/ AnswerCancelled(r)

WorkerStep(r) ==
  \/ Gunzip(r) \/ StartParser(r) \/ BeginImport(r) \/ InsertRow(r) \/ InsertFails(r)
  \/ RowsDone(r) \/ Swap(r) \/ ImportFails(r) \/ Commit(r) \/ ReleaseSlot(r)
  \/ PrepareFails(r)

ParserStep(r) == ReadRecord(r) \/ ReadEOF(r) \/ ReadError(r)

Next ==
  \/ \E r \in Requests :
       HandlerStep(r) \/ WorkerStep(r) \/ Convert(r) \/ ParserStep(r)
  \/ Crash
  \/ Restart

Spec == Init /\ [][Next]_vars

-----------------------------------------------------------------------------
TypeOK ==
  /\ up \in BOOLEAN
  /\ pc \in [Requests -> {"new", "saving", "saved", "waiting", "done"}]
  /\ resp \in [Requests -> {"none", "completed", "failed", "cancelled", "busy",
                            "refused", "cut"}]
  /\ cancelled \in [Requests -> BOOLEAN]
  /\ slot \in BOOLEAN
  /\ worker \in [Requests -> Running \cup {"unstarted", "returned", "finished"}]
  /\ resultCh \in [Requests -> {"empty", "ok", "error"}]
  /\ parser \in [Requests -> {"unstarted", "reading", "offering", "finished",
                              "broken", "killed"}]
  /\ handed \in [Requests -> 0..MaxRows]
  /\ gz \subseteq Requests /\ mdb \subseteq Requests /\ csv \subseteq Requests
  /\ Store!TypeOK
  /\ installed \in Seq(Requests)
  /\ crashes \in 0..MaxCrashes

\* At most one import at a time, whatever the handlers that started them
\* went through: the slot is taken exactly while a worker is alive.
OneImport ==
  /\ \A r, q \in Requests : Busy(r) /\ Busy(q) => r = q
  /\ slot <=> \E r \in Requests : Busy(r)

\* What an import has written so far is its own file's rows in order, and a
\* worker that is about to begin finds the store free.
StagedIsOneFile ==
  /\ \A r \in Requests : worker[r] = "begin" => staged = NoStage
  /\ staged # NoStage =>
       \E r \in Requests : /\ worker[r] \in {"rows", "swap", "committing"}
                           /\ staged = FirstRows(r, handed[r])

\* The catalog is the complete file of the last import that was installed,
\* one whose parser reached the end: never a mix of files nor part of one.
CatalogIsOneWholeFile ==
  IF installed = <<>> THEN products = Store!Empty
  ELSE LET last == installed[Len(installed)]
       IN parser[last] = "finished" /\ products = FirstRows(last, handed[last])

\* A client told "completed" has had its file installed; one that got a
\* worker's error, 409 or 405 does not have it installed, nor will it by a
\* worker that still runs.  No file is installed twice.
Installed(r) == \E i \in DOMAIN installed : installed[i] = r

ResponsesAreTrue ==
  /\ \A r \in Requests :
       /\ resp[r] = "completed" => Installed(r)
       /\ resp[r] \in {"failed", "busy", "refused"} =>
            ~Installed(r) /\ worker[r] \notin Running
  /\ \A i, j \in DOMAIN installed : installed[i] = installed[j] => i = j

\* README: "The response is final", and errors are {"status":"failed"}: a
\* client told that its import failed does not find it installed.
FailedNeverInstalled ==
  \A r \in Requests :
    resp[r] \in {"failed", "cancelled", "busy", "refused"} => ~Installed(r)

\* An upload outlives its request only when the request was cancelled before
\* it was accepted; the other files never outlive their worker.
OnlyCancelledUploadsStay ==
  /\ \A r \in gz : pc[r] = "done" /\ ~Busy(r) =>
       resp[r] = "cancelled" /\ worker[r] = "unstarted"
  /\ \A r \in mdb \cup csv : worker[r] \in Running

\* A 409 is given only while another request's worker holds the slot.
BusyMeansAnotherWorker ==
  [][\A r \in Requests : resp'[r] = "busy" /\ resp[r] # "busy" =>
       \E q \in Requests \ {r} : Busy(q)]_vars

\* The parser of an installed file has ended; one left behind, blocked on
\* its channel for ever, belongs to an import that failed in the store.
ParserLeftOnlyByFailure ==
  \A r \in Requests :
    worker[r] \in {"returned", "finished"} /\ parser[r] \in {"reading", "offering"} =>
      resultCh[r] = "error"
=============================================================================

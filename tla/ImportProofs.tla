---------------------------- MODULE ImportProofs ----------------------------
(***************************************************************************)
(* Proofs about ImportService, for every set of requests and every bound:  *)
(* one import at a time, catalogs of one whole file, responses that are    *)
(* true, and no file left behind but the upload of a request that was      *)
(* cancelled before it was accepted.                                       *)
(*                                                                         *)
(* The inductive invariant ties each request's handler, worker, parser and *)
(* result channel together (RequestInv), the store to the one worker that  *)
(* writes (StoreInv), the catalog to what was installed (CatalogInv) and   *)
(* the temporary files to the worker (FileInv).  With it, every step on    *)
(* the store is one that Catalog allows.                                   *)
(*                                                                         *)
(* And about ImportClient: what mobctl prints is final, and only whole     *)
(* files are installed.  Every step of the composition is a step of the    *)
(* service or leaves it alone, so that the service's invariant holds there *)
(* too.  ClientInv adds what the client knows: nothing was saved that was  *)
(* not sent to its end, and with a limit the service never cancels a       *)
(* request whose connection is open, while without one it never gets as    *)
(* far as the store.                                                       *)
(***************************************************************************)
EXTENDS ImportClient, TLAPS

-----------------------------------------------------------------------------
(* The service. *)

Writing == {"rows", "swap", "committing"}

StoreInv ==
  /\ \A r \in Requests : worker[r] \in Writing => staged = FirstRows(r, handed[r])
  /\ staged # NoStage => \E r \in Requests : worker[r] \in Writing

RequestInv ==
  \A r \in Requests :
    /\ pc[r] \in {"new", "saving", "saved"} => worker[r] = "unstarted"
    /\ pc[r] = "waiting" => worker[r] # "unstarted"
    /\ resp[r] # "none" => pc[r] = "done"
    /\ resp[r] = "completed" => resultCh[r] = "ok"
    /\ resp[r] = "failed" => worker[r] = "unstarted" \/ resultCh[r] = "error"
    /\ resp[r] \in {"busy", "refused"} => worker[r] = "unstarted"
    /\ resultCh[r] # "empty" => worker[r] \in {"returned", "finished"}
    /\ worker[r] = "returned" => resultCh[r] # "empty"
    /\ worker[r] \in {"unstarted", "gunzip", "convert", "open_csv"}
         => parser[r] = "unstarted"
    /\ worker[r] \in {"unstarted", "gunzip", "convert", "open_csv", "begin"}
         => handed[r] = 0
    /\ worker[r] \in {"swap", "committing"} => parser[r] = "finished"
    /\ parser[r] = "offering" => handed[r] < MaxRows
    /\ worker[r] = "finished" /\ resultCh[r] = "empty"
         => parser[r] \notin {"reading", "offering"}

CatalogInv ==
  /\ CatalogIsOneWholeFile
  /\ \A r \in Requests : Installed(r) <=> resultCh[r] = "ok"
  /\ \A r \in Requests : resultCh[r] = "ok" => parser[r] = "finished"
  /\ \A i, j \in DOMAIN installed : installed[i] = installed[j] => i = j

FileInv ==
  /\ \A r \in Requests : worker[r] \in {"returned", "finished"} => r \notin gz
  /\ \A r \in gz : pc[r] # "new"
  /\ \A r \in gz : pc[r] = "done" /\ worker[r] = "unstarted" => resp[r] = "cancelled"
  /\ \A r \in mdb \cup csv : worker[r] \in Running

IInv == TypeOK /\ OneImport /\ StoreInv /\ RequestInv /\ CatalogInv /\ FileInv

-----------------------------------------------------------------------------
(* Catalogs made of the first rows of a file. *)

\* No rows make the empty catalog, and a prefix of a file is a catalog.
LEMMA FirstRowsType ==
  ASSUME NEW r \in Requests, NEW n \in 0..MaxRows
  PROVE  /\ FirstRows(r, n) \in Store!Contents
         /\ FirstRows(r, n) # NoStage
         /\ FirstRows(r, 0) = Store!Empty
<1>1. FirstRows(r, n) \in Store!Contents
  BY DEF FirstRows, Store!Contents
<1>2. FirstRows(r, 0) = Store!Empty
  BY DEF FirstRows, Store!Empty, RowNumbers
<1> QED
  BY <1>1, <1>2, ImportAssumption DEF Store!Contents

\* The next row extends the prefix by one.
LEMMA FirstRowsNext ==
  ASSUME NEW r \in Requests, NEW n \in 0..MaxRows, n < MaxRows
  PROVE  /\ n + 1 \in RowNumbers
         /\ [FirstRows(r, n) EXCEPT ![n + 1] = r] = FirstRows(r, n + 1)
<1>1. n + 1 \in RowNumbers
  BY ImportAssumption DEF RowNumbers
<1>2. \A i \in RowNumbers : i <= n + 1 <=> i <= n \/ i = n + 1
  BY ImportAssumption DEF RowNumbers
<1> QED
  BY <1>1, <1>2 DEF FirstRows

\* Catalogs stay catalogs when an import begins and when a row is staged.
LEMMA EmptyType == Store!Empty \in Store!Contents
  BY DEF Store!Empty, Store!Contents

LEMMA StageType ==
  ASSUME NEW c \in Store!Contents, NEW i \in RowNumbers, NEW r \in Requests
  PROVE  [c EXCEPT ![i] = r] \in Store!Contents
  BY DEF Store!Contents

-----------------------------------------------------------------------------
LEMMA InitIInv == Init => IInv
<1> SUFFICES ASSUME Init PROVE IInv
  OBVIOUS
<1>1. products = Store!Empty /\ staged = NoStage
  BY DEF Init, Store!Init
<1>2. Store!TypeOK
  BY <1>1 DEF Store!TypeOK, Store!Contents, Store!Empty
<1>3. TypeOK
  <2>1. 0 \in 0..MaxRows /\ 0 \in 0..MaxCrashes
    BY ImportAssumption
  <2>2. /\ up \in BOOLEAN /\ slot \in BOOLEAN
    BY DEF Init
  <2>4. crashes \in 0..MaxCrashes /\ installed \in Seq(Requests)
    BY <2>1 DEF Init
  <2>3. /\ cancelled \in [Requests -> BOOLEAN]
        /\ handed \in [Requests -> 0..MaxRows]
    BY <2>1 DEF Init
  <2> QED
    BY <1>2, <2>2, <2>3, <2>4 DEF Init, TypeOK
<1>4. OneImport
  BY DEF Init, OneImport, Busy, Running
<1>5. StoreInv
  BY <1>1 DEF Init, StoreInv, Writing
<1>6. RequestInv
  BY DEF Init, RequestInv
<1>7. CatalogInv
  BY <1>1 DEF Init, CatalogInv, CatalogIsOneWholeFile, Installed
<1>8. FileInv
  BY DEF Init, FileInv
<1> QED
  BY <1>3, <1>4, <1>5, <1>6, <1>7, <1>8 DEF IInv

\* The store: a row extends the prefix its file's import has staged, and
\* nothing else writes, since only one worker is alive.
LEMMA StoreNext == IInv /\ [Next]_vars => StoreInv'
<1> SUFFICES ASSUME IInv, [Next]_vars PROVE StoreInv'
  OBVIOUS
<1> USE DEF IInv, processVars, handlerVars, workerVars, parserVars, fileVars,
        storeVars, StoreInv, Writing, OneImport, Busy, Running, RequestInv,
        TypeOK
<1>1. ASSUME NEW r \in Requests, HandlerStep(r) PROVE StoreInv'
  <2>1. CASE RefuseMethod(r)
    BY <2>1 DEF RefuseMethod, Handling, Respond
  <2>2. CASE StartUpload(r)
    BY <2>2 DEF StartUpload, Handling
  <2>3. CASE UploadFails(r)
    BY <2>3 DEF UploadFails, Handling, Respond
  <2>4. CASE UploadSaved(r)
    BY <2>4 DEF UploadSaved, Handling
  <2>5. CASE ContextDone(r)
    BY <2>5 DEF ContextDone
  <2>6. CASE Accept(r)
    BY <2>6 DEF Accept, Handling
  <2>7. CASE AcceptCancelled(r)
    BY <2>7 DEF AcceptCancelled, Handling, Respond
  <2>8. CASE Reject(r)
    BY <2>8 DEF Reject, Handling, Respond
  <2>9. CASE AnswerResult(r)
    BY <2>9 DEF AnswerResult, Handling, Respond
  <2>10. CASE AnswerCancelled(r)
    BY <2>10 DEF AnswerCancelled, Handling, Respond
  <2> QED
    BY <1>1, <2>1, <2>2, <2>3, <2>4, <2>5, <2>6, <2>7, <2>8, <2>9, <2>10 DEF
      HandlerStep
<1>2. ASSUME NEW r \in Requests, WorkerStep(r) PROVE StoreInv'
  <2>1. CASE Gunzip(r)
    BY <2>1 DEF Gunzip, At, Goto
  <2>2. CASE PrepareFails(r)
    BY <2>2 DEF PrepareFails, At, Return, Goto
  <2>3. CASE StartParser(r)
    BY <2>3 DEF StartParser, At, Goto
  <2>4. CASE BeginImport(r)
    BY <2>4, FirstRowsType DEF BeginImport, At, Goto, Store!Begin
  <2>5. CASE InsertRow(r)
    <3>1. /\ handed[r] \in 0..MaxRows /\ handed[r] < MaxRows
          /\ staged = FirstRows(r, handed[r])
      BY <2>5 DEF InsertRow, At
    <3>2. /\ staged' = FirstRows(r, handed[r] + 1)
          /\ handed' = [handed EXCEPT ![r] = handed[r] + 1]
          /\ worker' = worker /\ worker[r] = "rows"
      BY <2>5, <3>1, FirstRowsNext DEF InsertRow, At, Store!Stage
    <3>3. \A q \in Requests : worker[q] \in Writing => q = r
      BY <3>2
    <3>4. handed'[r] = handed[r] + 1
      BY <3>2
    <3> QED
      BY <3>2, <3>3, <3>4
  <2>6. CASE InsertFails(r)
    BY <2>6 DEF InsertFails, At, Return, Goto, Store!Discard
  <2>7. CASE RowsDone(r)
    BY <2>7 DEF RowsDone, At, Goto
  <2>8. CASE Swap(r)
    BY <2>8 DEF Swap, At, Goto
  <2>9. CASE ImportFails(r)
    BY <2>9 DEF ImportFails, At, Return, Goto, Store!Discard
  <2>10. CASE Commit(r)
    BY <2>10 DEF Commit, At, Return, Goto, Store!Install
  <2>11. CASE ReleaseSlot(r)
    BY <2>11 DEF ReleaseSlot, At, Goto
  <2> QED
    BY <1>2, <2>1, <2>2, <2>3, <2>4, <2>5, <2>6, <2>7, <2>8, <2>9, <2>10,
      <2>11 DEF WorkerStep
<1>3. ASSUME NEW r \in Requests, Convert(r) PROVE StoreInv'
  BY <1>3 DEF Convert, At, Goto
<1>4. ASSUME NEW r \in Requests, ParserStep(r) PROVE StoreInv'
  <2>1. CASE ReadRecord(r)
    BY <2>1 DEF ReadRecord, Parse
  <2>2. CASE ReadEOF(r)
    BY <2>2 DEF ReadEOF, Parse
  <2>3. CASE ReadError(r)
    BY <2>3 DEF ReadError, Parse
  <2> QED
    BY <1>4, <2>1, <2>2, <2>3 DEF ParserStep
<1>5. CASE Crash
  BY <1>5 DEF Crash, Handled, Store!Discard
<1>6. CASE Restart
  BY <1>6 DEF Restart
<1>7. CASE UNCHANGED vars
  BY <1>7 DEF vars
<1> QED
  BY <1>1, <1>2, <1>3, <1>4, <1>5, <1>6, <1>7 DEF Next

\* The catalog: only Commit changes it, to the file whose parser has ended,
\* and neither that parser nor its count of rows moves afterwards.
LEMMA CatalogNext == IInv /\ [Next]_vars => CatalogInv'
<1> SUFFICES ASSUME IInv, [Next]_vars PROVE CatalogInv'
  OBVIOUS
<1> USE DEF IInv, processVars, handlerVars, workerVars, parserVars, fileVars,
        storeVars, CatalogInv, CatalogIsOneWholeFile, Installed, RequestInv,
        TypeOK
<1>1. ASSUME NEW r \in Requests, HandlerStep(r) PROVE CatalogInv'
  <2>1. CASE RefuseMethod(r)
    BY <2>1 DEF RefuseMethod, Handling, Respond
  <2>2. CASE StartUpload(r)
    BY <2>2 DEF StartUpload, Handling
  <2>3. CASE UploadFails(r)
    BY <2>3 DEF UploadFails, Handling, Respond
  <2>4. CASE UploadSaved(r)
    BY <2>4 DEF UploadSaved, Handling
  <2>5. CASE ContextDone(r)
    BY <2>5 DEF ContextDone
  <2>6. CASE Accept(r)
    BY <2>6 DEF Accept, Handling
  <2>7. CASE AcceptCancelled(r)
    BY <2>7 DEF AcceptCancelled, Handling, Respond
  <2>8. CASE Reject(r)
    BY <2>8 DEF Reject, Handling, Respond
  <2>9. CASE AnswerResult(r)
    BY <2>9 DEF AnswerResult, Handling, Respond
  <2>10. CASE AnswerCancelled(r)
    BY <2>10 DEF AnswerCancelled, Handling, Respond
  <2> QED
    BY <1>1, <2>1, <2>2, <2>3, <2>4, <2>5, <2>6, <2>7, <2>8, <2>9, <2>10 DEF
      HandlerStep
<1>2. ASSUME NEW r \in Requests, WorkerStep(r) PROVE CatalogInv'
  <2>1. CASE Gunzip(r)
    BY <2>1 DEF Gunzip, At, Goto
  <2>2. CASE PrepareFails(r)
    BY <2>2 DEF PrepareFails, At, Return, Goto
  <2>3. CASE StartParser(r)
    BY <2>3 DEF StartParser, At, Goto
  <2>4. CASE BeginImport(r)
    BY <2>4 DEF BeginImport, At, Goto, Store!Begin
  <2>5. CASE InsertRow(r)
    BY <2>5 DEF InsertRow, At, Store!Stage
  <2>6. CASE InsertFails(r)
    BY <2>6 DEF InsertFails, At, Return, Goto, Store!Discard
  <2>7. CASE RowsDone(r)
    BY <2>7 DEF RowsDone, At, Goto
  <2>8. CASE Swap(r)
    BY <2>8 DEF Swap, At, Goto
  <2>9. CASE ImportFails(r)
    BY <2>9 DEF ImportFails, At, Return, Goto, Store!Discard
  <2>10. CASE Commit(r)
    <3>1. /\ worker[r] = "committing" /\ parser[r] = "finished"
          /\ resultCh[r] = "empty" /\ staged = FirstRows(r, handed[r])
      BY <2>10 DEF Commit, At, StoreInv, Writing
    <3>2. /\ products' = staged
          /\ installed' = Append(installed, r)
          /\ resultCh' = [resultCh EXCEPT ![r] = "ok"]
          /\ UNCHANGED <<parser, handed>>
      BY <2>10 DEF Commit, Return, Store!Install
    <3>3. installed \in Seq(Requests) /\ ~Installed(r)
      BY <3>1
    <3>4. /\ installed' # <<>> /\ installed'[Len(installed')] = r
          /\ DOMAIN installed' = DOMAIN installed \cup {Len(installed) + 1}
          /\ \A i \in DOMAIN installed : installed'[i] = installed[i]
          /\ installed'[Len(installed) + 1] = r
      BY <3>2, <3>3
    <3>5. CatalogIsOneWholeFile'
      BY <3>1, <3>2, <3>4
    <3>6. \A q \in Requests : Installed(q)' <=> resultCh'[q] = "ok"
      BY <3>2, <3>4
    <3>7. \A i, j \in DOMAIN installed' : installed'[i] = installed'[j] => i = j
      BY <3>3, <3>4
    <3>8. \A q \in Requests : resultCh'[q] = "ok" => parser'[q] = "finished"
      BY <3>1, <3>2
    <3> QED
      BY <3>5, <3>6, <3>7, <3>8
  <2>11. CASE ReleaseSlot(r)
    BY <2>11 DEF ReleaseSlot, At, Goto
  <2> QED
    BY <1>2, <2>1, <2>2, <2>3, <2>4, <2>5, <2>6, <2>7, <2>8, <2>9, <2>10,
      <2>11 DEF WorkerStep
<1>3. ASSUME NEW r \in Requests, Convert(r) PROVE CatalogInv'
  BY <1>3 DEF Convert, At, Goto
<1>4. ASSUME NEW r \in Requests, ParserStep(r) PROVE CatalogInv'
  <2>1. CASE ReadRecord(r)
    BY <2>1 DEF ReadRecord, Parse
  <2>2. CASE ReadEOF(r)
    BY <2>2 DEF ReadEOF, Parse
  <2>3. CASE ReadError(r)
    BY <2>3 DEF ReadError, Parse
  <2> QED
    BY <1>4, <2>1, <2>2, <2>3 DEF ParserStep
<1>5. CASE Crash
  BY <1>5 DEF Crash, Handled, Busy, Store!Discard
<1>6. CASE Restart
  BY <1>6 DEF Restart
<1>7. CASE UNCHANGED vars
  BY <1>7 DEF vars
<1> QED
  BY <1>1, <1>2, <1>3, <1>4, <1>5, <1>6, <1>7 DEF Next

\* Types.
LEMMA TypeNext == IInv /\ [Next]_vars => TypeOK'
<1> SUFFICES ASSUME IInv, [Next]_vars PROVE TypeOK'
  OBVIOUS
<1> USE DEF IInv, processVars, handlerVars, workerVars, parserVars, fileVars,
        storeVars, TypeOK, Store!TypeOK, Running
<1>1. ASSUME NEW r \in Requests, HandlerStep(r) PROVE TypeOK'
  <2>1. CASE RefuseMethod(r)
    BY <2>1 DEF RefuseMethod, Handling, Respond
  <2>2. CASE StartUpload(r)
    BY <2>2 DEF StartUpload, Handling
  <2>3. CASE UploadFails(r)
    BY <2>3 DEF UploadFails, Handling, Respond
  <2>4. CASE UploadSaved(r)
    BY <2>4 DEF UploadSaved, Handling
  <2>5. CASE ContextDone(r)
    BY <2>5 DEF ContextDone
  <2>6. CASE Accept(r)
    BY <2>6 DEF Accept, Handling
  <2>7. CASE AcceptCancelled(r)
    BY <2>7 DEF AcceptCancelled, Handling, Respond
  <2>8. CASE Reject(r)
    BY <2>8 DEF Reject, Handling, Respond
  <2>9. CASE AnswerResult(r)
    BY <2>9 DEF AnswerResult, Handling, Respond
  <2>10. CASE AnswerCancelled(r)
    BY <2>10 DEF AnswerCancelled, Handling, Respond
  <2> QED
    BY <1>1, <2>1, <2>2, <2>3, <2>4, <2>5, <2>6, <2>7, <2>8, <2>9, <2>10 DEF
      HandlerStep
<1>2. ASSUME NEW r \in Requests, WorkerStep(r) PROVE TypeOK'
  <2>1. CASE Gunzip(r)
    BY <2>1 DEF Gunzip, At, Goto
  <2>2. CASE PrepareFails(r)
    BY <2>2 DEF PrepareFails, At, Return, Goto
  <2>3. CASE StartParser(r)
    BY <2>3 DEF StartParser, At, Goto
  <2>4. CASE BeginImport(r)
    BY <2>4, EmptyType DEF BeginImport, At, Goto, Store!Begin
  <2>5. CASE InsertRow(r)
    <3>1. handed[r] \in 0..MaxRows /\ handed[r] < MaxRows /\ staged # NoStage
      BY <2>5 DEF InsertRow, Store!Stage, RequestInv
    <3>2. handed[r] + 1 \in RowNumbers /\ handed[r] + 1 \in 0..MaxRows
      BY <3>1, ImportAssumption DEF RowNumbers
    <3>3. staged' \in Store!Contents
      BY <2>5, <3>1, <3>2, StageType DEF InsertRow, Store!Stage
    <3> QED
      BY <2>5, <3>2, <3>3 DEF InsertRow, Store!Stage
  <2>6. CASE InsertFails(r)
    BY <2>6 DEF InsertFails, At, Return, Goto, Store!Discard
  <2>7. CASE RowsDone(r)
    BY <2>7 DEF RowsDone, At, Goto
  <2>8. CASE Swap(r)
    BY <2>8 DEF Swap, At, Goto
  <2>9. CASE ImportFails(r)
    BY <2>9 DEF ImportFails, At, Return, Goto, Store!Discard
  <2>10. CASE Commit(r)
    BY <2>10 DEF Commit, At, Return, Goto, Store!Install
  <2>11. CASE ReleaseSlot(r)
    BY <2>11 DEF ReleaseSlot, At, Goto
  <2> QED
    BY <1>2, <2>1, <2>2, <2>3, <2>4, <2>5, <2>6, <2>7, <2>8, <2>9, <2>10,
      <2>11 DEF WorkerStep
<1>3. ASSUME NEW r \in Requests, Convert(r) PROVE TypeOK'
  BY <1>3 DEF Convert, At, Goto
<1>4. ASSUME NEW r \in Requests, ParserStep(r) PROVE TypeOK'
  <2>1. CASE ReadRecord(r)
    BY <2>1 DEF ReadRecord, Parse
  <2>2. CASE ReadEOF(r)
    BY <2>2 DEF ReadEOF, Parse
  <2>3. CASE ReadError(r)
    BY <2>3 DEF ReadError, Parse
  <2> QED
    BY <1>4, <2>1, <2>2, <2>3 DEF ParserStep
<1>5. CASE Crash
  <2>1. crashes' \in 0..MaxCrashes
    BY <1>5, ImportAssumption DEF Crash, Handled, Busy
  <2>2. /\ pc' \in [Requests -> {"new", "saving", "saved", "waiting", "done"}]
        /\ resp' \in [Requests -> {"none", "completed", "failed", "cancelled",
                                   "busy", "refused", "cut"}]
    BY <1>5 DEF Crash, Handled, Busy
  <2>3. cancelled' \in [Requests -> BOOLEAN]
    <3>1. PICK cut : cancelled' = [r \in Requests |-> cancelled[r] \/ r \in cut]
      BY <1>5 DEF Crash
    <3>2. \A r \in Requests : (cancelled[r] \/ r \in cut) \in BOOLEAN
      OBVIOUS
    <3> QED
      BY <3>1, <3>2
  <2>4. /\ worker' \in [Requests -> Running \cup {"unstarted", "returned", "finished"}]
        /\ parser' \in [Requests -> {"unstarted", "reading", "offering", "finished",
                                     "broken", "killed"}]
    BY <1>5 DEF Crash, Handled, Busy
  <2> QED
    BY <1>5, <2>1, <2>2, <2>3, <2>4 DEF Crash, Handled, Busy, Store!Discard
<1>6. CASE Restart
  BY <1>6 DEF Restart
<1>7. CASE UNCHANGED vars
  BY <1>7 DEF vars
<1> QED
  BY <1>1, <1>2, <1>3, <1>4, <1>5, <1>6, <1>7 DEF Next

\* The slot: a worker is started by who takes it and gives it back last.
LEMMA OneImportNext == IInv /\ [Next]_vars => OneImport'
<1> SUFFICES ASSUME IInv, [Next]_vars PROVE OneImport'
  OBVIOUS
<1> USE DEF IInv, processVars, handlerVars, workerVars, parserVars, fileVars,
        storeVars, OneImport, Busy, Running, RequestInv, TypeOK
<1>1. ASSUME NEW r \in Requests, HandlerStep(r) PROVE OneImport'
  <2>1. CASE RefuseMethod(r)
    BY <2>1 DEF RefuseMethod, Handling, Respond
  <2>2. CASE StartUpload(r)
    BY <2>2 DEF StartUpload, Handling
  <2>3. CASE UploadFails(r)
    BY <2>3 DEF UploadFails, Handling, Respond
  <2>4. CASE UploadSaved(r)
    BY <2>4 DEF UploadSaved, Handling
  <2>5. CASE ContextDone(r)
    BY <2>5 DEF ContextDone
  <2>6. CASE Accept(r)
    BY <2>6 DEF Accept, Handling
  <2>7. CASE AcceptCancelled(r)
    BY <2>7 DEF AcceptCancelled, Handling, Respond
  <2>8. CASE Reject(r)
    BY <2>8 DEF Reject, Handling, Respond
  <2>9. CASE AnswerResult(r)
    BY <2>9 DEF AnswerResult, Handling, Respond
  <2>10. CASE AnswerCancelled(r)
    BY <2>10 DEF AnswerCancelled, Handling, Respond
  <2> QED
    BY <1>1, <2>1, <2>2, <2>3, <2>4, <2>5, <2>6, <2>7, <2>8, <2>9, <2>10 DEF
      HandlerStep
<1>2. ASSUME NEW r \in Requests, WorkerStep(r) PROVE OneImport'
  <2>1. CASE Gunzip(r)
    BY <2>1 DEF Gunzip, At, Goto
  <2>2. CASE PrepareFails(r)
    BY <2>2 DEF PrepareFails, At, Return, Goto
  <2>3. CASE StartParser(r)
    BY <2>3 DEF StartParser, At, Goto
  <2>4. CASE BeginImport(r)
    BY <2>4 DEF BeginImport, At, Goto, Store!Begin
  <2>5. CASE InsertRow(r)
    BY <2>5 DEF InsertRow, At, Store!Stage
  <2>6. CASE InsertFails(r)
    BY <2>6 DEF InsertFails, At, Return, Goto, Store!Discard
  <2>7. CASE RowsDone(r)
    BY <2>7 DEF RowsDone, At, Goto
  <2>8. CASE Swap(r)
    BY <2>8 DEF Swap, At, Goto
  <2>9. CASE ImportFails(r)
    BY <2>9 DEF ImportFails, At, Return, Goto, Store!Discard
  <2>10. CASE Commit(r)
    BY <2>10 DEF Commit, At, Return, Goto, Store!Install
  <2>11. CASE ReleaseSlot(r)
    BY <2>11 DEF ReleaseSlot, At, Goto
  <2> QED
    BY <1>2, <2>1, <2>2, <2>3, <2>4, <2>5, <2>6, <2>7, <2>8, <2>9, <2>10,
      <2>11 DEF WorkerStep
<1>3. ASSUME NEW r \in Requests, Convert(r) PROVE OneImport'
  BY <1>3 DEF Convert, At, Goto
<1>4. ASSUME NEW r \in Requests, ParserStep(r) PROVE OneImport'
  <2>1. CASE ReadRecord(r)
    BY <2>1 DEF ReadRecord, Parse
  <2>2. CASE ReadEOF(r)
    BY <2>2 DEF ReadEOF, Parse
  <2>3. CASE ReadError(r)
    BY <2>3 DEF ReadError, Parse
  <2> QED
    BY <1>4, <2>1, <2>2, <2>3 DEF ParserStep
<1>5. CASE Crash
  BY <1>5 DEF Crash, Handled, Store!Discard
<1>6. CASE Restart
  BY <1>6 DEF Restart
<1>7. CASE UNCHANGED vars
  BY <1>7 DEF vars
<1> QED
  BY <1>1, <1>2, <1>3, <1>4, <1>5, <1>6, <1>7 DEF Next

\* Each request's handler, worker, parser and result channel agree.
LEMMA RequestNext == IInv /\ [Next]_vars => RequestInv'
<1> SUFFICES ASSUME IInv, [Next]_vars PROVE RequestInv'
  OBVIOUS
<1> USE DEF IInv, processVars, handlerVars, workerVars, parserVars, fileVars,
        storeVars, RequestInv, Running, TypeOK
<1>1. ASSUME NEW r \in Requests, HandlerStep(r) PROVE RequestInv'
  <2>1. CASE RefuseMethod(r)
    BY <2>1 DEF RefuseMethod, Handling, Respond
  <2>2. CASE StartUpload(r)
    BY <2>2 DEF StartUpload, Handling
  <2>3. CASE UploadFails(r)
    BY <2>3 DEF UploadFails, Handling, Respond
  <2>4. CASE UploadSaved(r)
    BY <2>4 DEF UploadSaved, Handling
  <2>5. CASE ContextDone(r)
    BY <2>5 DEF ContextDone
  <2>6. CASE Accept(r)
    BY <2>6 DEF Accept, Handling
  <2>7. CASE AcceptCancelled(r)
    BY <2>7 DEF AcceptCancelled, Handling, Respond
  <2>8. CASE Reject(r)
    BY <2>8 DEF Reject, Handling, Respond
  <2>9. CASE AnswerResult(r)
    BY <2>9 DEF AnswerResult, Handling, Respond
  <2>10. CASE AnswerCancelled(r)
    BY <2>10 DEF AnswerCancelled, Handling, Respond
  <2> QED
    BY <1>1, <2>1, <2>2, <2>3, <2>4, <2>5, <2>6, <2>7, <2>8, <2>9, <2>10 DEF
      HandlerStep
<1>2. ASSUME NEW r \in Requests, WorkerStep(r) PROVE RequestInv'
  <2>1. CASE Gunzip(r)
    BY <2>1 DEF Gunzip, At, Goto
  <2>2. CASE PrepareFails(r)
    BY <2>2 DEF PrepareFails, At, Return, Goto
  <2>3. CASE StartParser(r)
    BY <2>3 DEF StartParser, At, Goto
  <2>4. CASE BeginImport(r)
    BY <2>4 DEF BeginImport, At, Goto, Store!Begin
  <2>5. CASE InsertRow(r)
    BY <2>5 DEF InsertRow, At, Store!Stage
  <2>6. CASE InsertFails(r)
    BY <2>6 DEF InsertFails, At, Return, Goto, Store!Discard
  <2>7. CASE RowsDone(r)
    BY <2>7 DEF RowsDone, At, Goto
  <2>8. CASE Swap(r)
    BY <2>8 DEF Swap, At, Goto
  <2>9. CASE ImportFails(r)
    BY <2>9 DEF ImportFails, At, Return, Goto, Store!Discard
  <2>10. CASE Commit(r)
    BY <2>10 DEF Commit, At, Return, Goto, Store!Install
  <2>11. CASE ReleaseSlot(r)
    BY <2>11 DEF ReleaseSlot, At, Goto
  <2> QED
    BY <1>2, <2>1, <2>2, <2>3, <2>4, <2>5, <2>6, <2>7, <2>8, <2>9, <2>10,
      <2>11 DEF WorkerStep
<1>3. ASSUME NEW r \in Requests, Convert(r) PROVE RequestInv'
  BY <1>3 DEF Convert, At, Goto
<1>4. ASSUME NEW r \in Requests, ParserStep(r) PROVE RequestInv'
  <2>1. CASE ReadRecord(r)
    BY <2>1 DEF ReadRecord, Parse
  <2>2. CASE ReadEOF(r)
    BY <2>2 DEF ReadEOF, Parse
  <2>3. CASE ReadError(r)
    BY <2>3 DEF ReadError, Parse
  <2> QED
    BY <1>4, <2>1, <2>2, <2>3 DEF ParserStep
<1>5. CASE Crash
  BY <1>5 DEF Crash, Handled, Busy, Store!Discard
<1>6. CASE Restart
  BY <1>6 DEF Restart
<1>7. CASE UNCHANGED vars
  BY <1>7 DEF vars
<1> QED
  BY <1>1, <1>2, <1>3, <1>4, <1>5, <1>6, <1>7 DEF Next

\* The temporary files: processImport removes what it was given and made.
LEMMA FileNext == IInv /\ [Next]_vars => FileInv'
<1> SUFFICES ASSUME IInv, [Next]_vars PROVE FileInv'
  OBVIOUS
<1> USE DEF IInv, processVars, handlerVars, workerVars, parserVars, fileVars,
        storeVars, FileInv, RequestInv, Running, TypeOK
<1>1. ASSUME NEW r \in Requests, HandlerStep(r) PROVE FileInv'
  <2>1. CASE RefuseMethod(r)
    BY <2>1 DEF RefuseMethod, Handling, Respond
  <2>2. CASE StartUpload(r)
    BY <2>2 DEF StartUpload, Handling
  <2>3. CASE UploadFails(r)
    BY <2>3 DEF UploadFails, Handling, Respond
  <2>4. CASE UploadSaved(r)
    BY <2>4 DEF UploadSaved, Handling
  <2>5. CASE ContextDone(r)
    BY <2>5 DEF ContextDone
  <2>6. CASE Accept(r)
    BY <2>6 DEF Accept, Handling
  <2>7. CASE AcceptCancelled(r)
    BY <2>7 DEF AcceptCancelled, Handling, Respond
  <2>8. CASE Reject(r)
    BY <2>8 DEF Reject, Handling, Respond
  <2>9. CASE AnswerResult(r)
    BY <2>9 DEF AnswerResult, Handling, Respond
  <2>10. CASE AnswerCancelled(r)
    BY <2>10 DEF AnswerCancelled, Handling, Respond
  <2> QED
    BY <1>1, <2>1, <2>2, <2>3, <2>4, <2>5, <2>6, <2>7, <2>8, <2>9, <2>10 DEF
      HandlerStep
<1>2. ASSUME NEW r \in Requests, WorkerStep(r) PROVE FileInv'
  <2>1. CASE Gunzip(r)
    BY <2>1 DEF Gunzip, At, Goto
  <2>2. CASE PrepareFails(r)
    BY <2>2 DEF PrepareFails, At, Return, Goto
  <2>3. CASE StartParser(r)
    BY <2>3 DEF StartParser, At, Goto
  <2>4. CASE BeginImport(r)
    BY <2>4 DEF BeginImport, At, Goto, Store!Begin
  <2>5. CASE InsertRow(r)
    BY <2>5 DEF InsertRow, At, Store!Stage
  <2>6. CASE InsertFails(r)
    BY <2>6 DEF InsertFails, At, Return, Goto, Store!Discard
  <2>7. CASE RowsDone(r)
    BY <2>7 DEF RowsDone, At, Goto
  <2>8. CASE Swap(r)
    BY <2>8 DEF Swap, At, Goto
  <2>9. CASE ImportFails(r)
    BY <2>9 DEF ImportFails, At, Return, Goto, Store!Discard
  <2>10. CASE Commit(r)
    BY <2>10 DEF Commit, At, Return, Goto, Store!Install
  <2>11. CASE ReleaseSlot(r)
    BY <2>11 DEF ReleaseSlot, At, Goto
  <2> QED
    BY <1>2, <2>1, <2>2, <2>3, <2>4, <2>5, <2>6, <2>7, <2>8, <2>9, <2>10,
      <2>11 DEF WorkerStep
<1>3. ASSUME NEW r \in Requests, Convert(r) PROVE FileInv'
  BY <1>3 DEF Convert, At, Goto
<1>4. ASSUME NEW r \in Requests, ParserStep(r) PROVE FileInv'
  <2>1. CASE ReadRecord(r)
    BY <2>1 DEF ReadRecord, Parse
  <2>2. CASE ReadEOF(r)
    BY <2>2 DEF ReadEOF, Parse
  <2>3. CASE ReadError(r)
    BY <2>3 DEF ReadError, Parse
  <2> QED
    BY <1>4, <2>1, <2>2, <2>3 DEF ParserStep
<1>5. CASE Crash
  BY <1>5 DEF Crash, Handled, Busy, Store!Discard
<1>6. CASE Restart
  BY <1>6 DEF Restart
<1>7. CASE UNCHANGED vars
  BY <1>7 DEF vars
<1> QED
  BY <1>1, <1>2, <1>3, <1>4, <1>5, <1>6, <1>7 DEF Next

THEOREM Invariance == Spec => []IInv
<1>1. Init => IInv
  BY InitIInv
<1>2. IInv /\ [Next]_vars => IInv'
  BY TypeNext, OneImportNext, StoreNext, RequestNext, CatalogNext, FileNext DEF IInv
<1> QED
  BY <1>1, <1>2, PTL DEF Spec

-----------------------------------------------------------------------------
(* The properties of ImportService. *)

\* Type correctness.
THEOREM TypeCorrect == Spec => []TypeOK
<1>1. IInv => TypeOK
  BY DEF IInv
<1> QED
  BY <1>1, Invariance, PTL

\* However many requests race for it, at most one import runs, and the slot
\* is taken exactly as long.
THEOREM MutualExclusion == Spec => []OneImport
<1>1. IInv => OneImport
  BY DEF IInv
<1> QED
  BY <1>1, Invariance, PTL

\* The store never holds rows of two files.
THEOREM StagingIsOneFile == Spec => []StagedIsOneFile
<1>1. IInv => StagedIsOneFile
  <2> SUFFICES ASSUME IInv PROVE StagedIsOneFile
    OBVIOUS
  <2> USE DEF IInv
  <2>1. ASSUME NEW r \in Requests, worker[r] = "begin" PROVE staged = NoStage
    <3>1. \A q \in Requests : worker[q] \notin Writing
      BY <2>1 DEF OneImport, Busy, Running, Writing
    <3> QED
      BY <3>1 DEF StoreInv
  <2> QED
    BY <2>1 DEF StagedIsOneFile, StoreInv, Writing
<1> QED
  BY <1>1, Invariance, PTL

\* Lookups are answered from one complete file.
THEOREM CatalogIsWhole == Spec => []CatalogIsOneWholeFile
<1>1. IInv => CatalogIsOneWholeFile
  BY DEF IInv, CatalogInv
<1> QED
  BY <1>1, Invariance, PTL

\* "completed" means installed, a worker's error, 409 and 405 not installed.
THEOREM ResponsesHold == Spec => []ResponsesAreTrue
<1>1. IInv => ResponsesAreTrue
  BY DEF IInv, CatalogInv, RequestInv, ResponsesAreTrue, Running, TypeOK
<1> QED
  BY <1>1, Invariance, PTL

\* Only the upload of a request cancelled before its turn is left behind.
THEOREM UploadsAreRemoved == Spec => []OnlyCancelledUploadsStay
<1>1. IInv => OnlyCancelledUploadsStay
  BY DEF IInv, FileInv, RequestInv, TypeOK, OnlyCancelledUploadsStay, Busy, Running
<1> QED
  BY <1>1, Invariance, PTL

\* A parser left blocked on its channel is one of an import that failed.
THEOREM ParsersEnd == Spec => []ParserLeftOnlyByFailure
<1>1. IInv => ParserLeftOnlyByFailure
  BY DEF IInv, CatalogInv, RequestInv, TypeOK, ParserLeftOnlyByFailure
<1> QED
  BY <1>1, Invariance, PTL

\* 409 is given only while another request's worker holds the slot.
THEOREM BusyIsTrue == Spec => BusyMeansAnotherWorker
<1> DEFINE BusyStep == \A r \in Requests : resp'[r] = "busy" /\ resp[r] # "busy" =>
                         \E q \in Requests \ {r} : Busy(q)
<1>1. IInv /\ [Next]_vars => [BusyStep]_vars
  <2> SUFFICES ASSUME IInv, Next, NEW r \in Requests,
                      resp'[r] = "busy", resp[r] # "busy"
               PROVE  \E q \in Requests \ {r} : Busy(q)
    BY DEF vars
  <2> USE DEF IInv
  <2>1. CASE \E q \in Requests : HandlerStep(q)
    <3> PICK q \in Requests : HandlerStep(q)
      BY <2>1
    <3>1. q = r /\ Reject(r)
      BY DEF HandlerStep, RefuseMethod, StartUpload, UploadFails, UploadSaved,
             ContextDone, Accept, AcceptCancelled, Reject, AnswerResult,
             AnswerCancelled, Handling, Respond, TypeOK
    <3>2. slot /\ worker[r] = "unstarted"
      BY <3>1 DEF Reject, Handling, RequestInv
    <3> QED
      BY <3>2 DEF OneImport, Busy, Running
  <2>2. CASE \E q \in Requests : WorkerStep(q) \/ Convert(q) \/ ParserStep(q)
    BY <2>2 DEF WorkerStep, ParserStep, Gunzip, PrepareFails, StartParser, BeginImport,
         InsertRow, InsertFails, RowsDone, Swap, ImportFails, Commit, ReleaseSlot,
         Convert, Goto, Return, ReadRecord, ReadEOF, ReadError, Parse, handlerVars
  <2>3. CASE Crash \/ Restart
    BY <2>3 DEF Crash, Handled, Busy, Restart, handlerVars
  <2> QED
    BY <2>1, <2>2, <2>3 DEF Next
<1> QED
  BY <1>1, Invariance, PTL DEF Spec, BusyMeansAnotherWorker

\* Handlers that give up, workers that go on, crashes: whatever they do, the store is
\* used as Catalog allows.  No row is inserted outside an import, nor one that a file
\* cannot have, and no import begins while another is writing.
THEOREM StoreIsUsedAsPromised == Spec => Store!Spec
<1>1. Init => Store!Init
  BY DEF Init
<1>2. IInv /\ [Next]_vars => [Store!Next]_Store!vars
  <2> SUFFICES ASSUME IInv, [Next]_vars, ~UNCHANGED Store!vars
               PROVE  Store!Next
    OBVIOUS
  <2> USE DEF Store!vars, storeVars
  <2>1. CASE \E r \in Requests : HandlerStep(r) \/ Convert(r) \/ ParserStep(r)
    BY <2>1 DEF HandlerStep, RefuseMethod, StartUpload, UploadFails, UploadSaved,
       ContextDone, Accept, AcceptCancelled, Reject, AnswerResult, AnswerCancelled,
       Respond, Convert, ParserStep, ReadRecord, ReadEOF, ReadError, Parse
  <2>2. ASSUME NEW r \in Requests, WorkerStep(r) PROVE Store!Next
    <3>1. CASE BeginImport(r)
      BY <3>1 DEF BeginImport, Store!Next
    <3>2. CASE InsertRow(r)
      <4>1. handed[r] + 1 \in RowNumbers
        BY <3>2, ImportAssumption DEF InsertRow, IInv, TypeOK, RequestInv, RowNumbers, ImportAssumption
      <4> QED
        BY <3>2, <4>1 DEF InsertRow, Store!Next
    <3>3. CASE InsertFails(r) \/ ImportFails(r)
      BY <3>3 DEF InsertFails, ImportFails, Store!Next
    <3>4. CASE Commit(r)
      BY <3>4 DEF Commit, Store!Next
    <3>5. CASE Gunzip(r) \/ StartParser(r) \/ RowsDone(r) \/ Swap(r) \/ ReleaseSlot(r) \/ PrepareFails(r)
      BY <3>5 DEF Gunzip, StartParser, RowsDone, Swap, ReleaseSlot, PrepareFails
    <3> QED
      BY <2>2, <3>1, <3>2, <3>3, <3>4, <3>5 DEF WorkerStep
  <2>3. CASE Crash
    BY <2>3 DEF Crash, Store!Next
  <2>4. CASE Restart \/ UNCHANGED vars
    BY <2>4 DEF Restart, vars
  <2> QED
    BY <2>1, <2>2, <2>3, <2>4 DEF Next
<1> QED
  BY <1>1, <1>2, Invariance, PTL DEF Spec, Store!Spec

-----------------------------------------------------------------------------
(* The service and its client. *)

ClientTypes ==
  /\ limit \in {"positive", "none"}
  /\ cmd \in [Requests -> {"idle", "sending", "returned"}]
  /\ told \in [Requests -> {"nothing", "completed", "failed", "unknown"}]
  /\ body \in [Requests -> {"none", "open", "whole", "aborted"}]
  /\ source \in [Requests -> {"none", "reading", "complete", "broken"}]
  /\ conn \in [Requests -> {"none", "open", "closed", "broken"}]

\* The service has a request only after it was sent, a file only if all was.
SentFirst ==
  \A r \in Requests :
    /\ cmd[r] = "idle" => body[r] = "none"
    /\ body[r] = "whole" => source[r] = "complete"
    /\ body[r] = "none" => pc[r] = "new"
    /\ pc[r] = "new" => ~cancelled[r]
    /\ pc[r] \in {"saved", "waiting"} \/ worker[r] # "unstarted" => body[r] = "whole"

\* Whose context can be done.
Limits ==
  \A r \in Requests :
    /\ limit = "positive" /\ ((pc[r] # "done" /\ cancelled[r]) \/ resp[r] = "cancelled")
         => conn[r] # "open"
    /\ limit = "none" => /\ worker[r] # "unstarted" => cancelled[r]
                         /\ worker[r] \notin Writing
                         /\ resultCh[r] # "ok"

\* What was printed is what the service had answered.
ToldInv ==
  \A r \in Requests :
    /\ told[r] = "completed" => resp[r] = "completed"
    /\ told[r] = "failed" =>
         resp[r] \in {"failed", "busy"} \/ (resp[r] = "cancelled" /\ limit = "none")

\* Nothing is read before the command runs, nobody was told anything before it is
\* over, and with the command its connection goes.
WaitingInv ==
  \A r \in Requests :
    /\ cmd[r] = "idle" => source[r] = "none"
    /\ cmd[r] # "returned" => told[r] = "nothing"
    /\ conn[r] = "open" => cmd[r] = "sending"

ClientInv == ClientTypes /\ SentFirst /\ Limits /\ ToldInv /\ WaitingInv

-----------------------------------------------------------------------------
LEMMA ClientInitInv == ClientInit => ClientInv
  BY DEF ClientInit, Init, ClientInv, ClientTypes, SentFirst, Limits, ToldInv, WaitingInv, Writing

\* The service does nothing in the composition that it does not do alone.
LEMMA ServiceStep == [ClientNext]_allVars => [Next]_vars
<1>1. ASSUME NEW r \in Requests, ClientStep(r) PROVE UNCHANGED vars
  BY <1>1 DEF ClientStep, Do, SourceComplete, SourceFails, SourceEnds, SourceClosed,
     ReceiveResponse, SendFails, GiveUp, Finish, ConnectionBreaks
<1>2. ASSUME NEW r \in Requests, Serve(r) PROVE Next
  BY <1>2 DEF Serve, Decide, HandlerStep, Next
<1> QED
  BY <1>1, <1>2 DEF ClientNext, ServiceCrashes, ServiceRestarts, Next, allVars

\* mobctl's own steps.
LEMMA ClientSide ==
  ASSUME IInv, ClientInv, NEW r \in Requests, ClientStep(r)
  PROVE  ClientInv'
<1> USE DEF ClientInv, ClientTypes, SentFirst, Limits, ToldInv, WaitingInv, vars, processVars,
        handlerVars, workerVars, IInv, RequestInv
<1>1. CASE Do(r)
  BY <1>1 DEF Do
<1>2. CASE SourceEnds(r, "complete", "whole") \/ SourceEnds(r, "broken", "aborted")
  BY <1>2 DEF SourceEnds
<1>3. CASE SourceClosed(r)
  BY <1>3 DEF SourceClosed
<1>4. CASE ReceiveResponse(r)
  BY <1>4 DEF ReceiveResponse, Finish
<1>5. CASE SendFails(r) \/ GiveUp(r)
  BY <1>5 DEF SendFails, GiveUp, Finish
<1>6. CASE ConnectionBreaks(r)
  BY <1>6 DEF ConnectionBreaks
<1> QED
  BY <1>1, <1>2, <1>3, <1>4, <1>5, <1>6 DEF ClientStep, SourceComplete, SourceFails

\* The service's steps, as far as the connection lets them happen.
LEMMA ServiceSide ==
  ASSUME IInv, ClientInv, NEW r \in Requests, Serve(r)
  PROVE  ClientInv'
<1> USE DEF ClientInv, ClientTypes, SentFirst, Limits, ToldInv, WaitingInv, clientVars, processVars,
        handlerVars, workerVars, IInv, RequestInv, TypeOK, Writing, Running
<1>0. UNCHANGED clientVars
  BY DEF Serve
<1>1. CASE StartUpload(r) /\ body[r] # "none"
  BY <1>0, <1>1 DEF StartUpload, Handling
<1>2. CASE UploadFails(r)
  <2>1. /\ pc[r] = "saving" /\ resp[r] = "none"
        /\ pc' = [pc EXCEPT ![r] = "done"] /\ resp' = [resp EXCEPT ![r] = "failed"]
        /\ cancelled' = [cancelled EXCEPT ![r] = TRUE] /\ UNCHANGED workerVars
    BY <1>2 DEF UploadFails, Handling, Respond
  <2>2. ClientTypes' /\ SentFirst'
    BY <1>0, <2>1
  <2>3. Limits' /\ ToldInv' /\ WaitingInv'
    BY <1>0, <2>1
  <2> QED
    BY <2>2, <2>3
<1>3. CASE UploadSaved(r) /\ body[r] = "whole"
  BY <1>0, <1>3 DEF UploadSaved, Handling
<1>4. CASE ContextDone(r) /\ Over(r)
  BY <1>0, <1>4 DEF ContextDone, Over
<1>5. CASE Accept(r) /\ (limit = "none" => cancelled[r])
  BY <1>0, <1>5 DEF Accept, Handling
<1>6. CASE AcceptCancelled(r)
  <2>1. /\ pc[r] = "saved" /\ resp[r] = "none" /\ cancelled[r]
        /\ pc' = [pc EXCEPT ![r] = "done"] /\ resp' = [resp EXCEPT ![r] = "cancelled"]
        /\ cancelled' = [cancelled EXCEPT ![r] = TRUE] /\ UNCHANGED workerVars
    BY <1>6 DEF AcceptCancelled, Handling, Respond
  <2>2. ClientTypes' /\ SentFirst'
    BY <1>0, <2>1
  <2>3. Limits'
    BY <1>0, <2>1
  <2>4. ToldInv' /\ WaitingInv'
    BY <1>0, <2>1
  <2> QED
    BY <2>2, <2>3, <2>4
<1>16. CASE Reject(r)
  <2>1. /\ pc[r] = "saved" /\ resp[r] = "none"
        /\ pc' = [pc EXCEPT ![r] = "done"] /\ resp' = [resp EXCEPT ![r] = "busy"]
        /\ cancelled' = [cancelled EXCEPT ![r] = TRUE] /\ UNCHANGED workerVars
    BY <1>16 DEF Reject, Handling, Respond
  <2>2. ClientTypes' /\ SentFirst'
    BY <1>0, <2>1
  <2>3. Limits'
    BY <1>0, <2>1
  <2>4. ToldInv' /\ WaitingInv'
    BY <1>0, <2>1
  <2> QED
    BY <2>2, <2>3, <2>4
<1>7. CASE AnswerResult(r)
  BY <1>0, <1>7 DEF AnswerResult, Handling, Respond
<1>8. CASE AnswerCancelled(r)
  <2>1. /\ pc[r] = "waiting" /\ resp[r] = "none" /\ cancelled[r]
        /\ pc' = [pc EXCEPT ![r] = "done"] /\ resp' = [resp EXCEPT ![r] = "cancelled"]
        /\ cancelled' = [cancelled EXCEPT ![r] = TRUE] /\ UNCHANGED workerVars
    BY <1>8 DEF AnswerCancelled, Handling, Respond
  <2>2. ClientTypes' /\ SentFirst'
    BY <1>0, <2>1
  <2>3. Limits'
    BY <1>0, <2>1
  <2>4. ToldInv' /\ WaitingInv'
    BY <1>0, <2>1
  <2> QED
    BY <2>2, <2>3, <2>4
<1>9. CASE Gunzip(r) \/ Convert(r) \/ StartParser(r)
  BY <1>0, <1>9 DEF Gunzip, Convert, StartParser, At, Goto
<1>10. CASE BeginImport(r)
  BY <1>0, <1>10 DEF BeginImport, At, Goto
<1>11. CASE RowsDone(r) \/ Swap(r)
  BY <1>0, <1>11 DEF RowsDone, Swap, At, Goto
<1>12. CASE InsertRow(r) \/ ParserStep(r)
  BY <1>0, <1>12 DEF InsertRow, ParserStep, ReadRecord, ReadEOF, ReadError, Parse
<1>13. CASE PrepareFails(r) \/ InsertFails(r) \/ ImportFails(r)
  BY <1>0, <1>13 DEF PrepareFails, InsertFails, ImportFails, At, Return
<1>14. CASE Commit(r)
  BY <1>0, <1>14 DEF Commit, At, Return
<1>15. CASE ReleaseSlot(r)
  BY <1>0, <1>15 DEF ReleaseSlot, At
<1> QED
  BY <1>1, <1>2, <1>3, <1>4, <1>5, <1>6, <1>7, <1>8, <1>9, <1>10, <1>11, <1>12, <1>13,
     <1>14, <1>15, <1>16 DEF Serve, Decide, WorkerStep

LEMMA ClientNextInv == IInv /\ ClientInv /\ [ClientNext]_allVars => ClientInv'
<1> SUFFICES ASSUME IInv, ClientInv, [ClientNext]_allVars PROVE ClientInv'
  OBVIOUS
<1> USE DEF ClientInv, ClientTypes, SentFirst, Limits, ToldInv, WaitingInv, vars, clientVars,
        processVars, handlerVars, workerVars
<1>1. CASE ServiceCrashes
  <2>1. ClientTypes' /\ SentFirst' /\ Limits' /\ ToldInv'
    BY <1>1 DEF ServiceCrashes, Crash, Handled, Busy, Running, Writing, IInv, RequestInv, TypeOK
  <2>2. WaitingInv'
    BY <1>1 DEF ServiceCrashes
  <2> QED
    BY <2>1, <2>2
<1>2. CASE ServiceRestarts
  BY <1>2 DEF ServiceRestarts, Restart
<1>3. CASE UNCHANGED allVars
  BY <1>3 DEF allVars
<1> QED
  BY <1>1, <1>2, <1>3, ClientSide, ServiceSide DEF ClientNext

\* The service behind mobctl is the service: with a client in front of it, whose
\* connection decides what it sees of a request, it does nothing that ImportService
\* does not allow, so that all that is proved of ImportService holds here too.
THEOREM ServiceIsTheService == ClientSpec => Spec
<1>1. ClientInit => Init
  BY DEF ClientInit
<1> QED
  BY <1>1, ServiceStep, PTL DEF ClientSpec, Spec

\* The service keeps its own invariant when mobctl is its client.
LEMMA ServiceHolds == ClientSpec => []IInv
BY ServiceIsTheService, Invariance, PTL

LEMMA ClientInvariance == ClientSpec => []ClientInv
  BY ClientInitInv, ClientNextInv, ServiceHolds, PTL DEF ClientSpec

-----------------------------------------------------------------------------
\* For any number of commands, crashes and broken connections: what mobctl
\* prints as completed is installed, what it prints as failed never is.
THEOREM PrintedIsFinal == ClientSpec => []ResponseIsFinal
<1>1. IInv /\ ClientInv => ResponseIsFinal
  BY DEF IInv, RequestInv, CatalogInv, ClientInv, Limits, ToldInv, ResponseIsFinal
<1> QED
  BY <1>1, ServiceHolds, ClientInvariance, PTL

\* A file that mobctl could not read, or send, to its end is never installed.
THEOREM WholeFilesOnly == ClientSpec => []OnlyWholeFilesInstall
<1>1. IInv /\ ClientInv => OnlyWholeFilesInstall
  BY DEF IInv, RequestInv, CatalogInv, ClientInv, SentFirst, OnlyWholeFilesInstall
<1> QED
  BY <1>1, ServiceHolds, ClientInvariance, PTL

-----------------------------------------------------------------------------
(* The service and its client implement CatalogUpdate.  A step of the whole   *)
(* is one of its steps or leaves alone what it can see: only Commit changes   *)
(* the catalog, only Finish says something, only SourceComplete completes a   *)
(* file.                                                                      *)

LEMMA SendRefines ==
  ASSUME ClientInv, NEW r \in Requests, SourceComplete(r)
  PROVE  Update!Send(r)
<1>1. /\ source[r] = "reading" /\ conn[r] = "open"
      /\ source' = [source EXCEPT ![r] = "complete"] /\ UNCHANGED <<vars, told>>
  BY DEF SourceComplete, SourceEnds
<1>2. FullySent' = FullySent \cup {r} /\ r \notin FullySent
  BY <1>1 DEF FullySent, ClientInv, ClientTypes
<1>3. told[r] = "nothing"
  BY <1>1 DEF ClientInv, WaitingInv
<1>4. products' = products /\ told' = told
      /\ {q \in Requests : Installed(q)}' = {q \in Requests : Installed(q)}
  BY <1>1 DEF vars, storeVars, Installed
<1> QED
  BY <1>2, <1>3, <1>4 DEF Update!Send

LEMMA TellRefines ==
  ASSUME IInv, ClientInv, ClientInv', NEW r \in Requests, NEW answer, Finish(r, answer),
         answer \in {"completed", "failed", "unknown"}
  PROVE  Update!Tell(r)
<1>1. /\ cmd[r] = "sending" /\ told' = [told EXCEPT ![r] = answer]
      /\ UNCHANGED <<vars, source>>
  BY DEF Finish
<1>2. told[r] = "nothing" /\ told'[r] = answer
  BY <1>1 DEF ClientInv, WaitingInv, ClientTypes
<1>3. Installed(r) <=> resultCh[r] = "ok"
  BY DEF IInv, CatalogInv
<1>4. resp' = resp /\ resultCh' = resultCh /\ worker' = worker /\ conn' = [conn EXCEPT ![r] = "closed"]
  BY <1>1 DEF vars, handlerVars, workerVars, Finish
<1>5. answer = "completed" => Installed(r)
  BY <1>2, <1>3, <1>4 DEF ClientInv, ToldInv, IInv, RequestInv
<1>6. answer = "failed" => ~Installed(r)
  <2> SUFFICES ASSUME answer = "failed" PROVE resultCh[r] # "ok"
    BY <1>3
  <2>1. resp[r] \in {"failed", "busy"} \/ (resp[r] = "cancelled" /\ limit' = "none")
    BY <1>2, <1>4 DEF ClientInv, ToldInv
  <2>2. limit' = "none" => resultCh[r] # "ok"
    BY <1>4 DEF ClientInv, Limits
  <2> QED
    BY <2>1, <2>2 DEF IInv, RequestInv
<1>7. /\ FullySent' = FullySent /\ products' = products
      /\ {q \in Requests : Installed(q)}' = {q \in Requests : Installed(q)}
  BY <1>1 DEF vars, storeVars, FullySent, Installed
<1> QED
  BY <1>1, <1>2, <1>5, <1>6, <1>7 DEF Update!Tell

LEMMA CommitRefines ==
  ASSUME IInv, ClientInv, ClientInv', NEW r \in Requests, Commit(r), UNCHANGED clientVars
  PROVE  Update!Install(r)
<1>1. /\ worker[r] = "committing" /\ products' = staged /\ installed' = Append(installed, r)
      /\ resultCh' = [resultCh EXCEPT ![r] = "ok"]
  BY DEF Commit, At, Return, Store!Install
<1>2. products' = FirstRows(r, handed[r]) /\ handed[r] \in 0..MaxRows
  BY <1>1 DEF IInv, StoreInv, Writing, TypeOK
<1>3. ~Installed(r)
  BY <1>1 DEF IInv, CatalogInv, RequestInv
<1>4. {q \in Requests : Installed(q)}' = {q \in Requests : Installed(q)} \cup {r}
  <2>1. installed \in Seq(Requests)
    BY DEF IInv, TypeOK
  <2>2. /\ DOMAIN installed' = DOMAIN installed \cup {Len(installed) + 1}
        /\ \A i \in DOMAIN installed : installed'[i] = installed[i]
        /\ installed'[Len(installed) + 1] = r
    BY <1>1, <2>1
  <2> QED
    BY <2>2 DEF Installed
<1>5. r \in FullySent
  BY <1>1 DEF FullySent, ClientInv, SentFirst
<1>6. told[r] \in {"nothing", "unknown"}
  <2>1. limit # "none"
    BY <1>1 DEF ClientInv, Limits, Writing
  <2>2. resultCh[r] = "empty"
    BY <1>1 DEF IInv, RequestInv, TypeOK
  <2>3. resp[r] \notin {"completed", "failed", "busy"}
    BY <1>1, <2>2 DEF IInv, RequestInv
  <2> QED
    BY <2>1, <2>3 DEF ClientInv, ToldInv, ClientTypes
<1>7. told' = told /\ FullySent' = FullySent
  BY DEF clientVars, FullySent
<1> QED
  BY <1>2, <1>3, <1>4, <1>5, <1>6, <1>7 DEF Update!Install

\* The other steps of the service are not seen.
LEMMA ServiceIsUnseen ==
  ASSUME NEW r \in Requests, Serve(r), ~Commit(r)
  PROVE  UNCHANGED Update!vars
<1>1. products' = products /\ installed' = installed
  BY DEF Serve, Decide, StartUpload, UploadFails, UploadSaved, ContextDone, Accept, AcceptCancelled,
     Reject, AnswerResult, AnswerCancelled, Respond, Convert, ParserStep, ReadRecord, ReadEOF,
     ReadError, Parse, WorkerStep, Gunzip, StartParser, BeginImport, InsertRow, InsertFails,
     RowsDone, Swap, ImportFails, ReleaseSlot, PrepareFails, Store!Begin, Store!Stage,
     Store!Discard, storeVars
<1> QED
  BY <1>1 DEF Serve, clientVars, Update!vars, FullySent, Installed

LEMMA UpdateNext ==
  ASSUME IInv, ClientInv, ClientInv', [ClientNext]_allVars
  PROVE  [Update!Next]_Update!vars
<1>1. ASSUME NEW r \in Requests, ClientStep(r) PROVE [Update!Next]_Update!vars
  <2>1. CASE SourceComplete(r)
    BY <2>1, SendRefines DEF Update!Next
  <2>2. CASE ReceiveResponse(r) \/ SendFails(r) \/ GiveUp(r)
    <3>1. PICK answer \in {"completed", "failed", "unknown"} : Finish(r, answer)
      BY <2>2 DEF ReceiveResponse, SendFails, GiveUp
    <3> QED
      BY <3>1, TellRefines DEF Update!Next
  <2>3. CASE Do(r) \/ SourceFails(r) \/ SourceClosed(r) \/ ConnectionBreaks(r)
    <3>1. /\ UNCHANGED <<vars, told>>
          /\ source' = source \/ \E how \in {"reading", "broken"} :
               source[r] # "complete" /\ source' = [source EXCEPT ![r] = how]
      BY <2>3 DEF Do, SourceFails, SourceEnds, SourceClosed, ConnectionBreaks, ClientInv, WaitingInv,
         ClientTypes
    <3>2. FullySent' = FullySent
      BY <3>1 DEF FullySent, ClientInv, ClientTypes
    <3> QED
      BY <3>1, <3>2 DEF Update!vars, vars, storeVars, Installed
  <2> QED
    BY <1>1, <2>1, <2>2, <2>3 DEF ClientStep
<1>2. ASSUME NEW r \in Requests, Serve(r) PROVE [Update!Next]_Update!vars
  <2>1. UNCHANGED clientVars
    BY <1>2 DEF Serve
  <2>2. CASE Commit(r)
    BY <2>1, <2>2, CommitRefines DEF Update!Next
  <2>3. CASE ~Commit(r)
    BY <1>2, <2>3, ServiceIsUnseen
  <2> QED
    BY <2>2, <2>3
<1>3. CASE ServiceCrashes \/ ServiceRestarts \/ UNCHANGED allVars
  <2>1. UNCHANGED <<products, installed, source, told>>
    BY <1>3 DEF ServiceCrashes, ServiceRestarts, Crash, Restart, allVars, vars, clientVars,
       storeVars, Store!Discard
  <2> QED
    BY <2>1 DEF Update!vars, FullySent, Installed
<1> QED
  BY <1>1, <1>2, <1>3 DEF ClientNext

LEMMA UpdateInit == ClientInit => Update!Init
<1> SUFFICES ASSUME ClientInit PROVE Update!Init
  OBVIOUS
<1>1. FullySent = {}
  BY DEF ClientInit, FullySent
<1>2. {r \in Requests : Installed(r)} = {}
  BY DEF ClientInit, Init, Installed
<1> QED
  BY <1>1, <1>2 DEF ClientInit, Init, Store!Init, Update!Init

\* For any number of requests, rows, crashes and broken connections: mobctl, the
\* connection and the service together do nothing to the catalog, and tell the
\* operator nothing, that CatalogUpdate does not allow.
THEOREM EndToEnd == ClientSpec => ImplementsCatalogUpdate
<1>1. IInv /\ ClientInv /\ ClientInv' /\ [ClientNext]_allVars => [Update!Next]_Update!vars
  BY UpdateNext
<1> QED
  BY <1>1, UpdateInit, ServiceHolds, ClientInvariance, PTL
     DEF ClientSpec, ImplementsCatalogUpdate, Update!Spec
=============================================================================

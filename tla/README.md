# MOBv3: a verification project in TLA+

MOBv3 serves a shop: it keeps a product catalog, answers price lookups of
barcode stations over MQTT, relays the cash register's receipts and payment
requests to a printer and a payment terminal, and updates the firmware of the
devices. This project models the parts of it that run concurrently or can fail
half-way, checks them with TLC and proves the most important results with TLAPS.
Paths below are relative to the repository.

## 1. The system

| Component | Source | State | Operations |
|---|---|---|---|
| catalog store | `source/internal/catalog` | an embedded SQL database: `products`, and during an import `products_next`, `products_old`, one index | `OpenTurso`, `Lookup`, `Import` |
| catalog import | `source/cmd/catalog_service/import_*.go`, `gzip.go`, `main.go`, `internal/catalog/parser.go` | `importRunner.sem` (one slot), a result channel, three temporary files per request, the request's context | `POST /catalog/import` |
| product lookup | `source/cmd/catalog_service/mqtt.go` | a bounded channel of requests, `MQTT_WORKERS` workers, an MQTT session | subscription callback, `lookupWorker` |
| qrproxy | `source/cmd/qrproxy` | two bounded channels, an MQTT client with its store, a USB printer | listener, main loop, `runPrinter`, `publishPayment` |
| mobctl OTA | `source/cmd/mobctl/ota.go` (build tag `admin`) | status channel, discovered devices, offsets | `barcode-ota`, `qterm-ota` |
| mobctl | `source/cmd/mobctl/main.go` | a pipe with a goroutine that fills it, an HTTP or MQTT connection | `upd` (import client), `ss`, `sw` (retained control messages) |
| MDB conversion | `source/cmd/catalog_service/mdb_to_csv.sh` | one temporary file | one shot |
| configuration | `source/internal/config`, `*/config.go`, `loadConfig` of mobctl | environment, mobctl's `.env` | `LoadFile`, three `loadConfig` |
| TLS assets | `deploy/tls` | four certificates, four encrypted keys | `conf_gen.sh`, `verify_tls.sh` |
| deployment | `sys.sh`, `deploy/` | configuration, systemd units | one-shot scripts |
| broker | `deploy/mosquitto` | third-party | |

How they interact. A client (`mobctl upd`) posts a gzipped MDB file, and waits for
the response no longer than the service may work on it. The handler
saves it and asks the import runner for its only slot. A worker goroutine
unpacks and converts the file, a parser goroutine hands rows over an unbuffered
channel to `TursoStore.Import`, and that swaps the new table in inside one
transaction. Lookup workers read the same store at the same time. `qrproxy` has
a connection to the broker of its own, and so has every `mobctl` command that
needs one - all of them with the same client id, so that the broker ends one
connection when it accepts the next. What `ss` and `sw` publish is retained.
Each program reads its settings from the same environment in its own way.
systemd starts the services again whenever they end (`Restart=always`).

What is hard about them, with the line where each bites, is listed under
`hazards` in `PROJECT.json`: handlers that give up while their worker goes on,
crashes between two statements, channels at their limit, messages that are lost,
repeated or late, timeouts that race with the answer.

## 2. The modules

| Module | Models | Extends / instantiates |
|---|---|---|
| `Catalog` | what a store promises: a catalog changes only as a whole | |
| `TursoStore` | `Import` statement by statement | refines `Catalog` |
| `TursoStoreProofs` | theorems about it | `TursoStore` |
| `ImportService` | handler, runner, worker, parser, process | drives `Catalog` |
| `ProductLookup` | callback, channel, workers, link, process | |
| `ProductLookupProofs` | theorems about it | `ProductLookup` |
| `PrintQueue` | what a register may expect of `qrproxy`: one queue, whatever is behind it | |
| `QrProxy` | listener, main loop, printer, payments, process | refines `PrintQueue` |
| `QrProxyProofs` | theorems about it | `QrProxy` |
| `FirmwareUpdate` | what both update commands promise: members join, nobody is a group ahead, all install or the run fails | |
| `BarcodeOta` | the shared firmware stream to all stations | refines `FirmwareUpdate` |
| `BarcodeOtaProofs` | theorems about it | `BarcodeOta` |
| `QtermOta` | the sliding window to one terminal | refines `FirmwareUpdate` |
| `QtermOtaProofs` | theorems about it | `QtermOta` |
| `CatalogUpdate` | what an operator and a lookup may expect of an import, from end to end | |
| `ImportClient` | `mobctl upd`: pipe, reader goroutine, timer, response | extends `ImportService`, with which it is composed; refines `CatalogUpdate` |
| `ImportProofs` | theorems about `ImportService`, and about both together | `ImportClient` |
| `StationControl` | `ss` and `sw`, the shared client id, the retained message, the stations | |
| `StationControlProofs` | theorems about it | `StationControl` |
| `Config` | `LoadFile`, and what each program makes of the settings | |
| `TlsAssets` | runs of `conf_gen.sh` | |
| `DeploymentProofs` | theorems about `TlsAssets` and about `Config` | `TlsAssets`, `Config` |
| `MC*` | instances for TLC | the module of the same name |

`ImportService` does not repeat the SQL: it calls `Store!Begin`, `Store!Stage`,
`Store!Install` and `Store!Discard` of `Catalog`, and `TursoStore` is shown to
implement that module (checked as `ImplementsCatalog`, proved as `Refinement`).
That the service never uses the store in another way is `StoreIsUsedAsPromised`.
`ImportClient` puts mobctl in front: its actions and those of the service
interleave, and what the service sees of a client is what the connection carries.
The three together cover an import from the file on the operator's disk to the
committed table and back to what mobctl prints. All of that is one `CatalogUpdate`,
which knows nothing of connections, handlers, slots or processes.

The four abstract specifications say in a page each what the code promises to the
outside; what is shown to implement them is the whole of the code's steps:

| Abstract | Implemented by | Refinement mapping |
|---|---|---|
| `Catalog` | `TursoStore` | the committed table; what is staged, from the transaction's view |
| `CatalogUpdate` | `ImportClient` | sent: the reader goroutine came to the end of the file; catalog: the store's; installed: the requests whose commit succeeded; told: what mobctl printed |
| `PrintQueue` | `QrProxy` | jobs, fates, paper and payments are its own; channels, goroutines, the MQTT store and the process disappear |
| `FirmwareUpdate` | `BarcodeOta`, `QtermOta` | members: the discovered stations, or the one terminal; the devices' sessions; the command's result; messages, waits and windows disappear |

### How state and actions correspond to the code

**TursoStore.** `disk` is the committed schema and `view` what the transaction
sees; `step` names the statement that comes next. Each statement of
`turso_store.go:74-126` is an action (`DropNext` ... `DropRenamed`), `ReceiveRow`
is one turn of the loop over the channel, `Commit` is `tx.Commit`, `Fail` any
error return with its deferred `Rollback`, `Crash` the end of the process.
External is the engine: DDL is transactional, an index follows its table through
`RENAME` and disappears with `DROP TABLE`, and index names belong to the schema.
A barcode's other columns are one value.

**ImportService.** `pc` is where a request's handler is, `worker` where its
goroutine is, `parser` where the goroutine of `ParseCSV` is. The two `select`
statements of `importRunner.run` are `Accept`/`AcceptCancelled`/`Reject` and
`AnswerResult`/`AnswerCancelled`; where two cases are ready either may be taken,
as in Go. `Return` is `processImport` with all its deferred removals and the send
to `resultCh`; `ReleaseSlot` is the deferred receive from `sem`, a separate step
because other goroutines can run between the two. `Swap` ends where `Commit` has
found the context alive, `Commit` is the commit after it: the request can be
cancelled between the two. `Crash` is also SIGTERM, because
`ListenAndServeTLS` returns as soon as `Shutdown` is called and `main` with it.
The temporary files are in the container and go with it. Row *i* of a file
carries barcode *i*, and the request itself stands for the other columns.

**ImportClient.** `Do` is `client.Do`, `SourceComplete`, `SourceFails` and
`SourceClosed` are the ways the goroutine of `gzipMDB` ends, `ReceiveResponse`,
`SendFails` and `GiveUp` those of `runImport`. `Serve` restricts the service's
actions: an upload is saved only when the body came to its end, and the context is
done (`Over`) only when the connection is gone. That the service's own timer
changes nothing there is an argument about time that the model takes as given:
both limits are the same setting, mobctl's timer starts before the upload and the
service's after it, so that mobctl has closed the connection first. With a limit
that is not positive `http.Client` has none, while the service's context is over
at once. A file that is compressed already has no goroutine; its source is the
file itself.

**StationControl.** `cmd` is the place in `sendControlCommand`, `conn` the
connection, which a command may leave behind: "closing" after the deferred
`Disconnect`, still "dialing" when `Connect` itself took too long, since no
`Disconnect` is deferred yet. `Accept` is the broker's takeover of a client id.
Broker and stations are external. `earlier` and `arrivals` are history.

**Config.** A line of the file is an action, and the environment is what mobctl's
`loadConfig` then reads; `Service`, `Proxy` and `Mobctl` are what each program
makes of the same settings, `...Accepts` whether it starts at all.

**ProductLookup.** `inflight` is what the broker has sent and the callback has
not seen, `queue` is the channel, `job` each worker. `since` remembers the
catalog of the moment a request was queued. Broker and client library are
external: clean session, QoS 1, so what is in flight to the service is lost with
the connection, and an unacknowledged answer is sent again. The subscription may
fail after a reconnection (it is only logged). `Normalize`, the removal of
diacritics, is left out.

**QrProxy.** Jobs are numbered as they arrive; a job is its command and whether
it has an amount. `main` is the main loop: "printing" while it is blocked in the
send to `printerCh`, "publishing" while it is in `publishPayment`. `PublishEnds`
stands for all three ways to return. `outbox` is the client's store, which is
sent again after a reconnection in no particular order. `Exit` loses everything
in memory, for RESTART, for a signal, and for a crash.

**BarcodeOta, QtermOta.** `phase` is the place in `runOTA`; `statusCh`, with the
callback that throws reports away when it is full, is the code's. Devices are
external and not in the repository; they write chunks in order, report
truthfully, and may fail or fall silent at any point. All messages are QoS 0 and
may be lost, up to `MaxTroubles`. A wait may time out at any moment. `file` is how
much there is to read when the file is opened a second time, after its size and
digest were announced. In `QtermOta` offsets are in an arbitrary unit, so that
the last chunk can be short.

**TlsAssets.** `crt` and `cred` say of each file which run of `conf_gen.sh` it is
from, or that it is absent or damaged. The loops over the files are actions that
take one file at a time, in the order of the script; `Stop` is a failing command
or a signal, and may leave the file at hand absent, damaged or complete. The
services are not in the model: they read the files whenever they start, so that
what is said of the files in every state is said of every start.

## 3. What TLC checks

| Run | Bounds | What it shows |
|---|---|---|
| `store` | 2 barcodes, 2 details, 3 rows, 3 imports | after any failure or crash lookups have their table and no import table is left (`CommittedSchema`); no statement of the swap can be refused (`SwapReady`); success means the last row of each barcode and nothing else (`SuccessInstallsTheFile`); all of it implements `Catalog` (`ImplementsCatalog`) |
| `store_index` | 1 row, 2 imports | **violated**: the README's "indexes it" (finding 2) |
| `import` | 3 requests, 2 rows, 1 crash | one import at a time, catalogs of one whole file, true responses, files that may stay, 409 only while another worker runs |
| `import_final` | 2 requests, 1 row, no crash | **violated**: "The response is final" (finding 1) |
| `client` | 2 commands, the second at any time after the first returned, 1 row, 1 crash | "completed" and "failed", as mobctl prints them, are final; only files that were read and sent to their end are installed; a saved upload is answered, and mobctl returns and leaves no goroutine behind, though the converter hangs; the slot is given back if every converter ends; all of it implements `CatalogUpdate` |
| `lookup` | 3 lookups, one of them malformed, 2 stations, 2 workers, 1 place in the channel, 1 import, 1 broken connection, 1 stop | answers true of a recent catalog, and for each worker of catalogs in their order; nothing accepted is lost or handled twice; answers repeat only after broken connections; every accepted lookup is answered unless the process ends |
| `proxy` | 3 jobs, channels of 1 and 2 | jobs keep their order from the connection to the paper and are printed once, no job forgotten while the process lives, payments after their receipt, in order, repeated only after a broken connection; every job is dealt with or goes with the process; all of it implements `PrintQueue` |
| `barcode` | 2 stations, 5 chunks or fewer, a wait every 2, a channel of 4, 2 troubles | success updates all discovered stations; nobody installs before all have everything; a file cut short is never finished; if a group's reports fit into the channel, no wait is in vain; all of it implements `FirmwareUpdate` |
| `qterm` | 6 chunks or fewer, the last one short, window 3, channel 3, 3 troubles | the window's arithmetic and bound, what finish and success mean, when the terminal is left in its session, and when the loop waits for nothing; all of it implements `FirmwareUpdate` |
| `control` | 3 commands, 2 stations, 1 outage | what is reported as sent arrived, and once; a command that was over never takes effect after a later one; stations end with the last message |
| `config` | 31104 environments, 5 files | the last line of the file wins over the environment, a bad line keeps mobctl from running; programs that accept the same settings find each other |
| `tls` | 4 files, 4 runs | a key finds the certificates of its run, wherever runs ended; only `--force` takes keys away |

Why the bounds are enough. The protocols treat requests, stations and barcodes
alike, and the properties relate at most two of them at a time (two imports at
once, an old and a new catalog, a repeated barcode); a third request shows that
the slot is used again after a pair has been through it. Channels of one or two places
make every blocking send and every overflow happen with the few jobs at hand.
The code's numbers (16, 8, 128, 4 per worker, a window of 8) are CONSTANTS.
One crash, stop or broken connection can fall between any two steps; a second
one starts from a state like the first. In `control` it takes three commands for a
connection that nobody wants any more to end that of a third. `barcode` sits on
the boundary: with a channel of 3 instead of 4 TLC finds a wait in vain. So does
`qterm`: with `Window` instead of `Window - 1` in `WaitsForNothingOnlyAfterLosses`
it finds the loop waiting with nothing pending.

Deadlock is not checked where the system really stops: when every request has
its answer, or the run has ended, or a bound is used up.

### Fairness

*ImportClient* (`ClientFairSpec`). The Go scheduler runs the goroutines (weak
fairness of the handler's, worker's and parser's steps, and of mobctl's reader),
contexts end by their timer (`ContextDone`, when it is over), a positive limit
ends `http.Client` (`GiveUp`), systemd restarts the service. The converter is *not*
fair, since `exec.Command` is given no context: `NobodyWaitsForEver` holds
without it, `SlotIsReleased` assumes `ConvertersEnd`. A client may send its body
for ever: no timeout of the server covers it. `ImportService` alone is checked
for safety only.
*ProductLookup.* `AutoReconnect` reconnects, workers run, a stopping process
exits; with a finite number of broken connections weak fairness is enough.
*QrProxy.* The goroutines run, a device answers well or badly, and a process
that does not stop after SIGTERM is killed by systemd - without that
`JobsAreHandled` fails, because the main loop can be stuck in its send to
`printerCh` after the printer goroutine has left.
*StationControl.* Only of the stations: they reconnect, and obey what they receive.
Nothing is assumed of mobctl or of the broker's queue, since `StationsFollow` is
about what has arrived.

## 4. What is proved

Every safety invariant, every action property and every refinement that a passing run
checks is a theorem. TLAPS proves them for every value of the constants, from the
modules' named assumptions only: the special values are none of the ordinary ones,
bounds are natural numbers (`StoreAssumption`, `ImportAssumption`, `TlsAssumption`,
`ControlAssumption`, `LookupAssumption`), channels have room for something
(`ProxyAssumption`), and there are finitely many stations, sizes are positive and a
file is not longer than was announced (the two `OtaAssumption`), configuration files are
sequences of lines (`ConfigAssumption`).

* `TursoStoreProofs`: `TypeCorrect`, `SchemaIsClean`, `SwapIsReady`,
  `SuccessInstalls`, `IndexAlternates`, and `Refinement` - the SQL statements with
  their failures and crashes implement `Catalog`.
* `DeploymentProofs`: of the TLS assets `TypeCorrect`, `KeysMatch`, and the action
  property `ForceIsNeeded`; of the configuration `FileWins` and `SettingsAgree`.
* `ImportProofs`, of the service: `TypeCorrect`, `MutualExclusion`,
  `StagingIsOneFile`, `CatalogIsWhole`, `ResponsesHold`, `UploadsAreRemoved`,
  `ParsersEnd`, the action property `BusyIsTrue`, and `StoreIsUsedAsPromised`, which
  says that the service's steps on the store are those of `Catalog`. Of the service
  with its client: `ServiceIsTheService` (every behaviour is one of `ImportService`),
  `PrintedIsFinal`, `WholeFilesOnly`, and `EndToEnd` - the composition implements
  `CatalogUpdate`.
* `StationControlProofs`: `TypeCorrect`, `SentIsTrue`, and `LastWordStays`.
* `ProductLookupProofs`: `TypeCorrect`, `AnswersStayFresh`, `AcceptedStaysInOnePlace`.
* `QrProxyProofs`: `TypeCorrect`, `PrintsInOrderAlways`, `NoJobForgottenAlways`,
  `PaymentsInOrderAlways`, and `Refinement` - it implements `PrintQueue`.
* `BarcodeOtaProofs`: `TypeCorrect`, `StationsUpdateTogether`,
  `SuccessMeansAllUpdated`, `FinishIsForWholeFirmware`, `SmallFleetIsAnswered`, and
  `Refinement` - it implements `FirmwareUpdate`.
* `QtermOtaProofs`: `TypeCorrect`, `WindowSuffices`, `SuccessIsInstalled`,
  `OrphansOnlyAtStart`, `Refinement` - it implements the same `FirmwareUpdate` -, and
  `WaitsOnlyAfterLosses`. This last has a hypothesis,
  `Window <= StatusCap`: the status channel holds a window of reports, as it does in
  `ota.go` (8 and 128). With a smaller channel the callback throws reports away that
  nothing lost, and the property is false.

*The argument for the store.* `IInv` says for each statement that may come next
which tables the transaction sees (`TablesInv`), that the new one holds exactly
the rows received so far (`ContentsInv`), and which of them carries the index
(`IndexInv`, by the parity of the imports). None of the checked properties is
inductive alone: that a rename succeeds depends on the drops before it, and these
on what earlier imports left. Lemmas describe each statement's effect on a
schema; `LastRowsAppend` says what one more row does to a file's catalog, which is
what makes `INSERT OR REPLACE` agree with "the last row of a barcode".

*The argument for the service.* `OneImport` is the centre: because only one
worker can be between `Accept` and `ReleaseSlot`, what is staged belongs to it
(`StoreInv`). `RequestInv` ties each request's handler, worker, parser and result
together, `CatalogInv` what is installed to the results, `FileInv` the files to
the workers. Preservation is proved conjunct by conjunct (`StoreNext`,
`CatalogNext`, `TypeNext`, `OneImportNext`, `RequestNext`, `FileNext`), one step
per action.

*The argument for the composition.* Every step of `ClientNext` is one of the
service's `Next` or leaves the service alone (`ServiceStep`), so the service's
invariant holds here too (`ServiceHolds`). `ClientInv` adds what the connection
says: with a limit, a request whose connection is open is not cancelled before its
response is written, so mobctl never receives `cancelled`; without one the worker starts
cancelled, and never reaches the store (`Limits`). Nothing is saved that was not
sent to its end (`SentFirst`). That the service's timer is over only after
mobctl's is part of the model, not of the proof. `EndToEnd` also needs that a command
reads nothing before it runs, is told nothing before it is over, and takes its connection
with it (`WaitingInv`). Then a commit is an `Install` (`CommitRefines`),
what mobctl prints a `Tell` (`TellRefines`), the end of the file a `Send` (`SendRefines`),
and every other step, crashes and restarts included, changes nothing that
`CatalogUpdate` knows (`ServiceIsUnseen`).

*The argument for the TLS assets.* `ProgressInv` says what a run has done up to
its step: no certificate is touched before every key is gone, and no key is
written before every certificate is there. That order is all that makes
`KeysMatchCertificates` survive a `Stop` at any place.

*The argument for the control commands.* The broker accepts one connection of a
client id at a time. So once a command's connection is accepted, no command that
was over before it was started has a connection with an unread message (`Shut`),
and none gets one again, since a command that is over publishes nothing
(`Progress`). `History` ties `message` to `arrivals`.

*The argument for the lookups.* A request is in flight, in the channel, or with
exactly one worker, and `fate` says which (`PlaceInv`, `JobInv`). The catalog of an
answer is bounded from below by `since` and by every answer the same worker gave
before, also the one it still holds (`FreshInv`); without the second part the order
of a worker's answers is not inductive. How often a station can have the answer of
one request is a count: the answers it has, and one more while another may come, are
never more than the broken connections and one (`CountInv`).

*The argument for qrproxy.* A job goes one way only: listener, `receiptCh`, main,
`printerCh`, printer, paper. `OrderInv` says that the numbers rise along it, every place
compared with all behind it, and `FateInv` that the accepted jobs are those on it. Each
step moves the first job of one place to the end of the next, so that both are
preserved by a lemma on what a step does to the way (`WayStep`). A payment leaves the
way at main, so that what is published is before all that is still to come; its copies,
delivered or still to be sent on this connection, are counted against the broken
connections (`PayInv`). The refinement also needs to know what the jobs on their way
are: beyond main only what is to be printed, and no payment in the client's store of a
job that was lost, although a RECIEPT's is stored while the job still waits (`KindInv`).

*The argument for the stations' firmware.* A report is true when it is sent and stays
so, because `ota_begin` comes first or never (`ReportInv`, `ChannelInv`). That gives
success, and the common update. For the shortened file one needs that a station whose
report of a boundary was taken has nothing more to say there (`Settled`, in
`WaitInv`): the wait after the end of the file asks for those reports a second time,
and can only end by its timer. `SmallFleetIsAnswered` is the hard one. As long as
nothing was lost every station follows the stream message by message (`CalmInv`), so
that the reports that can be in the channel are of one group; they are mapped
one-to-one into stations times chunks of a group (`RoomInChannel`), and a channel with
room for all of these throws none of them away (`AckInv`). That a station writes at
most one group more than any discovered one has (`FirmwareUpdate`'s `Lead`) is not inductive
with the stations' state alone: chunks are on their way to some of them. `LagInv`
says that no discovered station is more than a group behind what was *sent*, and `OpenInv`
that nothing but `ota_begin` is on its way, and nobody writes, while stations join.

*The argument for the terminal's firmware.* Offsets are whole chunks or the end of the
file (`OnGrid`), and a few facts about rounded division (`ChunksBetween`) make
`pendingChunks`, which the code computes from a report, the number of chunks sent and
not acknowledged (`UploadInv`). What is on its way down continues what is written
(`DownInv`); the reports on their way up are in order and of different chunks, all of
them unacknowledged (`ReportInv`), and so no more than a window of them
(`ReportsFit`). `LossInv` counts: every chunk that was written and not
acknowledged is in a report, or one was lost. That `qterm-ota` is an update of one
member with a lead of a chunk follows from the same
invariants.

*The argument for the configuration.* Where `LoadFile` has come to, every variable has
the value of the last line *before* that which sets it (`LinesInv`), and no line before
it was bad; at the end of the file that is `LastLineWins`, by induction along the
behaviour and not over the file. `RunningInv` keeps what `loadConfig` has accepted, and
`ProgramsAgree` is then a fact about the three readers for any environment, variable by
variable.

All these invariants were checked by TLC, on the instances of the runs, before they
were proved. So were the type invariants; the runs do not repeat them, since they are the
first conjunct of what every proof module establishes (`TypeCorrect`), the capacities of all
channels included.

Only model-checked: everything that needs fairness (`NobodyWaitsForEver`, `SlotIsReleased`,
`AcceptedIsAnswered`, `JobsAreHandled`, `StationsFollow`), because TLAPS treats neither
liveness nor ENABLED; so the refinements are of the abstract specifications' steps,
which promise nothing about progress. The two runs that expect a violation
(`FailedNeverInstalled`, `InstalledCatalogIsIndexed`) say what is false of the code; what holds
instead is proved (`ResponsesHold`, `IndexAlternates`).

## 5. Findings

1. *The response is not final* (`import_final`). `README.md:35` calls the
   response final. The runner answers with `ctx.Err()` as soon as the context is
   done, even with the worker's result already in the channel, and the worker may
   be past the last point where it looks at the context. The client is told
   `failed`, and lookups have its catalog. `ResponsesAreTrue` says what can be
   relied on: `completed` is always true, and so is a failure that the worker
   itself reported, a 409 and a 405. mobctl itself never shows the disagreement
   (`ResponseIsFinal`): its timer ends first, and it then has no response at all.
   Another client of the service, or one with a longer limit, does.
2. *Every second import has no index* (`store_index`). `README.md:69` says that
   an import indexes its table. The index of the current table still has the name
   when the next import asks for it `IF NOT EXISTS`, and is then dropped with the
   old table. `barcode` is the primary key, so lookups stay fast; the statement is
   without effect in every second import.

Observed while modelling, and no contradiction of any document: an upload whose
request is cancelled before it is accepted is never removed; a client that sends
its next import as soon as it has the response can get 409; with more than one
station (or a late one) mobctl's status channel can throw away the report it is
waiting for; `qterm-ota` can wait for nothing at the end of a file after a burst of
lost reports; a firmware that is cut short at a multiple of 64 KiB after its
digest was taken makes `barcode-ota` wait 180 s for reports it has already had,
and is then aborted; a `ss`, `sw` or OTA command ends the connection of any other
that is running; with a `CATALOG_IMPORT_TIMEOUT` that is not positive the service
cancels every import at once and mobctl has no limit at all; with an IPv6 literal
as `MQTT_HOST` only the service brackets it, and an endpoint with two slashes is
trimmed only by mobctl.

## 6. Not modelled, and why

* `mdb_to_csv.sh`, `ParseCSV`'s field cleaning, `parseQRPayArgs`: conversions of
  text, without state, order or failure that the other models could tell apart. In
  `ImportService` the converter is a step that succeeds, fails or hangs, and in
  `QrProxy` a job is any of the commands that the parser can return.
* `tls.go` and mobctl's `clientTLSConfig`: read once, and the process or command
  ends when a file is missing. Which files there can be is `TlsAssets`.
* mobctl's prompt, progress display and file name checks: nothing else depends on
  them.
* `generate.sh` and the service scripts: one-shot scripts that a person runs, sees
  fail and runs again; they only overwrite what they make. The units' restart policy
  is in the models.
* `sys.sh`: hardens a machine once. Its order matters when it is interrupted (between
  the sshd drop-in and the firewall rule a reboot moves sshd to a port that is still
  closed), but nearly every step is a package of the distribution whose behaviour the
  repository does not show, and no document says what an interrupted run leaves.
* A connection that ends slowly in `qrproxy` (`main.go:74`), a subscription that
  fails (`mqtt.go:55`) and keys that a failed `--force` has removed
  (`conf_gen.sh:120`) are in the models as steps; nothing in the code promises
  anything about them that a property could say.
* Mosquitto, the devices' firmware, SQLite: third-party; what the code relies on is in
  the models and marked external in `PROJECT.json`.

## 7. Plan

1. (done) `Catalog`, `TursoStore` with proofs and refinement; `ImportService` with
   proofs; `ProductLookup`; `QrProxy`; `BarcodeOta`; `QtermOta`; `TlsAssets` with
   proofs.
2. (done) Extended by `ImportClient`, `StationControl` with proofs, `Config`, the end
   of the file in both OTA protocols, and several workers' order in
   `ProductLookup`.
3. (done) `ResponseIsFinal` and `OnlyWholeFilesInstall` of `ImportClient` proved
   from the service's invariant; the service shown to be the same behind its client,
   and to use the store as `Catalog` allows.
4. (done) Every safety property of `ProductLookup`, `QrProxy`, `BarcodeOta` and
   `QtermOta` proved.
5. (done) `LastLineWins` and `ProgramsAgree` proved for any environment and file;
   `FirmwareUpdate`, `CatalogUpdate` and `PrintQueue` stated, checked, and their
   implementation proved.

Left for whoever goes on: an abstract lookup service for `ProductLookup` and one for
`StationControl`, whose promises are now given by invariants only.

## 8. Running it

```sh
tlc -workers 2 -config MCImportService.cfg MCImportService
tlapm TursoStoreProofs.tla
tlapm ImportProofs.tla
tlapm DeploymentProofs.tla
tlapm StationControlProofs.tla
tlapm ProductLookupProofs.tla
tlapm QrProxyProofs.tla
tlapm BarcodeOtaProofs.tla
tlapm QtermOtaProofs.tla
```

`PROJECT.json` lists every run with its configuration, the mutant of the code that
each property detects, and the source lines of every definition.

------------------------------ MODULE QrProxy ------------------------------
(***************************************************************************)
(* cmd/qrproxy: the cash register's print jobs on their way to the USB     *)
(* printer and to the QTerm payment terminal.  The listener reads one      *)
(* connection at a time into receiptCh; the main loop parses each job,     *)
(* hands what is to be printed to printerCh and publishes payments over    *)
(* MQTT, waiting at most 5 s; the printer goroutine writes to the device.  *)
(* Neither channel send looks at the context.                              *)
(*                                                                         *)
(*   phase      "running", "stopping" (the signal context is done) or      *)
(*              "exited"                                                   *)
(*   jobs       the jobs received so far, numbered in order of arrival     *)
(*   fate       what became of each: "accepted" until it was dealt with    *)
(*   listener   the job the listener offers to receiptCh, if any           *)
(*   receiptCh, printerCh   the channels                                   *)
(*   main       the main loop's state and job                              *)
(*   printer    the printer goroutine's state and job                      *)
(*   link       the MQTT client is connected                               *)
(*   outbox     payments that are published and not yet acknowledged       *)
(*   sent       how many of them went out over the current connection      *)
(*   printed, paid   what device and terminal received, in order (history) *)
(*   drops, stops    broken connections, signals and crashes (bounded)     *)
(*                                                                         *)
(* A job is what its data parse to: the command, and whether it carries an *)
(* amount.  A connection cut by its 10 s deadline is handed on with the    *)
(* data it has, so that a job may be any of these whatever was meant.      *)
(***************************************************************************)
EXTENDS Naturals, Sequences, SequencesExt

CONSTANTS ReceiptCap,  (* capacity of receiptCh: 16                        *)
          PrinterCap,  (* capacity of printerCh: 8                         *)
          MaxJobs, MaxDrops, MaxStops   (* bounds                          *)

ASSUME ProxyAssumption ==
  /\ ReceiptCap \in Nat \ {0} /\ PrinterCap \in Nat \ {0}
  /\ MaxJobs \in Nat /\ MaxDrops \in Nat /\ MaxStops \in Nat

Jobs == {job \in [cmd : {"QR_PAY", "RECIEPT", "RESTART", "other"}, amount : BOOLEAN] :
           job.amount => job.cmd \in {"QR_PAY", "RECIEPT"}}

VARIABLES phase, jobs, fate, listener, receiptCh, main, printerCh, printer,
          link, outbox, sent, printed, paid, drops, stops

processVars == <<phase, stops>>
inputVars == <<jobs, listener>>
printVars == <<printerCh, printer, printed>>
payVars == <<link, outbox, sent, paid, drops>>
vars == <<processVars, inputVars, fate, receiptCh, main, printVars, payVars>>

Idle == [state |-> "idle", job |-> 0]
Doing(what, j) == [state |-> what, job |-> j]

Init ==
  /\ phase = "running" /\ stops = 0
  /\ jobs = <<>> /\ fate = <<>> /\ listener = <<>>
  /\ receiptCh = <<>> /\ printerCh = <<>>
  /\ main = Idle /\ printer = Idle
  /\ link = TRUE /\ outbox = <<>> /\ sent = 0 /\ drops = 0
  /\ printed = <<>> /\ paid = <<>>

Alive == phase # "exited"

Prints(j) == jobs[j].cmd \in {"RECIEPT", "other"}
Pays(j) == jobs[j].amount

-----------------------------------------------------------------------------
(* runSocketListener *)

\* A connection was read to its end or to its deadline, and was not empty.
ReadConnection ==
  /\ Alive /\ listener = <<>> /\ Len(jobs) < MaxJobs
  /\ \E job \in Jobs : jobs' = Append(jobs, job)
  /\ fate' = Append(fate, "accepted")
  /\ listener' = <<Len(jobs) + 1>>
  /\ UNCHANGED <<processVars, receiptCh, main, printVars, payVars>>

\* receiptCh <- data, blocking the listener while the channel is full.
QueueReceipt ==
  /\ Alive /\ listener # <<>> /\ Len(receiptCh) < ReceiptCap
  /\ receiptCh' = receiptCh \o listener
  /\ listener' = <<>>
  /\ UNCHANGED <<processVars, jobs, fate, main, printVars, payVars>>

-----------------------------------------------------------------------------
(* The main loop. *)

\* Mutant: the payments are stored in a file, which the next process sends.
ExitKeepsStore ==
  /\ phase' = "exited"
  /\ fate' = [j \in DOMAIN fate |-> IF fate[j] = "accepted" THEN "lost" ELSE fate[j]]
  /\ listener' = <<>> /\ receiptCh' = <<>> /\ printerCh' = <<>>
  /\ main' = Idle /\ printer' = Idle
  /\ link' = FALSE /\ outbox' = outbox /\ sent' = 0
  /\ UNCHANGED <<jobs, printed, paid, drops>>

\* Everything in memory is lost: queued jobs, and payments not yet sent.
Exit ==
  /\ phase' = "exited"
  /\ fate' = [j \in DOMAIN fate |-> IF fate[j] = "accepted" THEN "lost" ELSE fate[j]]
  /\ listener' = <<>> /\ receiptCh' = <<>> /\ printerCh' = <<>>
  /\ main' = Idle /\ printer' = Idle
  /\ link' = FALSE /\ outbox' = <<>> /\ sent' = 0
  /\ UNCHANGED <<jobs, printed, paid, drops>>

\* client.Publish: the payment is stored until it is acknowledged.
Publish(j) == main' = Doing("publishing", j) /\ outbox' = Append(outbox, j)

NextJob == Alive /\ main = Idle /\ receiptCh # <<>>

\* RECIEPT and everything that is no command: to be printed.
TakePrintJob ==
  /\ NextJob /\ Prints(Head(receiptCh))
  /\ receiptCh' = Tail(receiptCh)
  /\ main' = Doing("printing", Head(receiptCh))
  /\ UNCHANGED <<processVars, inputVars, fate, printVars, payVars>>

\* QR_PAY: published, or ignored without an amount.
TakePayment ==
  /\ NextJob
  /\ LET j == Head(receiptCh)
     IN /\ jobs[j].cmd = "QR_PAY"
        /\ IF Pays(j) THEN Publish(j) ELSE UNCHANGED <<main, outbox>>
        /\ fate' = [fate EXCEPT ![j] = "handled"]
  /\ receiptCh' = Tail(receiptCh)
  /\ UNCHANGED <<processVars, inputVars, printVars, link, sent, paid, drops>>

\* RESTART: os.Exit, whatever is still queued.
TakeRestart ==
  NextJob /\ jobs[Head(receiptCh)].cmd = "RESTART" /\ Exit /\ UNCHANGED stops

\* Mutant: a full channel loses the job.
PrinterQueueDrops ==
  /\ Alive /\ main.state = "printing"
  /\ LET j == main.job
     IN /\ printerCh' = IF Len(printerCh) < PrinterCap THEN Append(printerCh, j) ELSE printerCh
        /\ IF Pays(j) THEN Publish(j) ELSE main' = Idle /\ UNCHANGED outbox
  /\ UNCHANGED <<processVars, inputVars, fate, receiptCh, printer, printed, link, sent,
                 paid, drops>>

\* printerCh <- printData, blocking the main loop while the channel is full;
\* then the payment of a receipt that has an amount.
QueuePrint ==
  /\ Alive /\ main.state = "printing" /\ Len(printerCh) < PrinterCap
  /\ LET j == main.job
     IN /\ printerCh' = Append(printerCh, j)
        /\ IF Pays(j) THEN Publish(j) ELSE main' = Idle /\ UNCHANGED outbox
  /\ UNCHANGED <<processVars, inputVars, fate, receiptCh, printer, printed, link, sent,
                 paid, drops>>

\* Mutant: what is not yet acknowledged is published again.
PublishesAgain ==
  /\ Alive /\ main.state = "publishing"
  /\ main' = Idle
  /\ outbox' = IF main.job \in ToSet(outbox) THEN Append(outbox, main.job) ELSE outbox
  /\ UNCHANGED <<processVars, inputVars, fate, receiptCh, printVars, link, sent, paid, drops>>

\* publishPayment returns: acknowledged, with an error, or after 5 s, when the
\* client still holds the payment and may send it later.
PublishEnds ==
  /\ Alive /\ main.state = "publishing"
  /\ main' = Idle
  /\ UNCHANGED <<processVars, inputVars, fate, receiptCh, printVars, payVars>>

-----------------------------------------------------------------------------
(* runPrinter *)

\* Mutant: the newest job first.
PrintNewest ==
  /\ Alive /\ printer = Idle /\ printerCh # <<>>
  /\ printer' = Doing("writing", Last(printerCh))
  /\ printerCh' = Front(printerCh)
  /\ UNCHANGED <<processVars, inputVars, fate, receiptCh, main, printed, payVars>>

TakePrint ==
  /\ Alive /\ printer = Idle /\ printerCh # <<>>
  /\ printer' = Doing("writing", Head(printerCh))
  /\ printerCh' = Tail(printerCh)
  /\ UNCHANGED <<processVars, inputVars, fate, receiptCh, main, printed, payVars>>

\* Mutant: the printer goroutine ends when the device fails.
FailureEndsPrinter ==
  /\ Alive /\ printer.state = "writing"
  /\ fate' = [fate EXCEPT ![printer.job] = "handled"]
  /\ \/ printed' = Append(printed, printer.job) /\ printer' = Idle
     \/ UNCHANGED printed /\ printer' = Doing("left", 0)
  /\ UNCHANGED <<processVars, inputVars, receiptCh, main, printerCh, payVars>>

\* The device takes the data, or it is missing, does not open, or fails; the
\* job is not tried again.
relayToPrinter ==
  /\ Alive /\ printer.state = "writing"
  /\ printed' \in {printed, Append(printed, printer.job)}
  /\ fate' = [fate EXCEPT ![printer.job] = "handled"]
  /\ printer' = Idle
  /\ UNCHANGED <<processVars, inputVars, receiptCh, main, printerCh, payVars>>

-----------------------------------------------------------------------------
(* The MQTT client, external: QoS 1 and a store in memory, which is sent again *)
(* after a reconnection, in no particular order.                              *)

Deliver ==
  /\ Alive /\ link /\ sent < Len(outbox)
  /\ paid' = Append(paid, outbox[sent + 1])
  /\ sent' = sent + 1
  /\ UNCHANGED <<processVars, inputVars, fate, receiptCh, main, printVars, link, outbox, drops>>

Acknowledge ==
  /\ Alive /\ link /\ sent > 0
  /\ outbox' = Tail(outbox) /\ sent' = sent - 1
  /\ UNCHANGED <<processVars, inputVars, fate, receiptCh, main, printVars, link, paid, drops>>

Disconnect ==
  /\ Alive /\ link /\ drops < MaxDrops
  /\ link' = FALSE /\ sent' = 0 /\ drops' = drops + 1
  /\ UNCHANGED <<processVars, inputVars, fate, receiptCh, main, printVars, outbox, paid>>

Reconnect ==
  /\ Alive /\ ~link
  /\ link' = TRUE
  /\ outbox' \in {o \in [DOMAIN outbox -> ToSet(outbox)] : ToSet(o) = ToSet(outbox)}
  /\ UNCHANGED <<processVars, inputVars, fate, receiptCh, main, printVars, sent, paid, drops>>

-----------------------------------------------------------------------------
(* The process. *)

Signal ==
  /\ phase = "running" /\ stops < MaxStops
  /\ phase' = "stopping" /\ stops' = stops + 1
  /\ UNCHANGED <<inputVars, fate, receiptCh, main, printVars, payVars>>

\* The printer goroutine sees the context done, whatever is queued.
PrinterLeaves ==
  /\ phase = "stopping" /\ printer = Idle
  /\ printer' = Doing("left", 0)
  /\ UNCHANGED <<processVars, inputVars, fate, receiptCh, main, printerCh, printed, payVars>>

\* The main loop sees it, and main returns.
MainReturns == phase = "stopping" /\ main = Idle /\ Exit /\ UNCHANGED stops

Crash == phase = "running" /\ stops < MaxStops /\ Exit /\ stops' = stops + 1

\* SIGKILL from the service manager for a process that does not stop.
Kill == phase = "stopping" /\ Exit /\ UNCHANGED stops

Restart ==
  /\ phase = "exited"
  /\ phase' = "running" /\ link' = TRUE
  /\ UNCHANGED <<stops, inputVars, fate, receiptCh, main, printVars, outbox, sent, paid, drops>>

Next ==
  \/ ReadConnection \/ QueueReceipt
  \/ TakePrintJob \/ TakePayment \/ TakeRestart \/ QueuePrint
  \/ PublishEnds
  \/ TakePrint \/ relayToPrinter
  \/ Deliver \/ Acknowledge \/ Disconnect \/ Reconnect
  \/ Signal \/ PrinterLeaves \/ MainReturns \/ Crash \/ Kill \/ Restart

Spec == Init /\ [][Next]_vars

\* The goroutines run and the device answers, well or badly; a process that
\* does not stop is killed.
Fairness ==
  /\ WF_vars(QueueReceipt) /\ WF_vars(TakePrintJob \/ TakePayment \/ TakeRestart)
  /\ WF_vars(QueuePrint) /\ WF_vars(PublishEnds)
  /\ WF_vars(TakePrint) /\ WF_vars(relayToPrinter)
  /\ WF_vars(Kill)

FairSpec == Spec /\ Fairness

-----------------------------------------------------------------------------
Numbers == 1..Len(jobs)

TypeOK ==
  /\ phase \in {"running", "stopping", "exited"}
  /\ jobs \in Seq(Jobs)
  /\ fate \in [Numbers -> {"accepted", "handled", "lost"}]
  /\ listener \in Seq(Numbers) /\ Len(listener) <= 1
  /\ receiptCh \in Seq(Numbers) /\ Len(receiptCh) <= ReceiptCap
  /\ printerCh \in Seq(Numbers) /\ Len(printerCh) <= PrinterCap
  /\ main \in [state : {"idle", "printing", "publishing"}, job : Numbers \cup {0}]
  /\ printer \in [state : {"idle", "writing", "left"}, job : Numbers \cup {0}]
  /\ link \in BOOLEAN
  /\ outbox \in Seq(Numbers) /\ sent \in 0..Len(outbox)
  /\ printed \in Seq(Numbers) /\ paid \in Seq(Numbers)
  /\ drops \in 0..MaxDrops /\ stops \in 0..MaxStops

Holding(actor, what) == IF actor.state = what THEN <<actor.job>> ELSE <<>>

\* All jobs on their way, the one closest to the printer first.
Pipeline == Holding(printer, "writing") \o printerCh \o Holding(main, "printing")
            \o receiptCh \o listener

Increasing(s) == \A i, k \in DOMAIN s : i < k => s[i] < s[k]

\* Jobs never overtake each other from the connection to the paper, and none
\* is printed twice, also across a restart.
PrintsInOrder == Increasing(printed \o Pipeline)

\* While the process lives no job is forgotten: whatever was accepted is
\* somewhere on its way, and only once.
NoJobForgotten == ToSet(Pipeline) = {j \in Numbers : fate[j] = "accepted"}

\* Over an unbroken connection the terminal gets the payments in the order of
\* their jobs and none twice, also when main gave up waiting for one of them; a
\* customer is asked again only after a connection broke.  The terminal asks for
\* the money of a receipt only when that receipt is on its way to the printer
\* or the process ended meanwhile.
PaymentsInOrder ==
  /\ drops = 0 => Increasing(paid)
  /\ \A j \in Numbers : Cardinality({i \in DOMAIN paid : paid[i] = j}) <= 1 + drops
  /\ \A j \in ToSet(paid) :
       jobs[j].cmd = "RECIEPT" =>
         fate[j] # "accepted" \/ j \in ToSet(Holding(printer, "writing") \o printerCh)

\* Every job is dealt with, or goes with the process: behind a printer that
\* answers nothing waits for ever, and a main loop that is stuck behind a
\* printer goroutine which left first is killed.
JobsAreHandled ==
  \A j \in 1..MaxJobs : (j \in Numbers) ~> (j \in Numbers /\ fate[j] # "accepted")

-----------------------------------------------------------------------------
Queue == INSTANCE PrintQueue WITH
  breaks <- drops,
  Printable <- {job \in Jobs : job.cmd \in {"RECIEPT", "other"}},
  Payable <- {job \in Jobs : job.amount}

\* Whatever the listener, the main loop, the printer goroutine, the MQTT client and
\* the end of the process do, and in whatever order: to the register, the paper
\* and the terminal it is one queue, as PrintQueue has it.  What is printed next
\* has waited longest; a job is handled once or lost, with all that wait; and the
\* terminal is never asked for the money of a job that went with a process.
ImplementsPrintQueue == Queue!Spec
=============================================================================

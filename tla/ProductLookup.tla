--------------------------- MODULE ProductLookup ---------------------------
(***************************************************************************)
(* cmd/catalog_service/mqtt.go: stations ask for products over MQTT.  The  *)
(* subscription's callback puts each request into a bounded channel or     *)
(* drops it; workers take requests, look the barcode up in the catalog of  *)
(* that moment, and publish the answer with QoS 1, waiting for its         *)
(* acknowledgement without a timeout.  The connection may break at any     *)
(* point, an import may install a new catalog at any point, and the        *)
(* process may be stopped or crash.                                        *)
(*                                                                         *)
(*   phase      "running", "stopping" (the signal context is done) or      *)
(*              "stopped"                                                  *)
(*   link       the client is connected to the broker                      *)
(*   subscribed the broker forwards requests to this connection            *)
(*   catalogs   the barcodes of each catalog so far, the last is current   *)
(*   inflight   requests between broker and callback                       *)
(*   queue      the channel `requests`                                     *)
(*   job        what each worker does: its state, request and answer       *)
(*   fate       what became of each request                                *)
(*   since      the catalog that was current when a request was queued     *)
(*   answers    the answers each station received, in order                *)
(*   drops, stops   broken connections and ends of the process (bounded)   *)
(*                                                                         *)
(* Broker and client library are external: the client subscribes with a    *)
(* clean session, so requests in flight are lost with the connection, and  *)
(* it sends an unacknowledged answer again on the next one.                *)
(***************************************************************************)
EXTENDS Naturals, Sequences, SequencesExt

CONSTANTS Lookups,     (* the requests that stations publish               *)
          Stations,
          Barcodes,
          StationOf,   (* who publishes a request ...                      *)
          BarcodeOf,   (* ... and for what; outside Barcodes if malformed  *)
          Workers,     (* CATALOG_MQTT_WORKERS goroutines                  *)
          Capacity,    (* room in the channel: 4 for each worker           *)
          NoLookup,    (* an idle worker's request                         *)
          MaxImports,  (* bound: catalogs installed later                  *)
          MaxDrops,    (* bound: broken connections                        *)
          MaxStops     (* bound: ends of the process                       *)

ASSUME LookupAssumption ==
  /\ StationOf \in [Lookups -> Stations]
  /\ DOMAIN BarcodeOf = Lookups
  /\ NoLookup \notin Lookups
  /\ Capacity \in Nat /\ MaxImports \in Nat /\ MaxDrops \in Nat /\ MaxStops \in Nat

VARIABLES phase, link, subscribed, catalogs, inflight, queue, job, fate, since,
          answers, drops, stops

processVars == <<phase, stops>>
netVars == <<link, subscribed, drops>>
requestVars == <<inflight, queue, fate, since>>
vars == <<processVars, netVars, catalogs, requestVars, job, answers>>

Current == Len(catalogs)

NoAnswer ==
  [lookup |-> NoLookup, by |-> NoLookup, valid |-> FALSE, catalog |-> 0, failed |-> FALSE]

\* A failed lookup is answered like an unknown barcode.
Answer(w, l, failed) ==
  [lookup |-> l, by |-> w, catalog |-> Current, failed |-> failed,
   valid |-> ~failed /\ BarcodeOf[l] \in catalogs[Current]]

Idle == [state |-> "idle", lookup |-> NoLookup, answer |-> NoAnswer]

Init ==
  /\ phase = "running"
  /\ link = TRUE /\ subscribed = TRUE
  /\ \E listed \in SUBSET Barcodes : catalogs = <<listed>>
  /\ inflight = <<>> /\ queue = <<>>
  /\ job = [w \in Workers |-> Idle]
  /\ fate = [l \in Lookups |-> "unasked"]
  /\ since = [l \in Lookups |-> 0]
  /\ answers = [s \in Stations |-> <<>>]
  /\ drops = 0 /\ stops = 0

-----------------------------------------------------------------------------
(* The world around the service. *)

\* A station publishes product/<station>/<barcode>.
Ask(l) ==
  /\ fate[l] = "unasked"
  /\ IF subscribed
       THEN inflight' = Append(inflight, l) /\ fate' = [fate EXCEPT ![l] = "sent"]
       ELSE fate' = [fate EXCEPT ![l] = "lost"] /\ UNCHANGED inflight
  /\ UNCHANGED <<processVars, netVars, catalogs, queue, since, job, answers>>

\* An import installs another catalog (see ImportService).
InstallCatalog ==
  /\ phase # "stopped" /\ Current <= MaxImports
  /\ \E listed \in SUBSET Barcodes : catalogs' = Append(catalogs, listed)
  /\ UNCHANGED <<processVars, netVars, requestVars, job, answers>>

\* Requests on their way are lost; an answer without its acknowledgement
\* will be sent again.
Disconnect ==
  /\ link /\ phase = "running" /\ drops < MaxDrops
  /\ link' = FALSE /\ subscribed' = FALSE /\ drops' = drops + 1
  /\ inflight' = <<>>
  /\ fate' = [l \in Lookups |-> IF l \in ToSet(inflight) THEN "lost" ELSE fate[l]]
  /\ job' = [w \in Workers |-> IF job[w].state = "delivered"
                                 THEN [job[w] EXCEPT !.state = "sending"] ELSE job[w]]
  /\ UNCHANGED <<processVars, catalogs, queue, since, answers>>

-----------------------------------------------------------------------------
(* The client: connection, subscription and its callback. *)

\* Mutant: AutoReconnect is off.
NeverReconnects == link /\ UNCHANGED vars

\* AutoReconnect; the OnConnect handler subscribes, or logs that it failed.
Reconnect ==
  /\ ~link /\ phase = "running"
  /\ link' = TRUE /\ subscribed' \in BOOLEAN
  /\ UNCHANGED <<processVars, drops, catalogs, requestVars, job, answers>>

\* What the callback makes of the next request.
Receive(becomes, keeps) ==
  /\ phase # "stopped" /\ inflight # <<>>
  /\ inflight' = Tail(inflight)
  /\ fate' = [fate EXCEPT ![Head(inflight)] = becomes]
  /\ queue' = IF keeps THEN Append(queue, Head(inflight)) ELSE queue
  /\ since' = IF keeps THEN [since EXCEPT ![Head(inflight)] = Current] ELSE since
  /\ UNCHANGED <<processVars, netVars, catalogs, job, answers>>

WellFormed(l) == BarcodeOf[l] \in Barcodes

Ignore == inflight # <<>> /\ ~WellFormed(Head(inflight)) /\ Receive("ignored", FALSE)

Accept ==
  /\ inflight # <<>> /\ WellFormed(Head(inflight))
  /\ Len(queue) < Capacity /\ Receive("accepted", TRUE)

\* The default branch: the callback never blocks.
Drop ==
  /\ inflight # <<>> /\ WellFormed(Head(inflight))
  /\ Len(queue) = Capacity /\ Receive("dropped", FALSE)

-----------------------------------------------------------------------------
(* lookupWorker *)

Working(w, here) == phase # "stopped" /\ job[w].state = here

Become(w, next) ==
  /\ job' = [job EXCEPT ![w] = next]
  /\ UNCHANGED <<processVars, netVars, catalogs, requestVars, answers>>

\* The select takes a request, also when the context is done.
Take(w) ==
  /\ Working(w, "idle") /\ queue # <<>>
  /\ queue' = Tail(queue)
  /\ job' = [job EXCEPT ![w] = [Idle EXCEPT !.state = "taken", !.lookup = Head(queue)]]
  /\ UNCHANGED <<processVars, netVars, catalogs, inflight, fate, since, answers>>

Send(w, answer) == Become(w, [job[w] EXCEPT !.state = "sending", !.answer = answer])

\* Mutant: a pooled connection may still see an older catalog.
LookUpInOlder(w) ==
  /\ Working(w, "taken") /\ phase = "running"
  /\ \E c \in since[job[w].lookup]..Current :
       Send(w, [Answer(w, job[w].lookup, FALSE) EXCEPT !.catalog = c])

\* store.Lookup reads the products of one moment.
LookUp(w) ==
  /\ Working(w, "taken") /\ phase = "running"
  /\ Send(w, Answer(w, job[w].lookup, FALSE))

\* Mutant: a failed lookup is logged and not answered.
FailureSkipsAnswer(w) == Working(w, "taken") /\ Become(w, Idle)

\* The store fails, or the context is done: answered as an unknown barcode.
LookUpFails(w) == Working(w, "taken") /\ Send(w, Answer(w, job[w].lookup, TRUE))

\* client.Publish reaches the broker, and the station with it ...
Deliver(w) ==
  /\ Working(w, "sending") /\ link
  /\ LET a == job[w].answer
     IN /\ answers' = [answers EXCEPT ![StationOf[a.lookup]] = Append(@, a)]
        /\ fate' = [fate EXCEPT ![a.lookup] = "answered"]
  /\ job' = [job EXCEPT ![w].state = "delivered"]
  /\ UNCHANGED <<processVars, netVars, catalogs, inflight, queue, since>>

\* ... and token.Wait returns with the acknowledgement.
Acknowledge(w) == Working(w, "delivered") /\ link /\ Become(w, Idle)

\* The select finds the context done.
Leave(w) ==
  phase = "stopping" /\ Working(w, "idle") /\ Become(w, [Idle EXCEPT !.state = "left"])

-----------------------------------------------------------------------------
(* The process: a signal ends the context, Disconnect waits 250 ms, and     *)
(* everything in memory is gone.  A crash skips the first step.             *)

Signal ==
  /\ phase = "running" /\ stops < MaxStops
  /\ phase' = "stopping"
  /\ UNCHANGED <<stops, netVars, catalogs, requestVars, job, answers>>

Exit ==
  /\ phase # "stopped" /\ stops < MaxStops
  /\ phase' = "stopped" /\ stops' = stops + 1
  /\ link' = FALSE /\ subscribed' = FALSE
  /\ inflight' = <<>> /\ queue' = <<>>
  /\ job' = [w \in Workers |-> Idle]
  /\ fate' = [l \in Lookups |-> IF fate[l] \in {"sent", "accepted"} THEN "lost" ELSE fate[l]]
  /\ UNCHANGED <<drops, catalogs, since, answers>>

\* The service manager starts the container again; workers run once connected.
Restart ==
  /\ phase = "stopped" /\ phase' = "running"
  /\ link' = TRUE /\ subscribed' \in BOOLEAN
  /\ UNCHANGED <<stops, drops, catalogs, requestVars, job, answers>>

Next ==
  \/ \E l \in Lookups : Ask(l)
  \/ InstallCatalog \/ Disconnect \/ Reconnect \/ Ignore \/ Accept \/ Drop
  \/ \E w \in Workers : \/ Take(w) \/ LookUp(w) \/ LookUpFails(w) \/ Deliver(w)
                        \/ Acknowledge(w) \/ Leave(w)
  \/ Signal \/ Exit \/ Restart

Spec == Init /\ [][Next]_vars

\* The goroutines run, the client reconnects, the service is restarted, and
\* a stopping process exits.
Fairness ==
  /\ WF_vars(Reconnect) /\ WF_vars(Ignore \/ Accept \/ Drop) /\ WF_vars(Restart)
  /\ WF_vars(Exit /\ phase = "stopping")
  /\ \A w \in Workers :
       /\ WF_vars(Take(w)) /\ WF_vars(LookUp(w) \/ LookUpFails(w))
       /\ WF_vars(Deliver(w)) /\ WF_vars(Acknowledge(w))

FairSpec == Spec /\ Fairness

-----------------------------------------------------------------------------
AnswerRecords ==
  [lookup : Lookups, by : Workers, valid : BOOLEAN, catalog : Nat, failed : BOOLEAN]

TypeOK ==
  /\ phase \in {"running", "stopping", "stopped"}
  /\ link \in BOOLEAN /\ subscribed \in BOOLEAN
  /\ catalogs \in Seq(SUBSET Barcodes) /\ Current >= 1
  /\ inflight \in Seq(Lookups)
  /\ queue \in Seq(Lookups) /\ Len(queue) <= Capacity
  /\ job \in [Workers -> [state : {"idle", "taken", "sending", "delivered", "left"},
                          lookup : Lookups \cup {NoLookup},
                          answer : AnswerRecords \cup {NoAnswer}]]
  /\ fate \in [Lookups -> {"unasked", "sent", "lost", "ignored", "dropped",
                           "accepted", "answered"}]
  /\ since \in [Lookups -> Nat]
  /\ answers \in [Stations -> Seq(AnswerRecords)]
  /\ drops \in 0..MaxDrops /\ stops \in 0..MaxStops

\* An answer is true of a catalog that was current after the request had
\* been queued, whatever imports, reconnections and other workers did
\* meanwhile: a price is found there, and an unknown barcode is missing
\* there unless the lookup itself failed.  Among the answers of one worker a
\* station never sees an older catalog after a newer one; those of several
\* workers overtake each other.
AnswersAreFresh ==
  \A s \in Stations :
    /\ \A a \in ToSet(answers[s]) :
         /\ a.catalog \in since[a.lookup]..Current
         /\ a.valid = (~a.failed /\ BarcodeOf[a.lookup] \in catalogs[a.catalog])
    /\ \A i, j \in DOMAIN answers[s] :
         i < j /\ answers[s][i].by = answers[s][j].by =>
           answers[s][i].catalog <= answers[s][j].catalog

\* An accepted request is in exactly one place, the channel or one worker,
\* until its answer was delivered: none is forgotten, none is handled twice.
\* An answer is repeated only when the connection broke before its
\* acknowledgement: never more often than connections broke.
Holders(l) == {w \in Workers : job[w].lookup = l}

AcceptedInOnePlace ==
  /\ IsInjective(queue)
  /\ \A l \in Lookups :
       /\ l \in ToSet(queue) => Holders(l) = {} /\ fate[l] = "accepted"
       /\ fate[l] = "accepted" => l \in ToSet(queue) \/ Holders(l) # {}
       /\ \A v, w \in Holders(l) : v = w
       /\ \A s \in Stations :
            Cardinality({i \in DOMAIN answers[s] : answers[s][i].lookup = l}) <= 1 + drops

\* Every accepted request is answered, unless the process ends: a time comes
\* when none of them waits.
AcceptedIsAnswered ==
  LET accepted == {l \in Lookups : fate[l] = "accepted"}
  IN accepted # {} ~> accepted = {}
=============================================================================

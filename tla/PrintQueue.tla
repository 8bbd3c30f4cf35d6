----------------------------- MODULE PrintQueue -----------------------------
(***************************************************************************)
(* What qrproxy promises to a cash register: its jobs are dealt with once, *)
(* those to be printed in the order in which they came, whatever is between *)
(* the register and the paper; a process that ends loses all that waits,   *)
(* and with it the payments that were not yet asked for.  QrProxy is shown *)
(* to implement this specification.                                        *)
(*                                                                         *)
(*   jobs      all jobs, numbered in order of arrival                      *)
(*   fate      "accepted", "handled" or "lost", for each                   *)
(*   printed   the jobs on paper, in order                                 *)
(*   paid      the jobs whose payment the terminal was asked for, in order *)
(*   breaks    how often the connection to the terminal broke              *)
(***************************************************************************)
EXTENDS Naturals, Sequences, FiniteSets

CONSTANTS Jobs,        (* what a job can be                                  *)
          Printable,   (* the jobs that belong on paper                      *)
          Payable      (* the jobs that carry an amount                      *)

VARIABLES jobs, fate, printed, paid, breaks

vars == <<jobs, fate, printed, paid, breaks>>

Init ==
  /\ jobs = <<>> /\ fate = <<>>
  /\ printed = <<>> /\ paid = <<>> /\ breaks = 0

Accept ==
  /\ \E job \in Jobs : jobs' = Append(jobs, job)
  /\ fate' = Append(fate, "accepted")
  /\ UNCHANGED <<printed, paid, breaks>>

Waits(j) == fate[j] = "accepted"

Handle(j) == Waits(j) /\ fate' = [fate EXCEPT ![j] = "handled"]

\* The job that has waited longest; the device may fail, and it is not tried again.
PutOnPaper(j) ==
  /\ Handle(j) /\ jobs[j] \in Printable
  /\ \A k \in DOMAIN jobs : Waits(k) => j <= k
  /\ printed' \in {printed, Append(printed, j)}
  /\ UNCHANGED <<jobs, paid, breaks>>

\* What is not for the printer need not wait for it.
Dispatch(j) ==
  /\ Handle(j) /\ jobs[j] \notin Printable
  /\ UNCHANGED <<jobs, printed, paid, breaks>>

\* In order and once, unless the connection broke; for a payment alone only when
\* the job is dealt with, for a receipt maybe before it is on paper, but for
\* neither when it went with a process.
Ask(j) ==
  /\ jobs[j] \in Payable
  /\ fate[j] = "handled" \/ (jobs[j] \in Printable /\ Waits(j))
  /\ breaks = 0 => \A i \in DOMAIN paid : paid[i] < j
  /\ Cardinality({i \in DOMAIN paid : paid[i] = j}) <= breaks
  /\ paid' = Append(paid, j)
  /\ UNCHANGED <<jobs, fate, printed, breaks>>

Break == breaks' = breaks + 1 /\ UNCHANGED <<jobs, fate, printed, paid>>

LoseAll ==
  /\ fate' = [j \in DOMAIN fate |-> IF Waits(j) THEN "lost" ELSE fate[j]]
  /\ UNCHANGED <<jobs, printed, paid, breaks>>

Next ==
  \/ Accept \/ Break \/ LoseAll
  \/ \E j \in DOMAIN jobs : PutOnPaper(j) \/ Dispatch(j) \/ Ask(j)

Spec == Init /\ [][Next]_vars
=============================================================================

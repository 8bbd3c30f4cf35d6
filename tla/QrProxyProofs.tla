--------------------------- MODULE QrProxyProofs ---------------------------
(***************************************************************************)
(* Proofs about QrProxy, for channels of any capacity and any number of    *)
(* jobs, broken connections and ends of the process.                       *)
(*                                                                         *)
(* Every job goes the same way, so that the numbers along it increase:     *)
(* what is printed, what the printer has, printerCh, what main holds,      *)
(* receiptCh, and the listener's (OrderInv).  What is accepted and not yet *)
(* dealt with is on that way (FateInv); what was published has left its    *)
(* part behind main (PayInv), where the copies of a payment, delivered or  *)
(* still to be sent, are counted against the broken connections.           *)
(***************************************************************************)
EXTENDS QrProxy, FiniteSetTheorems, TLAPS

AtPrinter == IF printer.state = "writing" THEN {printer.job} ELSE {}
AtMain == IF main.state = "printing" THEN {main.job} ELSE {}

\* What has not yet been handed to printerCh.
Upstream == AtMain \cup ToSet(receiptCh) \cup ToSet(listener)

Before(A, B) == \A x \in A, y \in B : x < y

WorkInv ==
  /\ main.state # "idle" => main.job \in Numbers
  /\ printer.state = "writing" => printer.job \in Numbers

OrderInv ==
  /\ Increasing(printed) /\ Increasing(printerCh) /\ Increasing(receiptCh)
  /\ Before(ToSet(printed), AtPrinter \cup ToSet(printerCh) \cup Upstream)
  /\ Before(AtPrinter, ToSet(printerCh) \cup Upstream)
  /\ Before(ToSet(printerCh), Upstream)
  /\ Before(AtMain, ToSet(receiptCh) \cup ToSet(listener))
  /\ Before(ToSet(receiptCh), ToSet(listener))

FateInv ==
  {j \in Numbers : fate[j] = "accepted"} = AtPrinter \cup ToSet(printerCh) \cup Upstream

\* The payments that the current connection has not sent.
Unsent == {outbox[k] : k \in (sent + 1)..Len(outbox)}

Copies(q, j) == Cardinality({i \in DOMAIN q : q[i] = j})

LinkInv ==
  /\ ~link => sent = 0
  /\ drops = 0 /\ Alive => link
  /\ ~Alive => outbox = <<>>

PayInv ==
  /\ Before(ToSet(paid) \cup ToSet(outbox), Upstream)
  /\ IsInjective(outbox)
  /\ drops = 0 => Increasing(paid) /\ Increasing(outbox) /\ Before(ToSet(paid), Unsent)
  /\ \A j \in Numbers : Copies(paid, j) + (IF j \in Unsent THEN 1 ELSE 0) <= 1 + drops

IInv == TypeOK /\ WorkInv /\ OrderInv /\ FateInv /\ LinkInv /\ PayInv

-----------------------------------------------------------------------------
(* Sequences. *)

LEMMA AppendFacts ==
  ASSUME NEW S, NEW q \in Seq(S), NEW e \in S
  PROVE  /\ Append(q, e) \in Seq(S) /\ Len(Append(q, e)) = Len(q) + 1
         /\ ToSet(Append(q, e)) = ToSet(q) \cup {e}
         /\ Append(q, e)[Len(q) + 1] = e
         /\ \A i \in DOMAIN q : Append(q, e)[i] = q[i]
<1>1. /\ Append(q, e) \in Seq(S) /\ DOMAIN Append(q, e) = DOMAIN q \cup {Len(q) + 1}
      /\ \A i \in DOMAIN q : Append(q, e)[i] = q[i]
      /\ Append(q, e)[Len(q) + 1] = e
      /\ Len(Append(q, e)) = Len(q) + 1
  OBVIOUS
<1> QED
  BY <1>1 DEF ToSet

LEMMA FunctionIsSequence ==
  ASSUME NEW S, NEW n \in Nat, NEW f \in [1..n -> S]
  PROVE  f \in Seq(S) /\ Len(f) = n
OBVIOUS

LEMMA SequenceIsFunction ==
  ASSUME NEW S, NEW q \in Seq(S)
  PROVE  q \in [1..Len(q) -> S]
OBVIOUS

LEMMA SequenceWidens ==
  ASSUME NEW T, NEW S, S \subseteq T, NEW q \in Seq(S)
  PROVE  q \in Seq(T) /\ ToSet(q) \subseteq S
<1>1. q \in [1..Len(q) -> S] /\ Len(q) \in Nat /\ DOMAIN q = 1..Len(q)
  OBVIOUS
<1>2. q \in [1..Len(q) -> T]
  BY <1>1
<1> QED
  BY <1>1, <1>2, FunctionIsSequence DEF ToSet

LEMMA TailFacts ==
  ASSUME NEW S, NEW q \in Seq(S), q # <<>>
  PROVE  /\ Head(q) \in S /\ Tail(q) \in Seq(S) /\ Len(Tail(q)) = Len(q) - 1
         /\ Head(q) = q[1] /\ Len(q) \in Nat \ {0}
         /\ \A i \in 1..Len(q) - 1 : Tail(q)[i] = q[i + 1]
         /\ ToSet(q) = {Head(q)} \cup ToSet(Tail(q))
<1>1. /\ Head(q) \in S /\ Tail(q) \in Seq(S) /\ Len(Tail(q)) = Len(q) - 1
      /\ Head(q) = q[1] /\ Len(q) \in Nat \ {0} /\ DOMAIN q = 1..Len(q)
      /\ \A i \in 1..Len(q) - 1 : Tail(q)[i] = q[i + 1]
      /\ DOMAIN Tail(q) = 1..Len(q) - 1
  OBVIOUS
<1>2. ASSUME NEW x \in ToSet(q) PROVE x \in {Head(q)} \cup ToSet(Tail(q))
  <2>1. PICK i \in 1..Len(q) : x = q[i]
    BY <1>1 DEF ToSet
  <2>2. CASE i = 1
    BY <1>1, <2>1, <2>2
  <2>3. CASE i # 1
    <3>1. i - 1 \in 1..Len(q) - 1 /\ Tail(q)[i - 1] = q[i]
      BY <1>1, <2>3
    <3> QED
      BY <1>1, <2>1, <3>1 DEF ToSet
  <2> QED
    BY <2>2, <2>3
<1>3. ASSUME NEW x \in {Head(q)} \cup ToSet(Tail(q)) PROVE x \in ToSet(q)
  BY <1>1 DEF ToSet
<1> QED
  BY <1>1, <1>2, <1>3

LEMMA ConcatFacts ==
  ASSUME NEW S, NEW a \in Seq(S), NEW b \in Seq(S)
  PROVE  /\ a \o b \in Seq(S) /\ Len(a \o b) = Len(a) + Len(b)
         /\ \A i \in 1..Len(a) : (a \o b)[i] = a[i]
         /\ \A i \in 1..Len(b) : (a \o b)[Len(a) + i] = b[i]
         /\ ToSet(a \o b) = ToSet(a) \cup ToSet(b)
<1>1. /\ a \o b \in Seq(S) /\ Len(a \o b) = Len(a) + Len(b)
      /\ DOMAIN (a \o b) = 1..Len(a) + Len(b)
      /\ \A i \in 1..Len(a) : (a \o b)[i] = a[i]
      /\ \A i \in 1..Len(b) : (a \o b)[Len(a) + i] = b[i]
      /\ DOMAIN a = 1..Len(a) /\ DOMAIN b = 1..Len(b) /\ Len(a) \in Nat /\ Len(b) \in Nat
  OBVIOUS
<1>2. ASSUME NEW x \in ToSet(a \o b) PROVE x \in ToSet(a) \cup ToSet(b)
  <2>1. PICK i \in 1..Len(a) + Len(b) : x = (a \o b)[i]
    BY <1>1 DEF ToSet
  <2>2. CASE i <= Len(a)
    BY <1>1, <2>1, <2>2 DEF ToSet
  <2>3. CASE ~(i <= Len(a))
    <3>1. i - Len(a) \in 1..Len(b) /\ x = b[i - Len(a)]
      BY <1>1, <2>1, <2>3
    <3> QED
      BY <1>1, <3>1 DEF ToSet
  <2> QED
    BY <2>2, <2>3
<1>3. ASSUME NEW x \in ToSet(a) \cup ToSet(b) PROVE x \in ToSet(a \o b)
  <2>1. CASE x \in ToSet(a)
    BY <1>1, <2>1 DEF ToSet
  <2>2. CASE x \in ToSet(b)
    <3>1. PICK i \in 1..Len(b) : x = b[i]
      BY <1>1, <2>2 DEF ToSet
    <3>2. Len(a) + i \in 1..Len(a) + Len(b) /\ (a \o b)[Len(a) + i] = x
      BY <1>1, <3>1
    <3> QED
      BY <1>1, <3>2 DEF ToSet
  <2> QED
    BY <2>1, <2>2
<1> QED
  BY <1>1, <1>2, <1>3

LEMMA IncreasingAppend ==
  ASSUME NEW q \in Seq(Nat), NEW e \in Nat, Increasing(q), Before(ToSet(q), {e})
  PROVE  Increasing(Append(q, e))
<1>1. /\ DOMAIN Append(q, e) = DOMAIN q \cup {Len(q) + 1} /\ DOMAIN q = 1..Len(q)
      /\ Len(q) \in Nat
  OBVIOUS
<1>2. \A i \in DOMAIN q : q[i] < e
  BY DEF Before, ToSet
<1> QED
  BY <1>1, <1>2, AppendFacts DEF Increasing

LEMMA IncreasingTail ==
  ASSUME NEW q \in Seq(Nat), q # <<>>, Increasing(q)
  PROVE  Increasing(Tail(q)) /\ Before({Head(q)}, ToSet(Tail(q)))
<1>1. DOMAIN q = 1..Len(q) /\ DOMAIN Tail(q) = 1..Len(q) - 1
  OBVIOUS
<1>2. /\ Head(q) = q[1] /\ Len(q) \in Nat \ {0}
      /\ \A i \in 1..Len(q) - 1 : Tail(q)[i] = q[i + 1]
  BY TailFacts
<1>3. Increasing(Tail(q))
  BY <1>1, <1>2 DEF Increasing
<1>4. \A i \in 1..Len(q) - 1 : Head(q) < Tail(q)[i]
  BY <1>1, <1>2 DEF Increasing
<1> QED
  BY <1>1, <1>3, <1>4 DEF Before, ToSet

LEMMA IncreasingConcat ==
  ASSUME NEW a \in Seq(Nat), NEW b \in Seq(Nat),
         Increasing(a), Increasing(b), Before(ToSet(a), ToSet(b))
  PROVE  Increasing(a \o b)
<1>1. /\ DOMAIN (a \o b) = 1..Len(a) + Len(b)
      /\ DOMAIN a = 1..Len(a) /\ DOMAIN b = 1..Len(b) /\ Len(a) \in Nat /\ Len(b) \in Nat
  OBVIOUS
<1>2. \A i \in 1..Len(a), k \in 1..Len(b) : a[i] < b[k]
  BY <1>1 DEF Before, ToSet
<1>3. ASSUME NEW i \in 1..Len(a) + Len(b), NEW k \in 1..Len(a) + Len(b), i < k
      PROVE  (a \o b)[i] < (a \o b)[k]
  <2>1. CASE k <= Len(a)
    <3>1. i \in 1..Len(a) /\ k \in 1..Len(a)
      BY <1>1, <1>3, <2>1
    <3>2. (a \o b)[i] = a[i] /\ (a \o b)[k] = a[k]
      BY <3>1, ConcatFacts
    <3> QED
      BY <1>1, <1>3, <3>1, <3>2 DEF Increasing
  <2>2. CASE i <= Len(a) /\ ~(k <= Len(a))
    <3>1. i \in 1..Len(a) /\ k - Len(a) \in 1..Len(b) /\ k = Len(a) + (k - Len(a))
      BY <1>1, <2>2
    <3>2. (a \o b)[i] = a[i] /\ (a \o b)[k] = b[k - Len(a)]
      BY <3>1, ConcatFacts
    <3> QED
      BY <1>2, <3>1, <3>2
  <2>3. CASE ~(i <= Len(a))
    <3>1. /\ i - Len(a) \in 1..Len(b) /\ i = Len(a) + (i - Len(a))
          /\ k - Len(a) \in 1..Len(b) /\ k = Len(a) + (k - Len(a))
          /\ i - Len(a) < k - Len(a)
      BY <1>1, <1>3, <2>3
    <3>2. (a \o b)[i] = b[i - Len(a)] /\ (a \o b)[k] = b[k - Len(a)]
      BY <3>1, ConcatFacts
    <3> QED
      BY <1>1, <3>1, <3>2 DEF Increasing
  <2> QED
    BY <2>1, <2>2, <2>3
<1> QED
  BY <1>1, <1>3 DEF Increasing

LEMMA JoinFacts ==
  ASSUME NEW a \in Seq(Nat), NEW b \in Seq(Nat),
         Increasing(a), Increasing(b), Before(ToSet(a), ToSet(b))
  PROVE  /\ a \o b \in Seq(Nat) /\ Increasing(a \o b)
         /\ ToSet(a \o b) = ToSet(a) \cup ToSet(b)
BY ConcatFacts, IncreasingConcat

-----------------------------------------------------------------------------
(* Types. *)

LEMMA InitInv == Init => IInv
<1> SUFFICES ASSUME Init PROVE IInv
  OBVIOUS
<1> USE DEF Init, Idle
<1>1. ToSet(<<>>) = {} /\ Increasing(<<>>) /\ IsInjective(<<>>)
  BY DEF ToSet, Increasing, IsInjective
<1>2. TypeOK
  BY ProxyAssumption DEF TypeOK, Numbers
<1>3. WorkInv /\ LinkInv
  BY DEF WorkInv, LinkInv, Alive
<1>4. Upstream = {} /\ AtPrinter = {} /\ Numbers = {}
  BY <1>1 DEF Upstream, AtPrinter, AtMain, Numbers
<1>5. OrderInv /\ FateInv
  BY <1>1, <1>4 DEF OrderInv, FateInv, Before, AtMain
<1>6. PayInv
  BY <1>1, <1>4 DEF PayInv, Before
<1> QED
  BY <1>2, <1>3, <1>5, <1>6 DEF IInv

LEMMA TypeStep == IInv /\ [Next]_vars => TypeOK' /\ WorkInv'
<1> SUFFICES ASSUME IInv, [Next]_vars PROVE TypeOK' /\ WorkInv'
  OBVIOUS
<1> USE ProxyAssumption DEF IInv, TypeOK, WorkInv, Numbers, Doing, Idle, processVars, inputVars, printVars, payVars
<1>1. CASE ReadConnection
  <2>1. PICK job \in Jobs : jobs' = Append(jobs, job)
    BY <1>1 DEF ReadConnection
  <2>2. jobs' \in Seq(Jobs) /\ Len(jobs') = Len(jobs) + 1
    BY <2>1
  <2>3. fate' \in [1..Len(jobs') -> {"accepted", "handled", "lost"}]
    <3>1. fate \in Seq({"accepted", "handled", "lost"}) /\ Len(fate) = Len(jobs)
      BY FunctionIsSequence
    <3>2. fate' = Append(fate, "accepted")
      BY <1>1 DEF ReadConnection
    <3> HIDE DEF IInv
    <3>3. fate' \in Seq({"accepted", "handled", "lost"}) /\ Len(fate') = Len(jobs')
      BY <2>2, <3>1, <3>2, AppendFacts
    <3> QED
      BY <3>3, SequenceIsFunction
  <2>4. \A q : q \in Seq(1..Len(jobs)) => q \in Seq(1..Len(jobs'))
    BY <2>2
  <2> QED
    BY <1>1, <2>2, <2>3, <2>4 DEF ReadConnection
<1>2. CASE QueueReceipt
  <2>1. receiptCh' \in Seq(1..Len(jobs)) /\ Len(receiptCh') = Len(receiptCh) + Len(listener)
    BY <1>2, ConcatFacts DEF QueueReceipt
  <2> QED
    BY <1>2, <2>1 DEF QueueReceipt
<1>3. CASE TakePrintJob
  <2>1. /\ Head(receiptCh) \in 1..Len(jobs) /\ Tail(receiptCh) \in Seq(1..Len(jobs))
        /\ Len(Tail(receiptCh)) = Len(receiptCh) - 1 /\ Len(receiptCh) \in Nat \ {0}
    BY <1>3, TailFacts DEF TakePrintJob, NextJob
  <2> QED
    BY <1>3, <2>1 DEF TakePrintJob
<1>4. CASE TakePayment
  <2>1. /\ Head(receiptCh) \in 1..Len(jobs) /\ Tail(receiptCh) \in Seq(1..Len(jobs))
        /\ Len(Tail(receiptCh)) = Len(receiptCh) - 1 /\ Len(receiptCh) \in Nat \ {0}
    BY <1>4, TailFacts DEF TakePayment, NextJob
  <2>2. /\ outbox' \in Seq(1..Len(jobs)) /\ sent \in 0..Len(outbox')
        /\ main' \in [state : {"idle", "printing", "publishing"}, job : 1..Len(jobs) \cup {0}]
        /\ main'.state # "idle" => main'.job \in 1..Len(jobs)
    <3>1. CASE Pays(Head(receiptCh))
      <4>1. /\ outbox' = Append(outbox, Head(receiptCh))
            /\ main' = [state |-> "publishing", job |-> Head(receiptCh)]
        BY <1>4, <3>1 DEF TakePayment, Publish
      <4>2. outbox' \in Seq(1..Len(jobs)) /\ Len(outbox') = Len(outbox) + 1
        BY <2>1, <4>1, AppendFacts
      <4> QED
        BY <2>1, <4>1, <4>2
    <3>2. CASE ~Pays(Head(receiptCh))
      BY <1>4, <2>1, <3>2 DEF TakePayment
    <3> QED
      BY <3>1, <3>2
  <2> QED
    BY <1>4, <2>1, <2>2 DEF TakePayment
<1>5. CASE QueuePrint
  <2>1. main.job \in 1..Len(jobs)
    BY <1>5 DEF QueuePrint
  <2>2. printerCh' \in Seq(1..Len(jobs)) /\ Len(printerCh') = Len(printerCh) + 1
    BY <1>5, <2>1, AppendFacts DEF QueuePrint
  <2>3. /\ outbox' \in Seq(1..Len(jobs)) /\ sent \in 0..Len(outbox')
        /\ main' \in [state : {"idle", "printing", "publishing"}, job : 1..Len(jobs) \cup {0}]
        /\ main'.state # "idle" => main'.job \in 1..Len(jobs)
    <3>1. CASE Pays(main.job)
      <4>1. /\ outbox' = Append(outbox, main.job)
            /\ main' = [state |-> "publishing", job |-> main.job]
        BY <1>5, <3>1 DEF QueuePrint, Publish
      <4>2. outbox' \in Seq(1..Len(jobs)) /\ Len(outbox') = Len(outbox) + 1
        BY <2>1, <4>1, AppendFacts
      <4> QED
        BY <2>1, <4>1, <4>2
    <3>2. CASE ~Pays(main.job)
      BY <1>5, <2>1, <3>2 DEF QueuePrint
    <3> QED
      BY <3>1, <3>2
  <2> QED
    BY <1>5, <2>2, <2>3 DEF QueuePrint
<1>6. CASE PublishEnds
  BY <1>6 DEF PublishEnds
<1>7. CASE TakePrint
  <2>1. /\ Head(printerCh) \in 1..Len(jobs) /\ Tail(printerCh) \in Seq(1..Len(jobs))
        /\ Len(Tail(printerCh)) = Len(printerCh) - 1 /\ Len(printerCh) \in Nat \ {0}
    BY <1>7, TailFacts DEF TakePrint
  <2> QED
    BY <1>7, <2>1 DEF TakePrint
<1>8. CASE relayToPrinter
  <2>1. printer.job \in 1..Len(jobs)
    BY <1>8 DEF relayToPrinter
  <2>2. printed' \in Seq(1..Len(jobs))
    <3>1. printed' = printed \/ printed' = Append(printed, printer.job)
      BY <1>8 DEF relayToPrinter
    <3>2. printed \in Seq(1..Len(jobs))
      OBVIOUS
    <3> HIDE DEF IInv
    <3> QED
      BY <2>1, <3>1, <3>2, AppendFacts
  <2> QED
    BY <1>8, <2>1, <2>2 DEF relayToPrinter
<1>9. CASE Deliver
  <2>1. outbox[sent + 1] \in 1..Len(jobs)
    BY <1>9 DEF Deliver
  <2>2. paid' \in Seq(1..Len(jobs))
    BY <1>9, <2>1, AppendFacts DEF Deliver
  <2> QED
    BY <1>9, <2>2 DEF Deliver
<1>10. CASE Acknowledge
  <2>1. /\ Tail(outbox) \in Seq(1..Len(jobs)) /\ Len(Tail(outbox)) = Len(outbox) - 1
        /\ Len(outbox) \in Nat \ {0}
    <3>1. outbox # <<>>
      BY <1>10 DEF Acknowledge
    <3> QED
      BY <3>1, TailFacts
  <2> QED
    BY <1>10, <2>1 DEF Acknowledge
<1>11. CASE Disconnect
  <2>0. link' \in BOOLEAN
    BY <1>11, Zenon DEF Disconnect
  <2>1. drops' \in 0..MaxDrops /\ sent' \in 0..Len(outbox)
    <3>1. drops < MaxDrops /\ drops' = drops + 1 /\ sent' = 0
      BY <1>11 DEF Disconnect
    <3>2. drops \in 0..MaxDrops /\ MaxDrops \in Nat /\ Len(outbox) \in Nat
      OBVIOUS
    <3> HIDE DEF IInv
    <3> QED
      BY <3>1, <3>2
  <2>2. UNCHANGED <<processVars, inputVars, fate, receiptCh, main, printVars, outbox, paid>>
    BY <1>11 DEF Disconnect
  <2> QED
    BY <2>0, <2>1, <2>2
<1>12. CASE Reconnect
  <2>1. outbox' \in [1..Len(outbox) -> 1..Len(jobs)]
    <3>1. ToSet(outbox) \subseteq 1..Len(jobs) /\ DOMAIN outbox = 1..Len(outbox)
      BY DEF ToSet
    <3>2. outbox' \in [DOMAIN outbox -> ToSet(outbox)]
      BY <1>12 DEF Reconnect
    <3> QED
      BY <3>1, <3>2
  <2>2. outbox' \in Seq(1..Len(jobs)) /\ Len(outbox') = Len(outbox)
    <3>1. Len(outbox) \in Nat
      OBVIOUS
    <3> HIDE DEF IInv
    <3> QED
      BY <2>1, <3>1, FunctionIsSequence
  <2> QED
    BY <1>12, <2>2 DEF Reconnect
<1>13. CASE Signal
  BY <1>13 DEF Signal
<1>14. CASE PrinterLeaves
  BY <1>14 DEF PrinterLeaves
<1>15. CASE Restart
  BY <1>15 DEF Restart
<1>16. CASE MainReturns \/ Crash \/ Kill \/ TakeRestart
  <2>1. Exit /\ stops' \in 0..MaxStops
    BY <1>16 DEF MainReturns, Crash, Kill, TakeRestart
  <2>2. /\ listener' = <<>> /\ receiptCh' = <<>> /\ printerCh' = <<>> /\ outbox' = <<>>
        /\ main' = [state |-> "idle", job |-> 0] /\ printer' = main'
        /\ sent' = 0 /\ phase' = "exited"
        /\ UNCHANGED <<jobs, printed, paid, drops>>
    BY <2>1 DEF Exit
  <2>4. link' \in BOOLEAN
    BY <2>1, Zenon DEF Exit
  <2>3. fate' \in [1..Len(jobs) -> {"accepted", "handled", "lost"}]
    <3>1. fate' = [j \in DOMAIN fate |-> IF fate[j] = "accepted" THEN "lost" ELSE fate[j]]
      BY <2>1 DEF Exit
    <3>2. fate \in [1..Len(jobs) -> {"accepted", "handled", "lost"}]
      OBVIOUS
    <3> HIDE DEF IInv
    <3> QED
      BY <3>1, <3>2
  <2> QED
    BY <2>1, <2>2, <2>3, <2>4
<1>17. CASE UNCHANGED vars
  BY <1>17 DEF vars
<1> QED
  BY <1>1, <1>2, <1>3, <1>4, <1>5, <1>6, <1>7, <1>8, <1>9, <1>10, <1>11, <1>12, <1>13,
     <1>14, <1>15, <1>16, <1>17 DEF Next

-----------------------------------------------------------------------------
(* The way of the jobs. *)

LEMMA WayTypes ==
  ASSUME TypeOK, WorkInv
  PROVE  /\ Len(jobs) \in Nat
         /\ printed \in Seq(Nat) /\ printerCh \in Seq(Nat) /\ receiptCh \in Seq(Nat)
         /\ listener \in Seq(Nat) /\ Increasing(listener)
         /\ ToSet(printed) \subseteq Numbers /\ ToSet(printerCh) \subseteq Numbers
         /\ ToSet(receiptCh) \subseteq Numbers /\ ToSet(listener) \subseteq Numbers
         /\ AtPrinter \subseteq Numbers /\ AtMain \subseteq Numbers /\ Numbers \subseteq Nat
<1>1. Len(jobs) \in Nat
  BY DEF TypeOK
<1>2. Numbers \subseteq Nat
  BY <1>1 DEF Numbers
<1>3. /\ printed \in Seq(Numbers) /\ printerCh \in Seq(Numbers) /\ receiptCh \in Seq(Numbers)
      /\ listener \in Seq(Numbers) /\ Len(listener) <= 1
  BY DEF TypeOK
<1>4. ASSUME NEW q \in Seq(Numbers) PROVE q \in Seq(Nat) /\ ToSet(q) \subseteq Numbers
  BY <1>2, SequenceWidens
<1>5. Increasing(listener)
  BY <1>3 DEF Increasing
<1>6. AtPrinter \subseteq Numbers /\ AtMain \subseteq Numbers
  BY DEF WorkInv, AtPrinter, AtMain
<1> QED
  BY <1>1, <1>2, <1>3, <1>4, <1>5, <1>6

\* Whatever leaves all of this alone.
LEMMA WayFrame ==
  ASSUME OrderInv, FateInv, AtPrinter' = AtPrinter, AtMain' = AtMain,
         UNCHANGED <<jobs, fate, printed, printerCh, receiptCh, listener>>
  PROVE  OrderInv' /\ FateInv'
BY DEF OrderInv, FateInv, Upstream, Numbers

\* Order is not disturbed by what goes missing.
LEMMA WayShrinks ==
  ASSUME OrderInv, Increasing(printed'), Increasing(printerCh'), Increasing(receiptCh'),
         ToSet(printed') \subseteq ToSet(printed), ToSet(printerCh') \subseteq ToSet(printerCh),
         ToSet(receiptCh') \subseteq ToSet(receiptCh), ToSet(listener') \subseteq ToSet(listener),
         AtPrinter' \subseteq AtPrinter, AtMain' \subseteq AtMain
  PROVE  OrderInv'
<1>1. Upstream' \subseteq Upstream
  BY DEF Upstream
<1>2. ASSUME NEW A, NEW B, NEW A1, NEW B1, Before(A, B), A1 \subseteq A, B1 \subseteq B
      PROVE  Before(A1, B1)
  BY <1>2 DEF Before
<1>3. /\ Before(ToSet(printed'), AtPrinter' \cup ToSet(printerCh') \cup Upstream')
      /\ Before(AtPrinter', ToSet(printerCh') \cup Upstream')
      /\ Before(ToSet(printerCh'), Upstream')
  BY <1>1, <1>2 DEF OrderInv, Before
<1>4. /\ Before(AtMain', ToSet(receiptCh') \cup ToSet(listener'))
      /\ Before(ToSet(receiptCh'), ToSet(listener'))
  BY <1>2 DEF OrderInv, Before
<1> QED
  BY <1>3, <1>4 DEF OrderInv

LEMMA WayStep == IInv /\ [Next]_vars => OrderInv' /\ FateInv'
<1> SUFFICES ASSUME IInv, [Next]_vars PROVE OrderInv' /\ FateInv'
  OBVIOUS
<1>0. TypeOK /\ WorkInv /\ OrderInv /\ FateInv
  BY DEF IInv
<1> USE DEF Doing, Idle, processVars, inputVars, printVars, payVars
<1>1. CASE ReadConnection
  <2>1. /\ listener = <<>> /\ listener' = <<Len(jobs) + 1>> /\ fate' = Append(fate, "accepted")
        /\ AtMain' = AtMain /\ AtPrinter' = AtPrinter
        /\ UNCHANGED <<printed, printerCh, receiptCh>>
    BY <1>1 DEF ReadConnection, AtMain, AtPrinter
  <2>2. ToSet(listener) = {} /\ ToSet(listener') = {Len(jobs) + 1}
    BY <2>1 DEF ToSet
  <2>3. Numbers' = Numbers \cup {Len(jobs) + 1} /\ \A j \in Numbers : j < Len(jobs) + 1
    <3>1. PICK job \in Jobs : jobs' = Append(jobs, job)
      BY <1>1 DEF ReadConnection
    <3>2. Len(jobs') = Len(jobs) + 1 /\ Len(jobs) \in Nat
      BY <1>0, <3>1 DEF TypeOK
    <3> QED
      BY <3>2 DEF Numbers
  <2>4. OrderInv'
    BY <1>0, <2>1, <2>2, <2>3, WayTypes DEF OrderInv, Upstream, Before
  <2>5. fate'[Len(jobs) + 1] = "accepted" /\ \A j \in Numbers : fate'[j] = fate[j]
    <3>1. /\ fate \in Seq({"accepted", "handled", "lost"}) /\ Len(fate) = Len(jobs)
          /\ DOMAIN fate = Numbers
      BY <1>0, WayTypes, FunctionIsSequence DEF TypeOK, Numbers
    <3> QED
      BY <2>1, <3>1, AppendFacts
  <2>6. FateInv'
    BY <1>0, <2>1, <2>2, <2>3, <2>5 DEF FateInv, Upstream
  <2> QED
    BY <2>4, <2>6
<1>2. CASE QueueReceipt
  <2>1. /\ receiptCh' = receiptCh \o listener /\ listener' = <<>>
        /\ AtMain' = AtMain /\ AtPrinter' = AtPrinter
        /\ UNCHANGED <<jobs, fate, printed, printerCh>>
    BY <1>2 DEF QueueReceipt, AtMain, AtPrinter
  <2>2. ToSet(receiptCh') = ToSet(receiptCh) \cup ToSet(listener) /\ ToSet(listener') = {}
    <3>1. ToSet(receiptCh \o listener) = ToSet(receiptCh) \cup ToSet(listener)
      BY <1>0, WayTypes, ConcatFacts
    <3>2. ToSet(<<>>) = {}
      BY DEF ToSet
    <3> QED
      BY <2>1, <3>1, <3>2
  <2>3. Increasing(receiptCh')
    BY <1>0, <2>1, WayTypes, IncreasingConcat DEF OrderInv
  <2>4. Upstream' = Upstream /\ Numbers' = Numbers
    BY <2>1, <2>2 DEF Upstream, Numbers
  <2> QED
    BY <1>0, <2>1, <2>2, <2>3, <2>4 DEF OrderInv, FateInv, Before
<1>3. CASE TakePrintJob
  <2> DEFINE h == Head(receiptCh)
  <2>1. /\ receiptCh # <<>> /\ receiptCh' = Tail(receiptCh) /\ AtMain = {} /\ AtMain' = {h}
        /\ AtPrinter' = AtPrinter
        /\ UNCHANGED <<jobs, fate, printed, printerCh, listener>>
    BY <1>3 DEF TakePrintJob, NextJob, AtMain, AtPrinter
  <2>2. ToSet(receiptCh) = {h} \cup ToSet(receiptCh')
    BY <1>0, <2>1, WayTypes, TailFacts
  <2>3. Increasing(receiptCh') /\ Before({h}, ToSet(receiptCh'))
    BY <1>0, <2>1, WayTypes, IncreasingTail DEF OrderInv
  <2>4. Upstream' = Upstream /\ Numbers' = Numbers
    BY <2>1, <2>2 DEF Upstream, Numbers
  <2> HIDE DEF h
  <2> QED
    BY <1>0, <2>1, <2>2, <2>3, <2>4 DEF OrderInv, FateInv, Before
<1>4. CASE TakePayment
  <2> DEFINE h == Head(receiptCh)
  <2>1. /\ receiptCh # <<>> /\ receiptCh' = Tail(receiptCh) /\ AtMain = {} /\ AtMain' = {}
        /\ AtPrinter' = AtPrinter /\ fate' = [fate EXCEPT ![h] = "handled"]
        /\ UNCHANGED <<jobs, printed, printerCh, listener>>
    BY <1>4 DEF TakePayment, NextJob, AtMain, AtPrinter, Publish
  <2>2. ToSet(receiptCh) = {h} \cup ToSet(receiptCh')
    BY <1>0, <2>1, WayTypes, TailFacts
  <2>3. Increasing(receiptCh') /\ Before({h}, ToSet(receiptCh'))
    BY <1>0, <2>1, WayTypes, IncreasingTail DEF OrderInv
  <2>4. Upstream = Upstream' \cup {h} /\ Numbers' = Numbers
    BY <2>1, <2>2 DEF Upstream, Numbers
  <2> HIDE DEF h
  <2>5. OrderInv'
    <3>1. /\ Increasing(printed') /\ Increasing(printerCh')
          /\ ToSet(printed') \subseteq ToSet(printed) /\ ToSet(printerCh') \subseteq ToSet(printerCh)
          /\ ToSet(listener') \subseteq ToSet(listener)
      BY <1>0, <2>1 DEF OrderInv
    <3>2. /\ ToSet(receiptCh') \subseteq ToSet(receiptCh)
          /\ AtPrinter' \subseteq AtPrinter /\ AtMain' \subseteq AtMain
      BY <2>1, <2>2
    <3> QED
      BY <1>0, <2>3, <3>1, <3>2, WayShrinks
  <2>6. h \notin AtPrinter \cup ToSet(printerCh) \cup Upstream'
    <3>1. h \in Nat
      BY <1>0, <2>2, WayTypes
    <3>2. \A x \in AtPrinter \cup ToSet(printerCh) : x < h
      BY <1>0, <2>4 DEF OrderInv, Before
    <3>3. \A x \in Upstream' : h < x
      BY <1>0, <2>1, <2>2, <2>3 DEF OrderInv, Before, Upstream
    <3> QED
      BY <3>1, <3>2, <3>3
  <2>7. FateInv'
    BY <1>0, <2>1, <2>2, <2>4, <2>6, WayTypes DEF FateInv, TypeOK
  <2> QED
    BY <2>5, <2>7

<1>5. CASE QueuePrint
  <2> DEFINE j == main.job
  <2>1. /\ main.state = "printing" /\ printerCh' = Append(printerCh, j)
        /\ UNCHANGED <<jobs, fate, printed, receiptCh, listener, printer>>
    BY <1>5 DEF QueuePrint
  <2>2. AtMain = {j} /\ AtMain' = {} /\ AtPrinter' = AtPrinter
    <3>1. main'.state # "printing"
      BY <1>5 DEF QueuePrint, Publish
    <3> QED
      BY <2>1, <3>1 DEF AtMain, AtPrinter
  <2>3. j \in Nat
    BY <1>0, <2>2, WayTypes
  <2> HIDE DEF j
  <2>4. Increasing(printerCh')
    <3>1. Before(ToSet(printerCh), {j})
      BY <1>0, <2>2 DEF OrderInv, Upstream, Before
    <3> QED
      BY <1>0, <2>1, <2>3, <3>1, WayTypes, IncreasingAppend DEF OrderInv
  <2>5. ToSet(printerCh') = ToSet(printerCh) \cup {j}
    <3>1. printerCh \in Seq(Nat)
      BY <1>0, WayTypes
    <3>2. ToSet(Append(printerCh, j)) = ToSet(printerCh) \cup {j}
      BY <2>3, <3>1, AppendFacts
    <3> QED
      BY <2>1, <3>2
  <2>6. Upstream = {j} \cup Upstream' /\ Before({j}, Upstream')
    BY <1>0, <2>1, <2>2 DEF OrderInv, Upstream, Before
  <2>7. OrderInv'
    BY <1>0, <2>1, <2>2, <2>4, <2>5, <2>6 DEF OrderInv, Before
  <2>8. FateInv'
    BY <1>0, <2>1, <2>2, <2>5, <2>6 DEF FateInv, Numbers
  <2> QED
    BY <2>7, <2>8
<1>6. CASE PublishEnds
  BY <1>0, <1>6, WayFrame DEF PublishEnds, AtMain, AtPrinter
<1>7. CASE TakePrint
  <2> DEFINE h == Head(printerCh)
  <2>1. /\ printerCh # <<>> /\ printerCh' = Tail(printerCh) /\ AtPrinter = {} /\ AtPrinter' = {h}
        /\ AtMain' = AtMain
        /\ UNCHANGED <<jobs, fate, printed, receiptCh, listener>>
    BY <1>7 DEF TakePrint, AtMain, AtPrinter
  <2>2. ToSet(printerCh) = {h} \cup ToSet(printerCh')
    BY <1>0, <2>1, WayTypes, TailFacts
  <2>3. Increasing(printerCh') /\ Before({h}, ToSet(printerCh'))
    BY <1>0, <2>1, WayTypes, IncreasingTail DEF OrderInv
  <2>4. Upstream' = Upstream /\ Numbers' = Numbers
    BY <2>1 DEF Upstream, Numbers
  <2> HIDE DEF h
  <2>5. OrderInv'
    BY <1>0, <2>1, <2>2, <2>3, <2>4 DEF OrderInv, Before
  <2>6. FateInv'
    BY <1>0, <2>1, <2>2, <2>4 DEF FateInv
  <2> QED
    BY <2>5, <2>6
<1>8. CASE relayToPrinter
  <2> DEFINE j == printer.job
  <2>1. /\ printed' = printed \/ printed' = Append(printed, j)
        /\ fate' = [fate EXCEPT ![j] = "handled"] /\ AtPrinter = {j} /\ AtPrinter' = {}
        /\ AtMain' = AtMain
        /\ UNCHANGED <<jobs, printerCh, receiptCh, listener>>
    BY <1>8 DEF relayToPrinter, AtMain, AtPrinter
  <2>2. j \in Nat
    BY <1>0, <2>1, WayTypes
  <2> HIDE DEF j
  <2>3. Increasing(printed')
    <3>1. Before(ToSet(printed), {j})
      BY <1>0, <2>1 DEF OrderInv, Before
    <3>2. Increasing(printed)
      BY <1>0 DEF OrderInv
    <3> QED
      BY <1>0, <2>1, <2>2, <3>1, <3>2, WayTypes, IncreasingAppend
  <2>4. ToSet(printed') \subseteq ToSet(printed) \cup {j}
    <3>1. printed \in Seq(Nat)
      BY <1>0, WayTypes
    <3>2. ToSet(Append(printed, j)) = ToSet(printed) \cup {j}
      BY <2>2, <3>1, AppendFacts
    <3> QED
      BY <2>1, <3>2
  <2>5. Upstream' = Upstream /\ Numbers' = Numbers
    BY <2>1 DEF Upstream, Numbers
  <2>6. OrderInv'
    BY <1>0, <2>1, <2>3, <2>4, <2>5 DEF OrderInv, Before
  <2>7. j \notin ToSet(printerCh) \cup Upstream
    BY <1>0, <2>1, <2>2 DEF OrderInv, Before
  <2>8. FateInv'
    BY <1>0, <2>1, <2>5, <2>7, WayTypes DEF FateInv, TypeOK
  <2> QED
    BY <2>6, <2>8
<1>9. CASE MainReturns \/ Crash \/ Kill \/ TakeRestart
  <2>1. Exit
    BY <1>9 DEF MainReturns, Crash, Kill, TakeRestart
  <2>2. /\ receiptCh' = <<>> /\ printerCh' = <<>> /\ listener' = <<>>
        /\ AtPrinter' = {} /\ AtMain' = {} /\ UNCHANGED <<jobs, printed>>
        /\ fate' = [j \in DOMAIN fate |-> IF fate[j] = "accepted" THEN "lost" ELSE fate[j]]
    BY <2>1 DEF Exit, AtMain, AtPrinter
  <2>3. ToSet(<<>>) = {} /\ Increasing(<<>>)
    BY DEF ToSet, Increasing
  <2>4. OrderInv'
    BY <1>0, <2>2, <2>3, WayShrinks DEF OrderInv
  <2>5. FateInv'
    BY <1>0, <2>2, <2>3 DEF FateInv, Upstream, TypeOK, Numbers
  <2> QED
    BY <2>4, <2>5
<1>10. CASE PrinterLeaves
  BY <1>0, <1>10, WayFrame DEF PrinterLeaves, AtMain, AtPrinter
<1>11. CASE Deliver \/ Acknowledge \/ Disconnect \/ Reconnect
  BY <1>0, <1>11, WayFrame DEF Deliver, Acknowledge, Disconnect, Reconnect, AtMain, AtPrinter
<1>12. CASE Signal \/ Restart \/ UNCHANGED vars
  BY <1>0, <1>12, WayFrame DEF Signal, Restart, vars, AtMain, AtPrinter
<1> QED
  BY <1>1, <1>2, <1>3, <1>4, <1>5, <1>6, <1>7, <1>8, <1>9, <1>10, <1>11, <1>12 DEF Next

-----------------------------------------------------------------------------
(* The payments. *)

LEMMA CopiesNone ==
  ASSUME NEW q, NEW j, j \notin ToSet(q)
  PROVE  Copies(q, j) = 0
<1>1. {i \in DOMAIN q : q[i] = j} = {}
  BY DEF ToSet
<1> QED
  BY <1>1, FS_EmptySet DEF Copies

LEMMA CopiesType ==
  ASSUME NEW S, NEW q \in Seq(S), NEW j
  PROVE  Copies(q, j) \in Nat /\ IsFiniteSet({i \in DOMAIN q : q[i] = j})
<1>1. DOMAIN q = 1..Len(q) /\ Len(q) \in Nat
  OBVIOUS
<1>2. IsFiniteSet(1..Len(q))
  BY <1>1, FS_Interval
<1>3. IsFiniteSet({i \in DOMAIN q : q[i] = j})
  BY <1>1, <1>2, FS_Subset
<1> QED
  BY <1>3, FS_CardinalityType DEF Copies

LEMMA CopiesAppend ==
  ASSUME NEW S, NEW q \in Seq(S), NEW e \in S, NEW j
  PROVE  Copies(Append(q, e), j) = IF j = e THEN Copies(q, j) + 1 ELSE Copies(q, j)
<1> DEFINE at == {i \in DOMAIN q : q[i] = j}
           atNext == {i \in DOMAIN Append(q, e) : Append(q, e)[i] = j}
<1>1. /\ DOMAIN Append(q, e) = DOMAIN q \cup {Len(q) + 1} /\ DOMAIN q = 1..Len(q)
      /\ Len(q) \in Nat
      /\ \A i \in DOMAIN q : Append(q, e)[i] = q[i]
      /\ Append(q, e)[Len(q) + 1] = e
  OBVIOUS
<1>2. Len(q) + 1 \notin at
  BY <1>1
<1>3. IsFiniteSet(at)
  BY CopiesType
<1>4. CASE j = e
  <2>1. atNext = at \cup {Len(q) + 1}
    BY <1>1, <1>4
  <2>2. Cardinality(atNext) = Cardinality(at) + 1
    BY <1>2, <1>3, <2>1, FS_AddElement
  <2> QED
    BY <1>4, <2>2 DEF Copies
<1>5. CASE j # e
  <2>1. atNext = at
    BY <1>1, <1>5
  <2> QED
    BY <1>5, <2>1 DEF Copies
<1> QED
  BY <1>4, <1>5

\* A rearranged sequence without repetitions has none.
LEMMA RearrangedInjective ==
  ASSUME NEW S, NEW q \in Seq(S), IsInjective(q),
         NEW f \in [1..Len(q) -> ToSet(q)], ToSet(f) = ToSet(q)
  PROVE  IsInjective(f)
<1> DEFINE D == 1..Len(q)
           T == ToSet(q)
<1>1. DOMAIN q = D /\ Len(q) \in Nat
  OBVIOUS
<1>2. IsFiniteSet(D)
  BY <1>1, FS_Interval
<1>3. q \in Surjection(D, T)
  <2>1. q \in [D -> T]
    BY <1>1, SequenceIsFunction DEF ToSet
  <2>2. \A t \in T : \E i \in D : q[i] = t
    BY <1>1 DEF ToSet
  <2> QED
    BY <2>1, <2>2 DEF Surjection
<1>4. q \in Injection(D, T)
  BY <1>1, <1>3 DEF Injection, Surjection, IsInjective
<1>5. IsFiniteSet(T) /\ Cardinality(T) = Cardinality(D)
  BY <1>2, <1>3, <1>4, FS_Surjection
<1>6. f \in Surjection(D, T)
  <2>1. \A t \in T : \E i \in D : f[i] = t
    BY DEF ToSet
  <2> QED
    BY <2>1 DEF Surjection
<1>7. f \in Injection(D, T)
  BY <1>2, <1>5, <1>6, FS_SurjSameCardinalityImpliesInj
<1> QED
  BY <1>7 DEF Injection, IsInjective

\* Whatever leaves the payments alone.
LEMMA PayFrame ==
  ASSUME PayInv, UNCHANGED <<outbox, sent, paid, drops>>,
         Numbers' = Numbers, Upstream' \subseteq Upstream
  PROVE  PayInv'
<1>1. Before(ToSet(paid') \cup ToSet(outbox'), Upstream')
  BY DEF PayInv, Before
<1>2. Unsent' = Unsent
  BY DEF Unsent
<1> QED
  BY <1>1, <1>2 DEF PayInv

LEMMA PayPublish ==
  ASSUME TypeOK, PayInv, NEW j \in Upstream, j \in Numbers,
         outbox' = Append(outbox, j), UNCHANGED <<sent, paid, drops>>,
         Numbers' = Numbers, Upstream' \subseteq Upstream, Before({j}, Upstream')
  PROVE  PayInv'
<1>1. /\ Len(outbox) \in Nat /\ sent \in Nat /\ sent <= Len(outbox) /\ DOMAIN outbox = 1..Len(outbox)
      /\ DOMAIN outbox' = 1..Len(outbox) + 1 /\ Len(outbox') = Len(outbox) + 1
      /\ outbox'[Len(outbox) + 1] = j /\ \A i \in 1..Len(outbox) : outbox'[i] = outbox[i]
  BY DEF TypeOK
<1>2. ToSet(outbox') = ToSet(outbox) \cup {j}
  BY AppendFacts DEF TypeOK
<1>3. Before(ToSet(paid'), {j}) /\ Before(ToSet(outbox), {j})
  BY DEF PayInv, Before
<1>4. Unsent' = Unsent \cup {j}
  BY <1>1 DEF Unsent
<1>5. j \notin ToSet(outbox) /\ j \notin ToSet(paid)
  <2>1. j \in Nat
    BY DEF TypeOK, Numbers
  <2> QED
    BY <1>3, <2>1 DEF Before
<1>6. Before(ToSet(paid') \cup ToSet(outbox'), Upstream')
  BY <1>2 DEF PayInv, Before
<1>7. IsInjective(outbox')
  <2>1. \A i \in 1..Len(outbox) : outbox[i] # j
    BY <1>1, <1>5 DEF ToSet
  <2>2. IsInjective(outbox)
    BY DEF PayInv
  <2> QED
    BY <1>1, <2>1, <2>2 DEF IsInjective
<1>8. drops' = 0 => Increasing(paid') /\ Increasing(outbox') /\ Before(ToSet(paid'), Unsent')
  <2> SUFFICES ASSUME drops = 0
               PROVE  Increasing(paid') /\ Increasing(outbox') /\ Before(ToSet(paid'), Unsent')
    OBVIOUS
  <2>1. Increasing(paid) /\ Increasing(outbox) /\ Before(ToSet(paid), Unsent)
    BY DEF PayInv
  <2>2. outbox \in Seq(Nat) /\ j \in Nat
    BY SequenceWidens DEF TypeOK, Numbers
  <2>3. Increasing(outbox')
    BY <1>3, <2>1, <2>2, IncreasingAppend
  <2>4. Before(ToSet(paid'), Unsent')
    BY <1>3, <1>4, <2>1 DEF Before
  <2> QED
    BY <2>1, <2>3, <2>4
<1>9. ASSUME NEW i \in Numbers
      PROVE  Copies(paid', i) + (IF i \in Unsent' THEN 1 ELSE 0) <= 1 + drops'
  <2>1. drops \in Nat
    BY ProxyAssumption DEF TypeOK
  <2>2. CASE i = j
    <3>1. Copies(paid', i) = 0
      BY <1>5, <2>2, CopiesNone
    <3> QED
      BY <2>1, <3>1
  <2>3. CASE i # j
    BY <1>4, <2>3 DEF PayInv
  <2> QED
    BY <2>2, <2>3
<1> QED
  BY <1>6, <1>7, <1>8, <1>9 DEF PayInv

LEMMA PayDeliver ==
  ASSUME TypeOK, PayInv, Deliver, Upstream' = Upstream, Numbers' = Numbers
  PROVE  PayInv'
<1> DEFINE e == outbox[sent + 1]
<1>1. /\ Len(outbox) \in Nat /\ sent \in Nat /\ sent < Len(outbox) /\ DOMAIN outbox = 1..Len(outbox)
      /\ outbox \in Seq(Numbers)
  BY DEF TypeOK, Deliver
<1>2. paid' = Append(paid, e) /\ sent' = sent + 1 /\ UNCHANGED <<outbox, drops>>
  BY DEF Deliver
<1>3. e \in Numbers /\ e \in ToSet(outbox)
  BY <1>1 DEF ToSet
<1>4. Unsent = {e} \cup Unsent'
  BY <1>1, <1>2 DEF Unsent
<1>5. e \notin Unsent'
  <2>1. \A k \in (sent + 2)..Len(outbox) : outbox[k] # e
    BY <1>1 DEF PayInv, IsInjective
  <2> QED
    BY <1>1, <1>2, <2>1 DEF Unsent
<1>6. paid \in Seq(Numbers) /\ paid \in Seq(Nat) /\ Numbers \subseteq Nat
  BY SequenceWidens DEF TypeOK, Numbers
<1> HIDE DEF e
<1>7. ToSet(paid') = ToSet(paid) \cup {e}
  BY <1>2, <1>3, <1>6, AppendFacts
<1>8. Before(ToSet(paid') \cup ToSet(outbox'), Upstream')
  BY <1>2, <1>3, <1>7 DEF PayInv, Before
<1>9. drops' = 0 => Increasing(paid') /\ Increasing(outbox') /\ Before(ToSet(paid'), Unsent')
  <2> SUFFICES ASSUME drops = 0
               PROVE  Increasing(paid') /\ Increasing(outbox') /\ Before(ToSet(paid'), Unsent')
    BY <1>2
  <2>1. Increasing(paid) /\ Increasing(outbox) /\ Before(ToSet(paid), Unsent)
    BY DEF PayInv
  <2>2. Before(ToSet(paid), {e}) /\ Before(ToSet(paid), Unsent')
    BY <1>4, <2>1 DEF Before
  <2>3. Increasing(paid')
    BY <1>2, <1>3, <1>6, <2>1, <2>2, IncreasingAppend
  <2>4. Before({e}, Unsent')
    BY <1>1, <1>2, <2>1 DEF Before, Unsent, Increasing, e
  <2>5. Before(ToSet(paid'), Unsent')
    BY <1>7, <2>2, <2>4 DEF Before
  <2> QED
    BY <1>2, <2>1, <2>3, <2>5
<1>10. ASSUME NEW i \in Numbers
       PROVE  Copies(paid', i) + (IF i \in Unsent' THEN 1 ELSE 0) <= 1 + drops'
  <2>1. Copies(paid, i) + (IF i \in Unsent THEN 1 ELSE 0) <= 1 + drops
    BY DEF PayInv
  <2>2. Copies(paid', i) = IF i = e THEN Copies(paid, i) + 1 ELSE Copies(paid, i)
    BY <1>2, <1>3, <1>6, CopiesAppend
  <2>3. drops \in Nat /\ drops' = drops /\ Copies(paid, i) \in Nat
    <3>1. drops \in Nat
      BY ProxyAssumption DEF TypeOK
    <3> QED
      BY <1>2, <1>6, <3>1, CopiesType
  <2> QED
    BY <1>4, <1>5, <2>1, <2>2, <2>3
<1> QED
  BY <1>2, <1>8, <1>9, <1>10 DEF PayInv

LEMMA PayAcknowledge ==
  ASSUME TypeOK, PayInv, Acknowledge, Upstream' = Upstream, Numbers' = Numbers
  PROVE  PayInv'
<1>1. /\ outbox \in Seq(Numbers) /\ Len(outbox) \in Nat \ {0} /\ sent \in 1..Len(outbox)
      /\ outbox # <<>> /\ DOMAIN outbox = 1..Len(outbox)
  BY DEF TypeOK, Acknowledge
<1>2. outbox' = Tail(outbox) /\ sent' = sent - 1 /\ UNCHANGED <<paid, drops>>
  BY DEF Acknowledge
<1>3. /\ Len(outbox') = Len(outbox) - 1 /\ DOMAIN outbox' = 1..Len(outbox) - 1
      /\ \A i \in 1..Len(outbox) - 1 : outbox'[i] = outbox[i + 1]
      /\ ToSet(outbox') \subseteq ToSet(outbox)
  <2>1. DOMAIN Tail(outbox) = 1..Len(outbox) - 1
    BY <1>1
  <2> QED
    BY <1>1, <1>2, <2>1, TailFacts
<1>4. Unsent' = Unsent
  <2>1. ASSUME NEW x \in Unsent PROVE x \in Unsent'
    <3>1. PICK k \in (sent + 1)..Len(outbox) : x = outbox[k]
      BY DEF Unsent
    <3>2. k - 1 \in (sent' + 1)..Len(outbox') /\ outbox'[k - 1] = x
      BY <1>1, <1>2, <1>3, <3>1
    <3> QED
      BY <3>2 DEF Unsent
  <2>2. ASSUME NEW x \in Unsent' PROVE x \in Unsent
    <3>1. PICK k \in (sent' + 1)..Len(outbox') : x = outbox'[k]
      BY DEF Unsent
    <3>2. k + 1 \in (sent + 1)..Len(outbox) /\ outbox[k + 1] = x
      BY <1>1, <1>2, <1>3, <3>1
    <3> QED
      BY <3>2 DEF Unsent
  <2> QED
    BY <2>1, <2>2
<1>5. IsInjective(outbox')
  BY <1>1, <1>3 DEF PayInv, IsInjective
<1>6. Increasing(outbox) => Increasing(outbox')
  BY <1>1, <1>3 DEF Increasing
<1>7. Before(ToSet(paid') \cup ToSet(outbox'), Upstream')
  BY <1>2, <1>3 DEF PayInv, Before
<1> QED
  BY <1>2, <1>4, <1>5, <1>6, <1>7 DEF PayInv

\* What went out and was not acknowledged is to be sent once more.
LEMMA PayDisconnect ==
  ASSUME TypeOK, PayInv, Disconnect, Upstream' = Upstream, Numbers' = Numbers
  PROVE  PayInv'
<1>1. sent' = 0 /\ drops' = drops + 1 /\ UNCHANGED <<paid, outbox>>
  BY DEF Disconnect
<1>2. drops \in Nat /\ paid \in Seq(Numbers)
  BY ProxyAssumption DEF TypeOK
<1>3. ASSUME NEW i \in Numbers
      PROVE  Copies(paid', i) + (IF i \in Unsent' THEN 1 ELSE 0) <= 1 + drops'
  <2>1. Copies(paid, i) + (IF i \in Unsent THEN 1 ELSE 0) <= 1 + drops
    BY DEF PayInv
  <2>2. Copies(paid, i) \in Nat
    BY <1>2, CopiesType
  <2> QED
    BY <1>1, <1>2, <2>1, <2>2
<1>4. drops' # 0
  BY <1>1, <1>2
<1> QED
  BY <1>1, <1>3, <1>4 DEF PayInv

LEMMA PayReconnect ==
  ASSUME TypeOK, LinkInv, PayInv, Reconnect, Upstream' = Upstream, Numbers' = Numbers
  PROVE  PayInv'
<1>1. drops # 0 /\ sent = 0
  BY DEF LinkInv, Reconnect
<1>2. outbox \in Seq(Numbers) /\ DOMAIN outbox = 1..Len(outbox) /\ Len(outbox) \in Nat
  BY DEF TypeOK
<1>3. /\ outbox' \in [1..Len(outbox) -> ToSet(outbox)] /\ ToSet(outbox') = ToSet(outbox)
      /\ UNCHANGED <<sent, paid, drops>>
  BY <1>2 DEF Reconnect
<1>4. IsInjective(outbox')
  BY <1>2, <1>3, RearrangedInjective DEF PayInv
<1>5. Unsent' = Unsent
  <2>1. DOMAIN outbox' = 1..Len(outbox) /\ Len(outbox') = Len(outbox)
    BY <1>2, <1>3, FunctionIsSequence
  <2>2. Unsent = ToSet(outbox) /\ Unsent' = ToSet(outbox')
    BY <1>1, <1>2, <1>3, <2>1 DEF Unsent, ToSet
  <2> QED
    BY <1>3, <2>2
<1> QED
  BY <1>1, <1>3, <1>4, <1>5 DEF PayInv

LEMMA PayExit ==
  ASSUME TypeOK, PayInv, Exit
  PROVE  PayInv'
<1>1. /\ outbox' = <<>> /\ sent' = 0 /\ receiptCh' = <<>> /\ listener' = <<>>
      /\ AtMain' = {} /\ UNCHANGED <<jobs, paid, drops>>
  BY DEF Exit, Idle, AtMain
<1>2. ToSet(<<>>) = {} /\ Increasing(<<>>) /\ IsInjective(<<>>) /\ Len(<<>>) = 0
  BY DEF ToSet, Increasing, IsInjective
<1>3. Upstream' = {} /\ Unsent' = {} /\ Numbers' = Numbers
  BY <1>1, <1>2 DEF Upstream, Unsent, Numbers
<1>4. ASSUME NEW i \in Numbers
      PROVE  Copies(paid', i) + (IF i \in Unsent' THEN 1 ELSE 0) <= 1 + drops'
  <2>1. Copies(paid, i) + (IF i \in Unsent THEN 1 ELSE 0) <= 1 + drops
    BY DEF PayInv
  <2>2. drops \in Nat /\ paid \in Seq(Numbers)
    BY ProxyAssumption DEF TypeOK
  <2>3. Copies(paid, i) \in Nat
    BY <2>2, CopiesType
  <2> QED
    BY <1>1, <1>3, <2>1, <2>2, <2>3
<1> QED
  BY <1>1, <1>2, <1>3, <1>4 DEF PayInv, Before

LEMMA LinkStep == IInv /\ [Next]_vars => LinkInv'
<1> SUFFICES ASSUME IInv, [Next]_vars PROVE LinkInv'
  OBVIOUS
<1>0. LinkInv /\ drops \in Nat /\ phase \in {"running", "stopping", "exited"}
  BY ProxyAssumption DEF IInv, TypeOK
<1> USE DEF LinkInv, Alive, processVars, inputVars, printVars, payVars
<1>1. CASE ReadConnection \/ QueueReceipt \/ TakePrintJob \/ PublishEnds \/ TakePrint
           \/ relayToPrinter \/ PrinterLeaves \/ UNCHANGED vars
  <2>1. UNCHANGED <<phase, link, outbox, sent, drops>>
    BY <1>1 DEF ReadConnection, QueueReceipt, TakePrintJob, PublishEnds, TakePrint,
                relayToPrinter, PrinterLeaves, vars
  <2> QED
    BY <1>0, <2>1, Zenon
<1>2. CASE TakePayment \/ QueuePrint
  <2>1. UNCHANGED <<phase, link, sent, drops>> /\ Alive
    BY <1>2 DEF TakePayment, QueuePrint, NextJob
  <2> QED
    BY <1>0, <2>1, Zenon
<1>3. CASE Deliver \/ Acknowledge
  <2>1. UNCHANGED <<phase, link, drops>> /\ Alive /\ link
    BY <1>3 DEF Deliver, Acknowledge
  <2> QED
    BY <1>0, <2>1, Zenon
<1>4. CASE Disconnect
  <2>1. UNCHANGED <<phase, outbox>> /\ Alive /\ sent' = 0 /\ drops' = drops + 1
    BY <1>4 DEF Disconnect
  <2>2. drops' # 0
    BY <1>0, <2>1
  <2> QED
    BY <2>1, <2>2, Zenon
<1>5. CASE Reconnect
  <2>1. UNCHANGED <<phase, sent, drops>> /\ Alive /\ link'
    BY <1>5 DEF Reconnect
  <2> QED
    BY <2>1, Zenon
<1>6. CASE Signal
  <2>1. UNCHANGED <<link, outbox, sent, drops>> /\ phase = "running" /\ phase' = "stopping"
    BY <1>6 DEF Signal
  <2>2. Alive /\ Alive'
    BY <2>1
  <2> QED
    BY <1>0, <2>1, <2>2, Zenon
<1>7. CASE Restart
  <2>1. phase = "exited" /\ phase' = "running" /\ link' /\ UNCHANGED <<outbox, sent, drops>>
    BY <1>7 DEF Restart
  <2>2. Alive'
    BY <2>1
  <2> QED
    BY <2>1, <2>2, Zenon
<1>8. CASE MainReturns \/ Crash \/ Kill \/ TakeRestart
  <2>1. Exit
    BY <1>8 DEF MainReturns, Crash, Kill, TakeRestart
  <2>2. phase' = "exited" /\ outbox' = <<>> /\ sent' = 0
    BY <2>1 DEF Exit
  <2> QED
    BY <2>2, Zenon
<1> QED
  BY <1>1, <1>2, <1>3, <1>4, <1>5, <1>6, <1>7, <1>8 DEF Next

LEMMA PayStep == IInv /\ [Next]_vars => PayInv'
<1> SUFFICES ASSUME IInv, [Next]_vars PROVE PayInv'
  OBVIOUS
<1>0. TypeOK /\ WorkInv /\ OrderInv /\ LinkInv /\ PayInv
  BY DEF IInv
<1> USE DEF processVars, inputVars, printVars, payVars
<1>1. CASE ReadConnection
  <2>1. /\ listener = <<>> /\ listener' = <<Len(jobs) + 1>> /\ AtMain' = AtMain
        /\ UNCHANGED <<receiptCh, outbox, sent, paid, drops>>
    BY <1>1 DEF ReadConnection, AtMain
  <2>2. Upstream' = Upstream \cup {Len(jobs) + 1}
    BY <2>1 DEF Upstream, ToSet
  <2>3. Numbers' = Numbers \cup {Len(jobs) + 1} /\ \A j \in Numbers : j < Len(jobs) + 1
    <3>1. PICK job \in Jobs : jobs' = Append(jobs, job)
      BY <1>1 DEF ReadConnection
    <3>2. Len(jobs') = Len(jobs) + 1 /\ Len(jobs) \in Nat
      BY <1>0, <3>1 DEF TypeOK
    <3> QED
      BY <3>2 DEF Numbers
  <2>4. ToSet(paid) \subseteq Numbers /\ ToSet(outbox) \subseteq Numbers
    BY <1>0, SequenceWidens DEF TypeOK
  <2>5. Unsent' = Unsent /\ Unsent \subseteq ToSet(outbox)
    <3>1. sent \in Nat /\ DOMAIN outbox = 1..Len(outbox)
      BY <1>0 DEF TypeOK
    <3> QED
      BY <2>1, <3>1 DEF Unsent, ToSet
  <2>6. Before(ToSet(paid') \cup ToSet(outbox'), Upstream')
    BY <1>0, <2>1, <2>2, <2>3, <2>4 DEF PayInv, Before
  <2>7. ASSUME NEW i \in Numbers'
        PROVE  Copies(paid', i) + (IF i \in Unsent' THEN 1 ELSE 0) <= 1 + drops'
    <3>1. CASE i \in Numbers
      BY <1>0, <2>1, <2>5, <3>1 DEF PayInv
    <3>2. CASE i \notin Numbers
      <4>1. Copies(paid, i) = 0
        BY <2>4, <3>2, CopiesNone
      <4>2. drops \in Nat
        BY <1>0, ProxyAssumption DEF TypeOK
      <4> QED
        BY <2>1, <2>4, <2>5, <3>2, <4>1, <4>2
    <3> QED
      BY <3>1, <3>2
  <2> QED
    BY <1>0, <2>1, <2>5, <2>6, <2>7 DEF PayInv
<1>2. CASE QueueReceipt
  <2>1. /\ receiptCh' = receiptCh \o listener /\ listener' = <<>> /\ AtMain' = AtMain
        /\ UNCHANGED <<jobs, outbox, sent, paid, drops>>
    BY <1>2 DEF QueueReceipt, AtMain
  <2>2. ToSet(receiptCh') = ToSet(receiptCh) \cup ToSet(listener) /\ ToSet(listener') = {}
    <3>1. ToSet(receiptCh \o listener) = ToSet(receiptCh) \cup ToSet(listener)
      BY <1>0, WayTypes, ConcatFacts
    <3>2. ToSet(<<>>) = {}
      BY DEF ToSet
    <3> QED
      BY <2>1, <3>1, <3>2
  <2>3. Upstream' = Upstream /\ Numbers' = Numbers
    BY <2>1, <2>2 DEF Upstream, Numbers
  <2> QED
    BY <1>0, <2>1, <2>3, PayFrame
<1>3. CASE TakePrintJob \/ TakePayment
  <2> DEFINE h == Head(receiptCh)
  <2>1. /\ receiptCh # <<>> /\ receiptCh' = Tail(receiptCh) /\ AtMain = {} /\ AtMain' \subseteq {h}
        /\ UNCHANGED <<jobs, listener, sent, paid, drops>>
    BY <1>3 DEF TakePrintJob, TakePayment, NextJob, AtMain, Idle, Doing, Publish
  <2>2. ToSet(receiptCh) = {h} \cup ToSet(receiptCh')
    BY <1>0, <2>1, WayTypes, TailFacts
  <2>3. Upstream' \subseteq Upstream /\ Numbers' = Numbers /\ h \in Upstream
    BY <2>1, <2>2 DEF Upstream, Numbers
  <2>4. UNCHANGED outbox \/ (AtMain' = {} /\ outbox' = Append(outbox, h))
    BY <1>3 DEF TakePrintJob, TakePayment, AtMain, Doing, Publish
  <2>5. h \in Numbers
    BY <1>0, <2>2, WayTypes
  <2>6. AtMain' = {} => Before({h}, Upstream')
    <3>1. Before({h}, ToSet(receiptCh'))
      BY <1>0, <2>1, WayTypes, IncreasingTail DEF OrderInv
    <3>2. Before({h}, ToSet(listener))
      BY <1>0, <2>2 DEF OrderInv, Before
    <3> QED
      BY <2>1, <3>1, <3>2 DEF Upstream, Before
  <2> HIDE DEF h
  <2>7. CASE UNCHANGED outbox
    BY <1>0, <2>1, <2>3, <2>7, PayFrame
  <2>8. CASE AtMain' = {} /\ outbox' = Append(outbox, h)
    BY <1>0, <2>1, <2>3, <2>5, <2>6, <2>8, PayPublish
  <2> QED
    BY <2>4, <2>7, <2>8
<1>4. CASE QueuePrint
  <2> DEFINE j == main.job
  <2>1. /\ main.state = "printing" /\ main'.state # "printing"
        /\ UNCHANGED <<jobs, receiptCh, listener, sent, paid, drops>>
        /\ UNCHANGED outbox \/ outbox' = Append(outbox, j)
    BY <1>4 DEF QueuePrint, Publish, Idle, Doing
  <2>2. AtMain = {j} /\ AtMain' = {}
    BY <2>1 DEF AtMain
  <2>3. Upstream' \subseteq Upstream /\ Numbers' = Numbers /\ j \in Upstream /\ j \in Numbers
    BY <1>0, <2>1, <2>2, WayTypes DEF Upstream, Numbers
  <2>4. Before({j}, Upstream')
    BY <1>0, <2>1, <2>2 DEF OrderInv, Upstream, Before
  <2> HIDE DEF j
  <2>5. CASE UNCHANGED outbox
    BY <1>0, <2>1, <2>3, <2>5, PayFrame
  <2>6. CASE outbox' = Append(outbox, j)
    BY <1>0, <2>1, <2>3, <2>4, <2>6, PayPublish
  <2> QED
    BY <2>1, <2>5, <2>6
<1>5. CASE \/ PublishEnds \/ TakePrint \/ relayToPrinter \/ Signal \/ PrinterLeaves \/ Restart
           \/ UNCHANGED vars
  <2>1. UNCHANGED <<jobs, receiptCh, listener, outbox, sent, paid, drops>> /\ AtMain' \subseteq AtMain
    BY <1>5 DEF PublishEnds, TakePrint, relayToPrinter, Signal, PrinterLeaves, Restart, vars,
                AtMain, Idle
  <2>2. Upstream' \subseteq Upstream /\ Numbers' = Numbers
    BY <2>1 DEF Upstream, Numbers
  <2> QED
    BY <1>0, <2>1, <2>2, PayFrame
<1>6. CASE Deliver \/ Acknowledge \/ Disconnect \/ Reconnect
  <2>1. Upstream' = Upstream /\ Numbers' = Numbers
    BY <1>6 DEF Deliver, Acknowledge, Disconnect, Reconnect, Upstream, Numbers, AtMain
  <2> QED
    BY <1>0, <1>6, <2>1, PayDeliver, PayAcknowledge, PayDisconnect, PayReconnect
<1>7. CASE MainReturns \/ Crash \/ Kill \/ TakeRestart
  BY <1>0, <1>7, PayExit DEF MainReturns, Crash, Kill, TakeRestart
<1> QED
  BY <1>1, <1>2, <1>3, <1>4, <1>5, <1>6, <1>7 DEF Next

-----------------------------------------------------------------------------
(* The theorems. *)

LEMMA Invariance == Spec => []IInv
<1>1. IInv /\ [Next]_vars => IInv'
  BY TypeStep, WayStep, LinkStep, PayStep DEF IInv
<1> QED
  BY InitInv, <1>1, PTL DEF Spec

\* Every variable keeps its type and every channel its capacity.
THEOREM TypeCorrect == Spec => []TypeOK
<1>1. IInv => TypeOK
  BY DEF IInv
<1> QED
  BY <1>1, Invariance, PTL

\* The way of the jobs as one sequence.
LEMMA PipelineFacts ==
  ASSUME TypeOK, WorkInv, OrderInv
  PROVE  /\ Pipeline \in Seq(Nat) /\ Increasing(Pipeline)
         /\ ToSet(Pipeline) = AtPrinter \cup ToSet(printerCh) \cup Upstream
<1> DEFINE p == Holding(printer, "writing")
           m == Holding(main, "printing")
<1>1. ToSet(<<>>) = {} /\ Increasing(<<>>) /\ <<>> \in Seq(Nat)
  BY DEF ToSet, Increasing
<1>2. ASSUME NEW x \in Nat PROVE ToSet(<<x>>) = {x} /\ Increasing(<<x>>) /\ <<x>> \in Seq(Nat)
  BY DEF ToSet, Increasing
<1>3. p \in Seq(Nat) /\ Increasing(p) /\ ToSet(p) = AtPrinter
  <2>1. CASE printer.state = "writing"
    <3>1. p = <<printer.job>> /\ AtPrinter = {printer.job} /\ printer.job \in Nat
      BY <2>1, WayTypes DEF Holding, AtPrinter
    <3> QED
      BY <1>2, <3>1
  <2>2. CASE printer.state # "writing"
    BY <1>1, <2>2 DEF Holding, AtPrinter
  <2> QED
    BY <2>1, <2>2
<1>4. m \in Seq(Nat) /\ Increasing(m) /\ ToSet(m) = AtMain
  <2>1. CASE main.state = "printing"
    <3>1. m = <<main.job>> /\ AtMain = {main.job} /\ main.job \in Nat
      BY <2>1, WayTypes DEF Holding, AtMain
    <3> QED
      BY <1>2, <3>1
  <2>2. CASE main.state # "printing"
    BY <1>1, <2>2 DEF Holding, AtMain
  <2> QED
    BY <2>1, <2>2
<1> DEFINE a == p \o printerCh
           b == a \o m
           c == b \o receiptCh
           d == c \o listener
<1>5. d = Pipeline
  BY DEF Pipeline
<1> HIDE DEF p, m, a, b, c, d
<1>6. /\ printerCh \in Seq(Nat) /\ Increasing(printerCh)
      /\ receiptCh \in Seq(Nat) /\ Increasing(receiptCh)
      /\ listener \in Seq(Nat) /\ Increasing(listener)
  BY WayTypes DEF OrderInv
<1>7. a \in Seq(Nat) /\ Increasing(a) /\ ToSet(a) = AtPrinter \cup ToSet(printerCh)
  <2>1. Before(ToSet(p), ToSet(printerCh))
    BY <1>3 DEF OrderInv, Before
  <2> QED
    BY <1>3, <1>6, <2>1, JoinFacts DEF a
<1>8. b \in Seq(Nat) /\ Increasing(b) /\ ToSet(b) = AtPrinter \cup ToSet(printerCh) \cup AtMain
  <2>1. Before(ToSet(a), ToSet(m))
    BY <1>4, <1>7 DEF OrderInv, Before, Upstream
  <2> QED
    BY <1>4, <1>7, <2>1, JoinFacts DEF b
<1>9. /\ c \in Seq(Nat) /\ Increasing(c)
      /\ ToSet(c) = AtPrinter \cup ToSet(printerCh) \cup AtMain \cup ToSet(receiptCh)
  <2>1. Before(ToSet(b), ToSet(receiptCh))
    BY <1>8 DEF OrderInv, Before, Upstream
  <2> QED
    BY <1>6, <1>8, <2>1, JoinFacts DEF c
<1>10. d \in Seq(Nat) /\ Increasing(d) /\ ToSet(d) = ToSet(c) \cup ToSet(listener)
  <2>1. Before(ToSet(c), ToSet(listener))
    BY <1>9 DEF OrderInv, Before, Upstream
  <2> QED
    BY <1>6, <1>9, <2>1, JoinFacts DEF d
<1> QED
  BY <1>5, <1>9, <1>10 DEF Upstream

\* Jobs never overtake each other from the connection to the paper, and none is
\* printed twice: what runSocketListener, main and runPrinter pass on keeps its
\* order through both channels, also when the process ends and starts again.
THEOREM PrintsInOrderAlways == Spec => []PrintsInOrder
<1>1. IInv => PrintsInOrder
  <2> SUFFICES ASSUME IInv PROVE PrintsInOrder
    OBVIOUS
  <2>1. TypeOK /\ WorkInv /\ OrderInv
    BY DEF IInv
  <2>2. /\ Pipeline \in Seq(Nat) /\ Increasing(Pipeline)
        /\ ToSet(Pipeline) = AtPrinter \cup ToSet(printerCh) \cup Upstream
    BY <2>1, PipelineFacts
  <2>3. printed \in Seq(Nat) /\ Increasing(printed) /\ Before(ToSet(printed), ToSet(Pipeline))
    BY <2>1, <2>2, WayTypes DEF OrderInv
  <2> QED
    BY <2>2, <2>3, IncreasingConcat DEF PrintsInOrder
<1> QED
  BY <1>1, Invariance, PTL

\* While the process lives, the jobs that were accepted and not dealt with are
\* exactly those that some channel or goroutine still holds.
THEOREM NoJobForgottenAlways == Spec => []NoJobForgotten
<1>1. IInv => NoJobForgotten
  BY PipelineFacts DEF IInv, FateInv, NoJobForgotten
<1> QED
  BY <1>1, Invariance, PTL

\* Payments reach the terminal in the order of their jobs over an unbroken
\* connection, none of them more often than the connection broke and once more,
\* and the payment of a receipt only when the receipt is past the main loop.
THEOREM PaymentsInOrderAlways == Spec => []PaymentsInOrder
<1>1. IInv => PaymentsInOrder
  <2> SUFFICES ASSUME IInv PROVE PaymentsInOrder
    OBVIOUS
  <2>1. TypeOK /\ WorkInv /\ OrderInv /\ FateInv /\ PayInv
    BY DEF IInv
  <2>2. drops = 0 => Increasing(paid)
    BY <2>1 DEF PayInv
  <2>3. ASSUME NEW j \in Numbers
        PROVE  Cardinality({i \in DOMAIN paid : paid[i] = j}) <= 1 + drops
    <3>1. drops \in Nat /\ paid \in Seq(Numbers)
      BY <2>1, ProxyAssumption DEF TypeOK
    <3>2. Copies(paid, j) \in Nat
      BY <3>1, CopiesType
    <3>3. Copies(paid, j) + (IF j \in Unsent THEN 1 ELSE 0) <= 1 + drops
      BY <2>1 DEF PayInv
    <3>4. Copies(paid, j) <= 1 + drops
      BY <3>1, <3>2, <3>3
    <3> QED
      BY <3>4 DEF Copies
  <2>4. ASSUME NEW j \in ToSet(paid), fate[j] = "accepted"
        PROVE  j \in ToSet(Holding(printer, "writing") \o printerCh)
    <3>1. j \in Numbers /\ j \in Nat /\ paid \in Seq(Numbers)
      BY <2>1, SequenceWidens DEF TypeOK, Numbers
    <3>2. j \notin Upstream
      BY <2>1, <3>1 DEF PayInv, Before
    <3>3. j \in AtPrinter \cup ToSet(printerCh)
      BY <2>1, <2>4, <3>1, <3>2 DEF FateInv
    <3>4. /\ Holding(printer, "writing") \in Seq(Nat)
          /\ ToSet(Holding(printer, "writing")) = AtPrinter
      <4>1. CASE printer.state = "writing"
        <5>1. AtPrinter = {printer.job} /\ printer.job \in Nat
          BY <2>1, <4>1, WayTypes DEF AtPrinter
        <5> QED
          BY <4>1, <5>1 DEF Holding, ToSet
      <4>2. CASE printer.state # "writing"
        BY <4>2 DEF Holding, AtPrinter, ToSet
      <4> QED
        BY <4>1, <4>2
    <3>5. printerCh \in Seq(Nat)
      BY <2>1, WayTypes
    <3> QED
      BY <3>3, <3>4, <3>5, ConcatFacts
  <2> QED
    BY <2>2, <2>3, <2>4 DEF PaymentsInOrder
<1> QED
  BY <1>1, Invariance, PTL

-----------------------------------------------------------------------------
(* QrProxy implements PrintQueue.  What that needs beyond IInv is what kind   *)
(* of job is where: only what is to be printed goes to the printer, and no    *)
(* payment is left in the store of a job that was lost.                       *)

AskedFor(j) == Pays(j) /\ (fate[j] = "handled" \/ (Prints(j) /\ fate[j] = "accepted"))

KindInv ==
  /\ \A j \in AtMain \cup AtPrinter \cup ToSet(printerCh) : Prints(j)
  /\ \A j \in ToSet(outbox) : AskedFor(j)

\* Jobs stay what they are when others come.
LEMMA KindFrame ==
  ASSUME TypeOK, WorkInv, KindInv, UNCHANGED <<jobs, fate>>,
         AtMain' \cup AtPrinter' \cup ToSet(printerCh') \subseteq
           AtMain \cup AtPrinter \cup ToSet(printerCh),
         ToSet(outbox') \subseteq ToSet(outbox)
  PROVE  KindInv'
BY DEF KindInv, AskedFor, Prints, Pays

LEMMA KindStep == IInv /\ KindInv /\ [Next]_vars => KindInv'
<1> SUFFICES ASSUME IInv, KindInv, [Next]_vars PROVE KindInv'
  OBVIOUS
<1>0. TypeOK /\ WorkInv /\ FateInv
  BY DEF IInv
<1>a. /\ printerCh \in Seq(Numbers) /\ receiptCh \in Seq(Numbers) /\ outbox \in Seq(Numbers)
      /\ ToSet(outbox) \subseteq Numbers /\ ToSet(printerCh) \subseteq Numbers
      /\ AtMain \subseteq Numbers /\ AtPrinter \subseteq Numbers
  <2>1. printerCh \in Seq(Numbers) /\ receiptCh \in Seq(Numbers) /\ outbox \in Seq(Numbers)
    BY <1>0 DEF TypeOK
  <2> QED
    BY <1>0, <2>1, WayTypes, SequenceWidens
<1> USE DEF Doing, Idle, processVars, inputVars, printVars, payVars
<1>1. CASE ReadConnection
  <2>1. /\ fate' = Append(fate, "accepted") /\ \E job \in Jobs : jobs' = Append(jobs, job)
        /\ UNCHANGED <<main, printerCh, printer, outbox>>
    BY <1>1 DEF ReadConnection
  <2>2. \A j \in Numbers : jobs'[j] = jobs[j] /\ fate'[j] = fate[j]
    <3>1. /\ jobs \in Seq(Jobs) /\ Len(jobs) \in Nat
          /\ fate \in [1..Len(jobs) -> {"accepted", "handled", "lost"}]
      BY <1>0 DEF TypeOK, Numbers
    <3>2. fate \in Seq({"accepted", "handled", "lost"}) /\ Len(fate) = Len(jobs)
      BY <3>1, FunctionIsSequence
    <3> QED
      BY <2>1, <3>1, <3>2 DEF Numbers
  <2>3. AtMain' = AtMain /\ AtPrinter' = AtPrinter
    BY <2>1 DEF AtMain, AtPrinter
  <2>4. \A j \in AtMain' \cup AtPrinter' \cup ToSet(printerCh') : Prints(j)'
    BY <1>a, <2>1, <2>2, <2>3 DEF KindInv, Prints
  <2>5. \A j \in ToSet(outbox') : AskedFor(j)'
    BY <1>a, <2>1, <2>2 DEF KindInv, AskedFor, Pays, Prints
  <2> QED
    BY <2>4, <2>5 DEF KindInv
<1>2. CASE TakePrintJob
  <2>1. /\ main' = [state |-> "printing", job |-> Head(receiptCh)] /\ Prints(Head(receiptCh))
        /\ UNCHANGED <<jobs, fate, printerCh, printer, outbox>>
    BY <1>2 DEF TakePrintJob
  <2>2. AtMain' = {Head(receiptCh)} /\ AtPrinter' = AtPrinter
    BY <2>1 DEF AtMain, AtPrinter
  <2> QED
    BY <2>1, <2>2 DEF KindInv, AskedFor, Prints, Pays
<1>3. CASE TakePayment
  <2> DEFINE j == Head(receiptCh)
  <2>1. /\ main = Idle /\ receiptCh # <<>> /\ fate' = [fate EXCEPT ![j] = "handled"]
        /\ \/ main' = main /\ outbox' = outbox
           \/ Pays(j) /\ main' = Doing("publishing", j) /\ outbox' = Append(outbox, j)
        /\ UNCHANGED <<jobs, printerCh, printer>>
    BY <1>3 DEF TakePayment, NextJob, Publish
  <2>2. j \in Numbers /\ AtMain' = {} /\ AtPrinter' = AtPrinter
    <3>1. j \in Numbers
      BY <1>a, <2>1, TailFacts
    <3>2. main'.state # "printing" /\ printer' = printer
      BY <2>1
    <3> QED
      BY <3>1, <3>2 DEF AtMain, AtPrinter
  <2>3. ToSet(outbox') = ToSet(outbox) \/ (Pays(j) /\ ToSet(outbox') = ToSet(outbox) \cup {j})
    <3>1. ToSet(Append(outbox, j)) = ToSet(outbox) \cup {j}
      BY <1>a, <2>2, AppendFacts
    <3> QED
      BY <2>1, <3>1
  <2>4. fate'[j] = "handled" /\ \A i \in Numbers \ {j} : fate'[i] = fate[i]
    BY <1>0, <2>1, <2>2 DEF TypeOK
  <2>5. \A i \in ToSet(outbox') : AskedFor(i)'
    BY <1>a, <2>1, <2>2, <2>3, <2>4 DEF KindInv, AskedFor, Pays, Prints
  <2>6. \A i \in AtMain' \cup AtPrinter' \cup ToSet(printerCh') : Prints(i)'
    BY <2>1, <2>2 DEF KindInv, Prints
  <2> QED
    BY <2>5, <2>6 DEF KindInv
<1>4. CASE QueuePrint
  <2> DEFINE j == main.job
  <2>1. /\ main.state = "printing" /\ printerCh' = Append(printerCh, j)
        /\ \/ main' = Idle /\ outbox' = outbox
           \/ Pays(j) /\ main' = Doing("publishing", j) /\ outbox' = Append(outbox, j)
        /\ UNCHANGED <<jobs, fate, printer>>
    BY <1>4 DEF QueuePrint, Publish
  <2>2. /\ j \in Numbers /\ j \in AtMain /\ Prints(j) /\ AtMain' = {} /\ AtPrinter' = AtPrinter
    <3>1. j \in Numbers /\ j \in AtMain /\ Prints(j)
      BY <1>0, <2>1 DEF KindInv, AtMain, WorkInv
    <3>2. main'.state # "printing" /\ printer' = printer
      BY <2>1
    <3> QED
      BY <3>1, <3>2 DEF AtMain, AtPrinter
  <2>3. /\ ToSet(printerCh') = ToSet(printerCh) \cup {j}
        /\ ToSet(outbox') = ToSet(outbox) \/ (Pays(j) /\ ToSet(outbox') = ToSet(outbox) \cup {j})
    <3>1. /\ ToSet(Append(outbox, j)) = ToSet(outbox) \cup {j}
          /\ ToSet(Append(printerCh, j)) = ToSet(printerCh) \cup {j}
      BY <1>a, <2>2, AppendFacts
    <3> QED
      BY <2>1, <3>1
  <2>4. fate[j] = "accepted"
    BY <1>0, <2>2 DEF FateInv, Upstream
  <2>5. \A i \in ToSet(outbox') : AskedFor(i)'
    BY <2>1, <2>2, <2>3, <2>4 DEF KindInv, AskedFor, Pays, Prints
  <2>6. \A i \in AtMain' \cup AtPrinter' \cup ToSet(printerCh') : Prints(i)'
    BY <2>1, <2>2, <2>3 DEF KindInv, Prints
  <2> QED
    BY <2>5, <2>6 DEF KindInv
<1>5. CASE TakePrint
  <2>1. /\ printerCh # <<>> /\ printer' = [state |-> "writing", job |-> Head(printerCh)]
        /\ printerCh' = Tail(printerCh) /\ UNCHANGED <<jobs, fate, main, outbox>>
    BY <1>5 DEF TakePrint
  <2>2. AtPrinter' = {Head(printerCh)} /\ AtMain' = AtMain
    BY <2>1 DEF AtPrinter, AtMain
  <2>3. ToSet(printerCh) = {Head(printerCh)} \cup ToSet(printerCh')
    BY <1>a, <2>1, TailFacts
  <2> QED
    BY <1>0, <2>1, <2>2, <2>3, KindFrame
<1>6. CASE relayToPrinter
  <2> DEFINE j == printer.job
  <2>1. /\ printer.state = "writing" /\ fate' = [fate EXCEPT ![j] = "handled"] /\ printer' = Idle
        /\ UNCHANGED <<jobs, main, printerCh, outbox>>
    BY <1>6 DEF relayToPrinter
  <2>2. j \in Numbers /\ AtPrinter' = {} /\ AtMain' = AtMain
    BY <1>0, <2>1 DEF WorkInv, AtPrinter, AtMain
  <2>3. fate'[j] = "handled" /\ \A i \in Numbers \ {j} : fate'[i] = fate[i]
    BY <1>0, <2>1, <2>2 DEF TypeOK
  <2>4. \A i \in ToSet(outbox') : AskedFor(i)'
    BY <1>a, <2>1, <2>3 DEF KindInv, AskedFor, Pays, Prints
  <2>5. \A i \in AtMain' \cup AtPrinter' \cup ToSet(printerCh') : Prints(i)'
    BY <2>1, <2>2 DEF KindInv, Prints
  <2> QED
    BY <2>4, <2>5 DEF KindInv
<1>7. CASE Acknowledge
  <2>1. outbox # <<>> /\ outbox' = Tail(outbox) /\ UNCHANGED <<jobs, fate, main, printerCh, printer>>
    BY <1>0, <1>7 DEF Acknowledge, TypeOK
  <2>2. ToSet(outbox') \subseteq ToSet(outbox)
    BY <1>a, <2>1, TailFacts
  <2> QED
    BY <1>0, <2>1, <2>2, KindFrame DEF AtMain, AtPrinter
<1>8. CASE Reconnect
  <2>1. ToSet(outbox') = ToSet(outbox) /\ UNCHANGED <<jobs, fate, main, printerCh, printer>>
    BY <1>8 DEF Reconnect
  <2> QED
    BY <1>0, <2>1, KindFrame DEF AtMain, AtPrinter
<1>9. CASE TakeRestart \/ MainReturns \/ Crash \/ Kill
  <2>1. printerCh' = <<>> /\ outbox' = <<>> /\ main' = Idle /\ printer' = Idle
    BY <1>9 DEF TakeRestart, MainReturns, Crash, Kill, Exit
  <2>2. ToSet(<<>>) = {}
    BY DEF ToSet
  <2>3. ToSet(printerCh') = {} /\ ToSet(outbox') = {} /\ AtMain' = {} /\ AtPrinter' = {}
    BY <2>1, <2>2 DEF AtMain, AtPrinter
  <2> QED
    BY <2>3 DEF KindInv
<1>10. CASE QueueReceipt \/ Deliver \/ Disconnect \/ Signal \/ Restart \/ UNCHANGED vars
  <2>1. UNCHANGED <<jobs, fate, main, printerCh, printer, outbox>>
    BY <1>10 DEF QueueReceipt, Deliver, Disconnect, Signal, Restart, vars
  <2> QED
    BY <1>0, <2>1, KindFrame DEF AtMain, AtPrinter
<1>11. CASE PublishEnds \/ PrinterLeaves
  <2>1. /\ UNCHANGED <<jobs, fate, printerCh, outbox>>
        /\ AtMain' \subseteq AtMain /\ AtPrinter' \subseteq AtPrinter
    BY <1>11 DEF PublishEnds, PrinterLeaves, AtMain, AtPrinter
  <2> QED
    BY <1>0, <2>1, KindFrame
<1> QED
  BY <1>1, <1>2, <1>3, <1>4, <1>5, <1>6, <1>7, <1>8, <1>9, <1>10, <1>11 DEF Next

LEMMA KindInvariance == Spec => []KindInv
<1>1. Init => KindInv
  BY DEF Init, Idle, KindInv, AtMain, AtPrinter, ToSet
<1> QED
  BY <1>1, KindStep, Invariance, PTL DEF Spec

-----------------------------------------------------------------------------
(* Every step is one of PrintQueue, or changes nothing that it can see. *)

LEMMA KindOfJob ==
  ASSUME TypeOK, NEW j \in Numbers
  PROVE  /\ Prints(j) <=> jobs[j] \in {job \in Jobs : job.cmd \in {"RECIEPT", "other"}}
         /\ Pays(j) <=> jobs[j] \in {job \in Jobs : job.amount}
         /\ j \in DOMAIN jobs /\ j \in DOMAIN fate /\ jobs[j] \in Jobs
<1>1. jobs[j] \in Jobs /\ j \in DOMAIN jobs /\ j \in DOMAIN fate
  BY DEF TypeOK, Numbers
<1> QED
  BY <1>1 DEF Prints, Pays

LEMMA AcceptRefines == ASSUME ReadConnection PROVE Queue!Accept
  BY DEF ReadConnection, Queue!Accept, printVars, payVars

LEMMA PrintRefines ==
  ASSUME TypeOK, WorkInv, OrderInv, FateInv, KindInv, relayToPrinter
  PROVE  printer.job \in DOMAIN jobs /\ Queue!PutOnPaper(printer.job)
<1> DEFINE j == printer.job
<1>1. /\ printer.state = "writing" /\ printed' \in {printed, Append(printed, j)}
      /\ fate' = [fate EXCEPT ![j] = "handled"] /\ UNCHANGED <<jobs, paid, drops>>
  BY DEF relayToPrinter, inputVars, payVars
<1>2. j \in Numbers /\ AtPrinter = {j}
  BY <1>1 DEF WorkInv, AtPrinter
<1> HIDE DEF j
<1>3. fate[j] = "accepted" /\ jobs[j] \in {job \in Jobs : job.cmd \in {"RECIEPT", "other"}}
  BY <1>2, KindOfJob DEF FateInv, KindInv
<1>4. ASSUME NEW k \in DOMAIN jobs, fate[k] = "accepted" PROVE j <= k
  <2>1. k \in Numbers /\ j \in Nat /\ k \in Nat
    BY <1>2 DEF TypeOK, Numbers
  <2>2. k = j \/ k \in ToSet(printerCh) \cup Upstream
    BY <1>2, <1>4, <2>1 DEF FateInv
  <2>3. k \in ToSet(printerCh) \cup Upstream => j < k
    BY <1>2 DEF OrderInv, Before
  <2> QED
    BY <2>1, <2>2, <2>3
<1>5. j \in DOMAIN jobs
  BY <1>2, KindOfJob
<1> QED
  BY <1>1, <1>3, <1>4, <1>5 DEF Queue!PutOnPaper, Queue!Handle, Queue!Waits, j

LEMMA DispatchRefines ==
  ASSUME TypeOK, FateInv, TakePayment
  PROVE  \E j \in DOMAIN jobs : Queue!Dispatch(j)
<1> DEFINE j == Head(receiptCh)
<1>1. /\ receiptCh # <<>> /\ jobs[j].cmd = "QR_PAY"
      /\ fate' = [fate EXCEPT ![j] = "handled"] /\ UNCHANGED <<jobs, printed, paid, drops>>
  BY DEF TakePayment, NextJob, inputVars, printVars
<1>2. j \in Numbers /\ j \in ToSet(receiptCh)
  BY <1>1, TailFacts DEF TypeOK
<1> HIDE DEF j
<1>3. fate[j] = "accepted"
  BY <1>2 DEF FateInv, Upstream
<1>4. jobs[j] \notin {job \in Jobs : job.cmd \in {"RECIEPT", "other"}} /\ j \in DOMAIN jobs
  BY <1>1, <1>2, KindOfJob DEF Prints
<1>5. Queue!Dispatch(j)
  BY <1>1, <1>3, <1>4 DEF Queue!Dispatch, Queue!Handle, Queue!Waits
<1> QED
  BY <1>4, <1>5

LEMMA AskRefines ==
  ASSUME TypeOK, KindInv, Deliver, PayInv'
  PROVE  \E j \in DOMAIN jobs : Queue!Ask(j)
<1> DEFINE j == outbox[sent + 1]
<1>1. /\ paid' = Append(paid, j) /\ sent \in 0..Len(outbox) /\ sent < Len(outbox)
      /\ UNCHANGED <<jobs, fate, printed, drops>>
  BY DEF Deliver, TypeOK, inputVars, printVars
<1>2. j \in Numbers /\ j \in ToSet(outbox) /\ paid \in Seq(Numbers) /\ drops \in Nat
  <2>1. outbox \in Seq(Numbers) /\ sent + 1 \in DOMAIN outbox
    BY <1>1 DEF TypeOK
  <2> QED
    BY <2>1, ProxyAssumption DEF TypeOK, ToSet
<1> HIDE DEF j
<1>3. AskedFor(j)
  BY <1>2 DEF KindInv
<1>4. /\ jobs[j] \in {job \in Jobs : job.amount} /\ j \in DOMAIN jobs
      /\ \/ fate[j] = "handled"
         \/ jobs[j] \in {job \in Jobs : job.cmd \in {"RECIEPT", "other"}} /\ fate[j] = "accepted"
  BY <1>2, <1>3, KindOfJob DEF AskedFor
<1>5. ASSUME drops = 0, NEW i \in DOMAIN paid PROVE paid[i] < j
  <2>1. Increasing(paid')
    BY <1>1, <1>5 DEF PayInv
  <2>2. /\ paid'[i] = paid[i] /\ paid'[Len(paid) + 1] = j /\ i < Len(paid) + 1
        /\ i \in DOMAIN paid' /\ Len(paid) + 1 \in DOMAIN paid'
    BY <1>1, <1>2
  <2> QED
    BY <2>1, <2>2 DEF Increasing
<1>6. Cardinality({i \in DOMAIN paid : paid[i] = j}) <= drops
  <2>1. Copies(paid', j) = Copies(paid, j) + 1 /\ Copies(paid, j) \in Nat
    BY <1>1, <1>2, CopiesAppend, CopiesType
  <2>2. Copies(paid', j) + (IF j \in Unsent' THEN 1 ELSE 0) <= 1 + drops
    BY <1>1, <1>2 DEF PayInv, Numbers
  <2>3. Copies(paid, j) <= drops
    BY <1>2, <2>1, <2>2
  <2> QED
    BY <2>3 DEF Copies
<1>7. \A S : Queue!Cardinality(S) = Cardinality(S)
  BY DEF Queue!Cardinality, Cardinality
<1>8. Queue!Ask(j)
  BY <1>1, <1>4, <1>5, <1>6, <1>7 DEF Queue!Ask, Queue!Waits
<1> QED
  BY <1>4, <1>8

LEMMA QueueNext ==
  ASSUME IInv, KindInv, IInv', [Next]_vars
  PROVE  [Queue!Next]_Queue!vars
<1> USE DEF IInv
<1>1. CASE ReadConnection
  BY <1>1, AcceptRefines DEF Queue!Next
<1>2. CASE relayToPrinter
  BY <1>2, PrintRefines DEF Queue!Next
<1>3. CASE TakePayment
  BY <1>3, DispatchRefines DEF Queue!Next
<1>4. CASE Deliver
  BY <1>4, AskRefines DEF Queue!Next
<1>5. CASE Disconnect
  <2>1. Queue!Break
    BY <1>5 DEF Disconnect, Queue!Break, inputVars, printVars
  <2> QED
    BY <2>1 DEF Queue!Next
<1>6. CASE TakeRestart \/ MainReturns \/ Crash \/ Kill
  <2>1. Queue!LoseAll
    BY <1>6 DEF TakeRestart, MainReturns, Crash, Kill, Exit, Queue!LoseAll, Queue!Waits
  <2> QED
    BY <2>1 DEF Queue!Next
<1>7. CASE QueueReceipt \/ TakePrintJob \/ QueuePrint \/ PublishEnds \/ TakePrint
  BY <1>7 DEF QueueReceipt, TakePrintJob, QueuePrint, PublishEnds, TakePrint, Queue!vars,
     inputVars, printVars, payVars
<1>8. CASE Acknowledge \/ Reconnect \/ Signal \/ PrinterLeaves \/ Restart \/ UNCHANGED vars
  BY <1>8 DEF Acknowledge, Reconnect, Signal, PrinterLeaves, Restart, Queue!vars, vars,
     inputVars, printVars, payVars
<1> QED
  BY <1>1, <1>2, <1>3, <1>4, <1>5, <1>6, <1>7, <1>8 DEF Next

\* For channels of any capacity, and any number of jobs, broken connections and ends
\* of the process: between register, paper and terminal qrproxy is the one queue of
\* PrintQueue.
THEOREM Refinement == Spec => ImplementsPrintQueue
<1>1. Init => Queue!Init
  BY DEF Init, Queue!Init
<1>2. IInv /\ KindInv /\ IInv' /\ [Next]_vars => [Queue!Next]_Queue!vars
  BY QueueNext
<1> QED
  BY <1>1, <1>2, Invariance, KindInvariance, PTL DEF Spec, ImplementsPrintQueue, Queue!Spec
=============================================================================

------------------------ MODULE ProductLookupProofs ------------------------
(***************************************************************************)
(* Proofs about ProductLookup, for any number of lookups, stations,        *)
(* workers, catalogs, broken connections and ends of the process.          *)
(*                                                                         *)
(* A request is in flight, in the channel or with one worker, as its fate  *)
(* says (PlaceInv, JobInv).  What a worker has to say was true of a        *)
(* catalog that is not older than anything it said before (FreshInv), and  *)
(* the answers a station has of a request, with the one that may still     *)
(* come, are counted against the broken connections (CountInv).            *)
(***************************************************************************)
EXTENDS ProductLookup, FiniteSetTheorems, TLAPS

\* A worker that holds an answer, sent or not.
Answering(w) == job[w].state \in {"sending", "delivered"}

JobInv ==
  \A w \in Workers :
    /\ job[w].lookup # NoLookup <=> job[w].state \in {"taken", "sending", "delivered"}
    /\ job[w].state = "taken" => fate[job[w].lookup] = "accepted"
    /\ job[w].state = "sending" => fate[job[w].lookup] \in {"accepted", "answered"}
    /\ job[w].state = "delivered" => fate[job[w].lookup] = "answered"
    /\ Answering(w) => /\ job[w].answer \in AnswerRecords
                       /\ job[w].answer.lookup = job[w].lookup /\ job[w].answer.by = w

PlaceInv ==
  /\ IsInjective(inflight) /\ IsInjective(queue)
  /\ \A l \in Lookups :
       /\ l \in ToSet(inflight) => fate[l] = "sent"
       /\ l \in ToSet(queue) => Holders(l) = {} /\ fate[l] = "accepted"
       /\ fate[l] = "accepted" => l \in ToSet(queue) \/ Holders(l) # {}
       /\ \A v, w \in Holders(l) : v = w

InTime(a) == a.catalog \in 1..Current /\ since[a.lookup] <= a.catalog

Valid(a) == a.valid = (~a.failed /\ BarcodeOf[a.lookup] \in catalogs[a.catalog])

\* The answers that workers hold.
Held == {job[w].answer : w \in {v \in Workers : Answering(v)}}

\* What a worker has to say is not older than what it said before.
FreshInv ==
  /\ \A l \in Lookups : since[l] <= Current
  /\ \A s \in Stations : \A a \in ToSet(answers[s]) : InTime(a) /\ Valid(a) /\ fate[a.lookup] = "answered"
  /\ \A a \in Held : InTime(a) /\ Valid(a)
  /\ \A w \in Workers, s \in Stations : \A a \in ToSet(answers[s]) :
       Answering(w) /\ a.by = w => a.catalog <= job[w].answer.catalog
  /\ \A s \in Stations : \A i, j \in DOMAIN answers[s] :
       i < j /\ answers[s][i].by = answers[s][j].by =>
         answers[s][i].catalog <= answers[s][j].catalog

\* An answer may still come.
Due(l) ==
  \/ fate[l] \in {"unasked", "sent", "accepted"}
  \/ \E w \in Workers : job[w].lookup = l /\ job[w].state = "sending"

Count(q, l) == Cardinality({i \in DOMAIN q : q[i].lookup = l})

CountInv ==
  \A s \in Stations, l \in Lookups :
    Count(answers[s], l) + (IF Due(l) THEN 1 ELSE 0) <= 1 + drops

IInv == TypeOK /\ JobInv /\ PlaceInv /\ FreshInv /\ CountInv

-----------------------------------------------------------------------------
(* Sequences. *)

LEMMA AppendFacts ==
  ASSUME NEW S, NEW q \in Seq(S), NEW e \in S
  PROVE  /\ Append(q, e) \in Seq(S) /\ Len(Append(q, e)) = Len(q) + 1
         /\ DOMAIN Append(q, e) = DOMAIN q \cup {Len(q) + 1}
         /\ DOMAIN q = 1..Len(q) /\ Len(q) \in Nat
         /\ ToSet(Append(q, e)) = ToSet(q) \cup {e}
         /\ Append(q, e)[Len(q) + 1] = e
         /\ \A i \in DOMAIN q : Append(q, e)[i] = q[i]
<1>1. /\ Append(q, e) \in Seq(S) /\ DOMAIN Append(q, e) = DOMAIN q \cup {Len(q) + 1}
      /\ DOMAIN q = 1..Len(q) /\ Len(q) \in Nat
      /\ \A i \in DOMAIN q : Append(q, e)[i] = q[i]
      /\ Append(q, e)[Len(q) + 1] = e
      /\ Len(Append(q, e)) = Len(q) + 1
  OBVIOUS
<1> QED
  BY <1>1 DEF ToSet

LEMMA InjectiveAppend ==
  ASSUME NEW S, NEW q \in Seq(S), NEW e \in S, IsInjective(q), e \notin ToSet(q)
  PROVE  IsInjective(Append(q, e))
<1>1. \A i \in DOMAIN q : q[i] # e
  BY DEF ToSet
<1> QED
  BY <1>1, AppendFacts DEF IsInjective

LEMMA TailFacts ==
  ASSUME NEW S, NEW q \in Seq(S), q # <<>>
  PROVE  /\ Head(q) \in S /\ Tail(q) \in Seq(S) /\ Len(Tail(q)) = Len(q) - 1
         /\ Len(q) \in Nat \ {0}
         /\ ToSet(q) = {Head(q)} \cup ToSet(Tail(q))
         /\ IsInjective(q) => IsInjective(Tail(q)) /\ Head(q) \notin ToSet(Tail(q))
<1>1. /\ Head(q) \in S /\ Tail(q) \in Seq(S) /\ Len(Tail(q)) = Len(q) - 1
      /\ Head(q) = q[1] /\ Len(q) \in Nat \ {0} /\ DOMAIN q = 1..Len(q)
      /\ \A i \in 1..Len(q) - 1 : Tail(q)[i] = q[i + 1]
      /\ DOMAIN Tail(q) = 1..Len(q) - 1
  OBVIOUS
<1>2. ASSUME NEW x \in ToSet(q) PROVE x \in {Head(q)} \cup ToSet(Tail(q))
  <2>1. PICK i \in 1..Len(q) : x = q[i]
    BY <1>1 DEF ToSet
  <2>2. CASE i = 1
    BY <1>1, <2>1, <2>2
  <2>3. CASE i # 1
    <3>1. i - 1 \in 1..Len(q) - 1 /\ Tail(q)[i - 1] = q[i]
      BY <1>1, <2>3
    <3> QED
      BY <1>1, <2>1, <3>1 DEF ToSet
  <2> QED
    BY <2>2, <2>3
<1>3. ASSUME NEW x \in {Head(q)} \cup ToSet(Tail(q)) PROVE x \in ToSet(q)
  BY <1>1 DEF ToSet
<1>4. ASSUME IsInjective(q) PROVE IsInjective(Tail(q)) /\ Head(q) \notin ToSet(Tail(q))
  <2>1. IsInjective(Tail(q))
    BY <1>1, <1>4 DEF IsInjective
  <2>2. \A i \in 1..Len(q) - 1 : Tail(q)[i] # Head(q)
    BY <1>1, <1>4 DEF IsInjective
  <2> QED
    BY <1>1, <2>1, <2>2 DEF ToSet
<1> QED
  BY <1>1, <1>2, <1>3, <1>4

LEMMA CountType ==
  ASSUME NEW S, NEW q \in Seq(S), NEW l
  PROVE  Count(q, l) \in Nat /\ IsFiniteSet({i \in DOMAIN q : q[i].lookup = l})
<1>1. DOMAIN q = 1..Len(q) /\ Len(q) \in Nat
  OBVIOUS
<1>2. IsFiniteSet(1..Len(q))
  BY <1>1, FS_Interval
<1>3. IsFiniteSet({i \in DOMAIN q : q[i].lookup = l})
  BY <1>1, <1>2, FS_Subset
<1> QED
  BY <1>3, FS_CardinalityType DEF Count

LEMMA CountAppend ==
  ASSUME NEW S, NEW q \in Seq(S), NEW e \in S, NEW l
  PROVE  Count(Append(q, e), l) = IF e.lookup = l THEN Count(q, l) + 1 ELSE Count(q, l)
<1> DEFINE at == {i \in DOMAIN q : q[i].lookup = l}
           atNext == {i \in DOMAIN Append(q, e) : Append(q, e)[i].lookup = l}
<1>1. /\ DOMAIN Append(q, e) = DOMAIN q \cup {Len(q) + 1} /\ DOMAIN q = 1..Len(q)
      /\ Len(q) \in Nat
      /\ \A i \in DOMAIN q : Append(q, e)[i] = q[i]
      /\ Append(q, e)[Len(q) + 1] = e
  BY AppendFacts
<1>2. Len(q) + 1 \notin at
  BY <1>1
<1>3. IsFiniteSet(at)
  BY CountType
<1>4. CASE e.lookup = l
  <2>1. atNext = at \cup {Len(q) + 1}
    BY <1>1, <1>4
  <2>2. Cardinality(atNext) = Cardinality(at) + 1
    BY <1>2, <1>3, <2>1, FS_AddElement
  <2> QED
    BY <1>4, <2>2 DEF Count
<1>5. CASE e.lookup # l
  <2>1. atNext = at
    BY <1>1, <1>5
  <2> QED
    BY <1>5, <2>1 DEF Count
<1> QED
  BY <1>4, <1>5

-----------------------------------------------------------------------------
(* Types, and what a worker holds. *)

Job == [state : {"idle", "taken", "sending", "delivered", "left"},
        lookup : Lookups \cup {NoLookup}, answer : AnswerRecords \cup {NoAnswer}]

LEMMA InitInv == Init => IInv
<1> SUFFICES ASSUME Init PROVE IInv
  OBVIOUS
<1> USE DEF Init
<1>1. ToSet(<<>>) = {} /\ IsInjective(<<>>) /\ Len(<<>>) = 0
  BY DEF ToSet, IsInjective
<1>2. catalogs \in Seq(SUBSET Barcodes) /\ Current = 1
  BY DEF Current
<1>3. job \in [Workers -> Job] /\ \A w \in Workers : job[w].state = "idle" /\ job[w].lookup = NoLookup
  BY DEF Idle, Job
<1>4. TypeOK
  <2>1. link \in BOOLEAN /\ subscribed \in BOOLEAN
    BY Zenon
  <2> QED
    BY <1>2, <1>3, <2>1, LookupAssumption DEF TypeOK, Job
<1>5. JobInv
  BY <1>3 DEF JobInv, Answering
<1>6. PlaceInv
  BY <1>1, <1>3, LookupAssumption DEF PlaceInv, Holders
<1>7. FreshInv
  BY <1>1, <1>2, <1>3 DEF FreshInv, Answering, Held
<1>8. CountInv
  <2>1. ASSUME NEW s \in Stations, NEW l \in Lookups PROVE Count(answers[s], l) = 0
    <3>1. {i \in DOMAIN answers[s] : answers[s][i].lookup = l} = {}
      OBVIOUS
    <3> QED
      BY <3>1, FS_EmptySet DEF Count
  <2> QED
    BY <2>1 DEF CountInv
<1> QED
  BY <1>4, <1>5, <1>6, <1>7, <1>8 DEF IInv

LEMMA AnswerType ==
  ASSUME TypeOK, NEW w \in Workers, NEW l \in Lookups, NEW failed \in BOOLEAN
  PROVE  Answer(w, l, failed) \in AnswerRecords
<1>1. Current \in Nat
  BY DEF TypeOK, Current
<1> DEFINE found == ~failed /\ BarcodeOf[l] \in catalogs[Current]
<1>2. found \in BOOLEAN
  OBVIOUS
<1>3. Answer(w, l, failed) = [lookup |-> l, by |-> w, catalog |-> Current, failed |-> failed, valid |-> found]
  BY DEF Answer
<1> HIDE DEF found
<1> QED
  BY <1>1, <1>2, <1>3 DEF AnswerRecords

\* The records that the actions write.
LEMMA JobRecord ==
  ASSUME NEW r \in Job, NEW a \in AnswerRecords
  PROVE  /\ [r EXCEPT !.state = "sending"] \in Job
         /\ [r EXCEPT !.state = "delivered"] \in Job
         /\ [r EXCEPT !.state = "sending", !.answer = a] \in Job
         /\ [r EXCEPT !.state = "sending", !.answer = a].state = "sending"
         /\ [r EXCEPT !.state = "sending", !.answer = a].lookup = r.lookup
         /\ [r EXCEPT !.state = "sending", !.answer = a].answer = a
BY DEF Job

LEMMA IdleRecord ==
  ASSUME NEW l \in Lookups
  PROVE  /\ Idle \in Job /\ [Idle EXCEPT !.state = "left"] \in Job
         /\ [Idle EXCEPT !.state = "taken", !.lookup = l] \in Job
         /\ [Idle EXCEPT !.state = "taken", !.lookup = l].state = "taken"
         /\ [Idle EXCEPT !.state = "taken", !.lookup = l].lookup = l
<1>1. Idle \in Job /\ [Idle EXCEPT !.state = "left"] \in Job
  BY DEF Idle, Job
<1> HIDE DEF Idle
<1>2. /\ [Idle EXCEPT !.state = "taken", !.lookup = l] \in Job
      /\ [Idle EXCEPT !.state = "taken", !.lookup = l].state = "taken"
      /\ [Idle EXCEPT !.state = "taken", !.lookup = l].lookup = l
  BY <1>1 DEF Job
<1> QED
  BY <1>1, <1>2

LEMMA TypeStep == IInv /\ [Next]_vars => TypeOK'
<1> SUFFICES ASSUME IInv, [Next]_vars PROVE TypeOK'
  OBVIOUS
<1>0. TypeOK /\ JobInv
  BY DEF IInv
<1>a. job \in [Workers -> Job]
  BY <1>0 DEF TypeOK, Job
<1> USE DEF processVars, netVars, requestVars
<1>1. CASE \E l \in Lookups : Ask(l)
  <2>1. PICK l \in Lookups : Ask(l)
    BY <1>1
  <2>2. inflight' \in Seq(Lookups)
    <3>1. inflight \in Seq(Lookups) /\ (UNCHANGED inflight \/ inflight' = Append(inflight, l))
      BY <1>0, <2>1 DEF Ask, TypeOK
    <3> QED
      BY <3>1, AppendFacts
  <2>3. fate' \in [Lookups -> {"unasked", "sent", "lost", "ignored", "dropped", "accepted", "answered"}]
    BY <1>0, <2>1 DEF Ask, TypeOK
  <2>4. UNCHANGED <<processVars, netVars, catalogs, queue, since, job, answers>>
    BY <2>1 DEF Ask
  <2> QED
    BY <1>0, <2>2, <2>3, <2>4 DEF TypeOK, Current
<1>2. CASE InstallCatalog
  <2>1. PICK listed \in SUBSET Barcodes : catalogs' = Append(catalogs, listed)
    BY <1>2 DEF InstallCatalog
  <2>2. catalogs' \in Seq(SUBSET Barcodes) /\ Len(catalogs') >= 1
    BY <1>0, <2>1 DEF TypeOK, Current
  <2>3. UNCHANGED <<processVars, netVars, requestVars, job, answers>>
    BY <1>2 DEF InstallCatalog
  <2> QED
    BY <1>0, <2>2, <2>3 DEF TypeOK, Current
<1>3. CASE Disconnect
  <2>1. /\ inflight' = <<>> /\ drops' = drops + 1 /\ drops < MaxDrops
        /\ UNCHANGED <<processVars, catalogs, queue, since, answers>>
    BY <1>3 DEF Disconnect
  <2>2. link' \in BOOLEAN /\ subscribed' \in BOOLEAN
    BY <1>3, Zenon DEF Disconnect
  <2>3. fate' \in [Lookups -> {"unasked", "sent", "lost", "ignored", "dropped", "accepted", "answered"}]
    BY <1>0, <1>3 DEF Disconnect, TypeOK
  <2>4. job' \in [Workers -> Job]
    <3>1. job' = [w \in Workers |-> IF job[w].state = "delivered"
                                      THEN [job[w] EXCEPT !.state = "sending"] ELSE job[w]]
      BY <1>3 DEF Disconnect
    <3>2. \A r \in Job : [r EXCEPT !.state = "sending"] \in Job
      BY DEF Job
    <3> QED
      BY <1>a, <3>1, <3>2
  <2>5. drops' \in 0..MaxDrops
    BY <1>0, <2>1, LookupAssumption DEF TypeOK
  <2> QED
    BY <1>0, <2>1, <2>2, <2>3, <2>4, <2>5 DEF TypeOK, Job, Current
<1>4. CASE Reconnect \/ Restart
  <2>1. link' \in BOOLEAN /\ subscribed' \in BOOLEAN
    BY <1>4, Zenon DEF Reconnect, Restart
  <2>2. /\ phase' \in {"running", "stopping", "stopped"}
        /\ UNCHANGED <<stops, drops, catalogs, requestVars, job, answers>>
    BY <1>0, <1>4 DEF Reconnect, Restart, TypeOK
  <2> QED
    BY <1>0, <2>1, <2>2 DEF TypeOK, Current
<1>5. CASE Ignore \/ Accept \/ Drop
  <2>1. PICK becomes \in {"ignored", "accepted", "dropped"}, keeps \in BOOLEAN :
          Receive(becomes, keeps) /\ (keeps => Len(queue) < Capacity)
    BY <1>5 DEF Ignore, Accept, Drop
  <2>2. Head(inflight) \in Lookups /\ inflight' \in Seq(Lookups)
    BY <1>0, <2>1, TailFacts DEF Receive, TypeOK
  <2>3. queue' \in Seq(Lookups) /\ Len(queue') <= Capacity
    <3>1. queue \in Seq(Lookups) /\ Len(queue) <= Capacity /\ Capacity \in Nat
      BY <1>0, LookupAssumption DEF TypeOK
    <3>2. CASE keeps
      <4>1. queue' = Append(queue, Head(inflight)) /\ Len(queue) < Capacity
        BY <2>1, <3>2 DEF Receive
      <4> QED
        BY <2>2, <3>1, <4>1, AppendFacts
    <3>3. CASE ~keeps
      BY <2>1, <3>1, <3>3 DEF Receive
    <3> QED
      BY <3>2, <3>3
  <2>4. since' \in [Lookups -> Nat]
    <3>1. Current \in Nat /\ since \in [Lookups -> Nat]
      BY <1>0 DEF TypeOK, Current
    <3>2. since' = since \/ since' = [since EXCEPT ![Head(inflight)] = Current]
      BY <2>1 DEF Receive
    <3> QED
      BY <2>2, <3>1, <3>2
  <2>5. fate' \in [Lookups -> {"unasked", "sent", "lost", "ignored", "dropped", "accepted", "answered"}]
    BY <1>0, <2>1, <2>2 DEF Receive, TypeOK
  <2>6. UNCHANGED <<processVars, netVars, catalogs, job, answers>>
    BY <2>1 DEF Receive
  <2> QED
    BY <1>0, <2>2, <2>3, <2>4, <2>5, <2>6 DEF TypeOK, Current
<1>6. ASSUME NEW w \in Workers, Take(w) PROVE TypeOK'
  <2>1. /\ queue' = Tail(queue) /\ queue # <<>>
        /\ job' = [job EXCEPT ![w] = [Idle EXCEPT !.state = "taken", !.lookup = Head(queue)]]
        /\ UNCHANGED <<processVars, netVars, catalogs, inflight, fate, since, answers>>
    BY <1>6 DEF Take
  <2>2. Head(queue) \in Lookups /\ queue' \in Seq(Lookups) /\ Len(queue') <= Capacity
    BY <1>0, <2>1, TailFacts, LookupAssumption DEF TypeOK
  <2>3. job' \in [Workers -> Job]
    <3>1. [Idle EXCEPT !.state = "taken", !.lookup = Head(queue)] \in Job
      BY <2>2, IdleRecord
    <3> QED
      BY <1>a, <2>1, <3>1
  <2> QED
    BY <1>0, <2>1, <2>2, <2>3 DEF TypeOK, Job, Current
<1>7. ASSUME NEW w \in Workers, LookUp(w) \/ LookUpFails(w) PROVE TypeOK'
  <2>1. PICK failed \in BOOLEAN : Working(w, "taken") /\ Send(w, Answer(w, job[w].lookup, failed))
    BY <1>7 DEF LookUp, LookUpFails
  <2>2. job[w].lookup \in Lookups
    BY <1>0, <1>a, <2>1 DEF Working, JobInv, Job
  <2>3. Answer(w, job[w].lookup, failed) \in AnswerRecords
    BY <1>0, <2>2, AnswerType
  <2>4. job' \in [Workers -> Job]
    <3> DEFINE a == Answer(w, job[w].lookup, failed)
    <3>1. job' = [job EXCEPT ![w] = [job[w] EXCEPT !.state = "sending", !.answer = a]]
      BY <2>1 DEF Send, Become
    <3> HIDE DEF a
    <3>2. [job[w] EXCEPT !.state = "sending", !.answer = a] \in Job
      BY <1>a, <2>3, JobRecord DEF a
    <3> QED
      BY <1>a, <3>1, <3>2
  <2>5. UNCHANGED <<processVars, netVars, catalogs, requestVars, answers>>
    BY <2>1 DEF Send, Become
  <2> QED
    BY <1>0, <2>4, <2>5 DEF TypeOK, Job, Current
<1>8. ASSUME NEW w \in Workers, Deliver(w) PROVE TypeOK'
  <2> DEFINE a == job[w].answer
  <2>1. /\ answers' = [answers EXCEPT ![StationOf[a.lookup]] = Append(@, a)]
        /\ fate' = [fate EXCEPT ![a.lookup] = "answered"]
        /\ job' = [job EXCEPT ![w].state = "delivered"]
        /\ UNCHANGED <<processVars, netVars, catalogs, inflight, queue, since>>
    BY <1>8 DEF Deliver
  <2>2. a \in AnswerRecords
    BY <1>0, <1>8 DEF Deliver, Working, JobInv, Answering
  <2>3. StationOf[a.lookup] \in Stations
    BY <2>2, LookupAssumption DEF AnswerRecords
  <2>4. job' \in [Workers -> Job]
    <3>1. [job[w] EXCEPT !.state = "delivered"] \in Job
      BY <1>a, <2>2, JobRecord
    <3> QED
      BY <1>a, <2>1, <3>1
  <2> HIDE DEF a
  <2>5. answers' \in [Stations -> Seq(AnswerRecords)]
    <3>1. answers \in [Stations -> Seq(AnswerRecords)]
      BY <1>0 DEF TypeOK
    <3>2. Append(answers[StationOf[a.lookup]], a) \in Seq(AnswerRecords)
      BY <2>2, <2>3, <3>1, AppendFacts
    <3> QED
      BY <2>1, <3>1, <3>2
  <2>6. fate' \in [Lookups -> {"unasked", "sent", "lost", "ignored", "dropped", "accepted", "answered"}]
    BY <1>0, <2>1 DEF TypeOK
  <2> QED
    BY <1>0, <2>1, <2>4, <2>5, <2>6 DEF TypeOK, Job, Current
<1>9. ASSUME NEW w \in Workers, Acknowledge(w) \/ Leave(w) PROVE TypeOK'
  <2>1. \E r \in Job : Become(w, r)
    BY <1>9, LookupAssumption DEF Acknowledge, Leave, Idle, Job
  <2>2. job' \in [Workers -> Job]
    BY <1>a, <2>1 DEF Become
  <2> QED
    BY <1>0, <2>1, <2>2 DEF TypeOK, Become, Job, Current
<1>10. CASE Signal
  BY <1>0, <1>10 DEF Signal, TypeOK, Current
<1>11. CASE Exit
  <2>1. /\ phase' = "stopped" /\ stops' = stops + 1 /\ stops < MaxStops
        /\ inflight' = <<>> /\ queue' = <<>> /\ job' = [w \in Workers |-> Idle]
        /\ UNCHANGED <<drops, catalogs, since, answers>>
    BY <1>11 DEF Exit
  <2>2. link' \in BOOLEAN /\ subscribed' \in BOOLEAN
    BY <1>11, Zenon DEF Exit
  <2>3. fate' \in [Lookups -> {"unasked", "sent", "lost", "ignored", "dropped", "accepted", "answered"}]
    BY <1>0, <1>11 DEF Exit, TypeOK
  <2>4. job' \in [Workers -> Job]
    BY <2>1 DEF Idle, Job
  <2>5. stops' \in 0..MaxStops
    BY <1>0, <2>1, LookupAssumption DEF TypeOK
  <2>6. queue' \in Seq(Lookups) /\ Len(queue') <= Capacity
    BY <2>1, LookupAssumption
  <2> QED
    BY <1>0, <2>1, <2>2, <2>3, <2>4, <2>5, <2>6 DEF TypeOK, Job, Current
<1>12. CASE UNCHANGED vars
  BY <1>0, <1>12 DEF vars, TypeOK, Current
<1> QED
  BY <1>1, <1>2, <1>3, <1>4, <1>5, <1>6, <1>7, <1>8, <1>9, <1>10, <1>11, <1>12 DEF Next

-----------------------------------------------------------------------------
(* What the actions do, worker by worker and request by request. *)

Fates == {"unasked", "sent", "lost", "ignored", "dropped", "accepted", "answered"}

LEMMA StateTypes ==
  ASSUME TypeOK
  PROVE  /\ job \in [Workers -> Job] /\ fate \in [Lookups -> Fates]
         /\ inflight \in Seq(Lookups) /\ queue \in Seq(Lookups)
         /\ ToSet(inflight) \subseteq Lookups /\ ToSet(queue) \subseteq Lookups
         /\ since \in [Lookups -> Nat] /\ answers \in [Stations -> Seq(AnswerRecords)]
         /\ Current \in Nat \ {0} /\ drops \in Nat
<1>1. /\ job \in [Workers -> Job] /\ fate \in [Lookups -> Fates]
      /\ inflight \in Seq(Lookups) /\ queue \in Seq(Lookups)
      /\ since \in [Lookups -> Nat] /\ answers \in [Stations -> Seq(AnswerRecords)]
  BY DEF TypeOK, Job, Fates
<1>2. Current \in Nat \ {0} /\ drops \in Nat
  BY LookupAssumption DEF TypeOK, Current
<1>3. ASSUME NEW q \in Seq(Lookups) PROVE ToSet(q) \subseteq Lookups
  BY DEF ToSet
<1> QED
  BY <1>1, <1>2, <1>3

LEMMA TakeEffect ==
  ASSUME TypeOK, NEW w \in Workers, Take(w), IsInjective(queue)
  PROVE  \E h \in Lookups :
           /\ ToSet(queue) = {h} \cup ToSet(queue') /\ h \notin ToSet(queue') /\ IsInjective(queue')
           /\ job[w].state = "idle"
           /\ job'[w].state = "taken" /\ job'[w].lookup = h
           /\ \A v \in Workers \ {w} : job'[v] = job[v]
           /\ UNCHANGED <<catalogs, inflight, fate, since, answers, drops>>
<1>1. /\ queue # <<>> /\ queue' = Tail(queue) /\ job[w].state = "idle"
      /\ job' = [job EXCEPT ![w] = [Idle EXCEPT !.state = "taken", !.lookup = Head(queue)]]
      /\ UNCHANGED <<catalogs, inflight, fate, since, answers, drops>>
  BY DEF Take, Working, netVars
<1>2. /\ Head(queue) \in Lookups /\ ToSet(queue) = {Head(queue)} \cup ToSet(queue')
      /\ Head(queue) \notin ToSet(queue') /\ IsInjective(queue')
  BY <1>1, StateTypes, TailFacts
<1>3. /\ job'[w] = [Idle EXCEPT !.state = "taken", !.lookup = Head(queue)]
      /\ \A v \in Workers \ {w} : job'[v] = job[v]
  BY <1>1, StateTypes
<1>4. job'[w].state = "taken" /\ job'[w].lookup = Head(queue)
  BY <1>2, <1>3, IdleRecord
<1> QED
  BY <1>1, <1>2, <1>3, <1>4

LEMMA LookUpEffect ==
  ASSUME TypeOK, JobInv, NEW w \in Workers, LookUp(w) \/ LookUpFails(w)
  PROVE  \E failed \in BOOLEAN :
           /\ job[w].state = "taken" /\ job[w].lookup \in Lookups
           /\ job'[w].state = "sending" /\ job'[w].lookup = job[w].lookup
           /\ job'[w].answer = Answer(w, job[w].lookup, failed)
           /\ Answer(w, job[w].lookup, failed) \in AnswerRecords
           /\ \A v \in Workers \ {w} : job'[v] = job[v]
           /\ UNCHANGED <<catalogs, inflight, queue, fate, since, answers, drops>>
<1>1. PICK failed \in BOOLEAN : Working(w, "taken") /\ Send(w, Answer(w, job[w].lookup, failed))
  BY DEF LookUp, LookUpFails
<1>2. job[w].state = "taken" /\ job[w].lookup \in Lookups
  BY <1>1, StateTypes DEF Working, JobInv, Job
<1> DEFINE a == Answer(w, job[w].lookup, failed)
<1>3. a \in AnswerRecords
  BY <1>2, AnswerType
<1>4. /\ job' = [job EXCEPT ![w] = [job[w] EXCEPT !.state = "sending", !.answer = a]]
      /\ UNCHANGED <<catalogs, inflight, queue, fate, since, answers, drops>>
  BY <1>1 DEF Send, Become, netVars, requestVars
<1> HIDE DEF a
<1>5. /\ job'[w] = [job[w] EXCEPT !.state = "sending", !.answer = a]
      /\ \A v \in Workers \ {w} : job'[v] = job[v]
  BY <1>4, StateTypes
<1>6. job'[w].state = "sending" /\ job'[w].lookup = job[w].lookup /\ job'[w].answer = a
  <2>1. job[w] \in Job
    BY StateTypes
  <2> DEFINE r == job[w]
  <2> HIDE DEF r
  <2>2. /\ [r EXCEPT !.state = "sending", !.answer = a].state = "sending"
        /\ [r EXCEPT !.state = "sending", !.answer = a].lookup = r.lookup
        /\ [r EXCEPT !.state = "sending", !.answer = a].answer = a
    BY <1>3, <2>1, JobRecord DEF r
  <2> QED
    BY <1>5, <2>2 DEF r
<1> QED
  BY <1>2, <1>3, <1>4, <1>5, <1>6 DEF a

LEMMA DeliverEffect ==
  ASSUME TypeOK, JobInv, NEW w \in Workers, Deliver(w)
  PROVE  /\ job[w].state = "sending" /\ job[w].answer \in AnswerRecords
         /\ job[w].lookup \in Lookups /\ job[w].answer.lookup = job[w].lookup /\ job[w].answer.by = w
         /\ job'[w].state = "delivered" /\ job'[w].lookup = job[w].lookup
         /\ job'[w].answer = job[w].answer
         /\ \A v \in Workers \ {w} : job'[v] = job[v]
         /\ fate'[job[w].lookup] = "answered"
         /\ \A l \in Lookups \ {job[w].lookup} : fate'[l] = fate[l]
         /\ \A s \in Stations :
              answers'[s] = IF s = StationOf[job[w].lookup] THEN Append(answers[s], job[w].answer)
                                                            ELSE answers[s]
         /\ UNCHANGED <<catalogs, inflight, queue, since, drops>>
<1> DEFINE a == job[w].answer
<1>1. /\ answers' = [answers EXCEPT ![StationOf[a.lookup]] = Append(@, a)]
      /\ fate' = [fate EXCEPT ![a.lookup] = "answered"]
      /\ job' = [job EXCEPT ![w].state = "delivered"]
      /\ UNCHANGED <<catalogs, inflight, queue, since, drops>>
      /\ job[w].state = "sending"
  BY DEF Deliver, Working, netVars
<1>2. a \in AnswerRecords /\ a.lookup = job[w].lookup /\ a.by = w
  BY <1>1 DEF JobInv, Answering
<1>3. a.lookup \in Lookups
  BY <1>2 DEF AnswerRecords
<1>4. /\ job'[w].state = "delivered" /\ job'[w].lookup = job[w].lookup /\ job'[w].answer = a
      /\ \A v \in Workers \ {w} : job'[v] = job[v]
  BY <1>1, StateTypes DEF Job
<1> HIDE DEF a
<1>5. fate'[a.lookup] = "answered" /\ \A l \in Lookups \ {a.lookup} : fate'[l] = fate[l]
  BY <1>1, <1>3, StateTypes
<1>6. \A s \in Stations : answers'[s] = IF s = StationOf[a.lookup] THEN Append(answers[s], a) ELSE answers[s]
  BY <1>1, StateTypes
<1> QED
  BY <1>1, <1>2, <1>3, <1>4, <1>5, <1>6 DEF a

LEMMA DoneEffect ==
  ASSUME TypeOK, NEW w \in Workers, Acknowledge(w) \/ Leave(w)
  PROVE  /\ job[w].state \in {"idle", "delivered"}
         /\ job'[w].state \in {"idle", "left"} /\ job'[w].lookup = NoLookup
         /\ \A v \in Workers \ {w} : job'[v] = job[v]
         /\ UNCHANGED <<catalogs, inflight, queue, fate, since, answers, drops>>
<1>1. \/ job' = [job EXCEPT ![w] = Idle]
      \/ job' = [job EXCEPT ![w] = [Idle EXCEPT !.state = "left"]]
  BY DEF Acknowledge, Leave, Become
<1>2. /\ job[w].state \in {"idle", "delivered"}
      /\ UNCHANGED <<catalogs, inflight, queue, fate, since, answers, drops>>
  BY DEF Acknowledge, Leave, Become, Working, netVars, requestVars
<1> QED
  BY <1>1, <1>2, StateTypes DEF Idle

LEMMA ReceiveEffect ==
  ASSUME TypeOK, PlaceInv, Ignore \/ Accept \/ Drop
  PROVE  \E h \in Lookups, keeps \in BOOLEAN :
           /\ ToSet(inflight) = {h} \cup ToSet(inflight') /\ h \notin ToSet(inflight')
           /\ IsInjective(inflight') /\ fate[h] = "sent"
           /\ keeps => /\ fate'[h] = "accepted" /\ queue' = Append(queue, h)
                       /\ since'[h] = Current
           /\ ~keeps => fate'[h] \in {"ignored", "dropped"} /\ UNCHANGED <<queue, since>>
           /\ \A l \in Lookups \ {h} : fate'[l] = fate[l] /\ since'[l] = since[l]
           /\ UNCHANGED <<catalogs, job, answers, drops>>
<1>1. PICK becomes \in {"ignored", "accepted", "dropped"}, keeps \in BOOLEAN :
        Receive(becomes, keeps) /\ (keeps <=> becomes = "accepted")
  BY DEF Ignore, Accept, Drop
<1> DEFINE h == Head(inflight)
<1>2. /\ inflight # <<>> /\ inflight' = Tail(inflight) /\ fate' = [fate EXCEPT ![h] = becomes]
      /\ keeps => queue' = Append(queue, h) /\ since' = [since EXCEPT ![h] = Current]
      /\ ~keeps => UNCHANGED <<queue, since>>
      /\ UNCHANGED <<catalogs, job, answers, drops>>
  BY <1>1 DEF Receive, netVars
<1>3. /\ h \in Lookups /\ ToSet(inflight) = {h} \cup ToSet(inflight')
      /\ h \notin ToSet(inflight') /\ IsInjective(inflight')
  BY <1>2, StateTypes, TailFacts DEF PlaceInv
<1>4. fate[h] = "sent"
  BY <1>3 DEF PlaceInv
<1> HIDE DEF h
<1>5. fate'[h] = becomes /\ \A l \in Lookups \ {h} : fate'[l] = fate[l]
  BY <1>2, <1>3, StateTypes
<1>6. /\ keeps => since'[h] = Current
      /\ \A l \in Lookups \ {h} : since'[l] = since[l]
  BY <1>2, <1>3, StateTypes
<1> QED
  BY <1>1, <1>2, <1>3, <1>4, <1>5, <1>6

LEMMA DisconnectEffect ==
  ASSUME TypeOK, PlaceInv, Disconnect
  PROVE  /\ inflight' = <<>> /\ drops' = drops + 1
         /\ \A w \in Workers :
              /\ job'[w].lookup = job[w].lookup /\ job'[w].answer = job[w].answer
              /\ job'[w].state = IF job[w].state = "delivered" THEN "sending" ELSE job[w].state
         /\ \A l \in Lookups : fate'[l] = fate[l] \/ (fate[l] = "sent" /\ fate'[l] = "lost")
         /\ UNCHANGED <<catalogs, queue, since, answers>>
<1>1. /\ inflight' = <<>> /\ drops' = drops + 1
      /\ fate' = [l \in Lookups |-> IF l \in ToSet(inflight) THEN "lost" ELSE fate[l]]
      /\ job' = [w \in Workers |-> IF job[w].state = "delivered"
                                     THEN [job[w] EXCEPT !.state = "sending"] ELSE job[w]]
      /\ UNCHANGED <<catalogs, queue, since, answers>>
  BY DEF Disconnect
<1>2. \A w \in Workers :
        /\ job'[w].lookup = job[w].lookup /\ job'[w].answer = job[w].answer
        /\ job'[w].state = IF job[w].state = "delivered" THEN "sending" ELSE job[w].state
  BY <1>1, StateTypes DEF Job
<1>3. \A l \in Lookups : fate'[l] = fate[l] \/ (fate[l] = "sent" /\ fate'[l] = "lost")
  BY <1>1 DEF PlaceInv
<1> QED
  BY <1>1, <1>2, <1>3

LEMMA ExitEffect ==
  ASSUME Exit
  PROVE  /\ inflight' = <<>> /\ queue' = <<>>
         /\ \A w \in Workers : job'[w].state = "idle" /\ job'[w].lookup = NoLookup
         /\ \A l \in Lookups : fate'[l] = IF fate[l] \in {"sent", "accepted"} THEN "lost" ELSE fate[l]
         /\ UNCHANGED <<catalogs, since, answers, drops>>
BY DEF Exit, Idle

LEMMA AskEffect ==
  ASSUME TypeOK, NEW l \in Lookups, Ask(l)
  PROVE  /\ fate[l] = "unasked"
         /\ \/ fate'[l] = "sent" /\ inflight' = Append(inflight, l)
            \/ fate'[l] = "lost" /\ UNCHANGED inflight
         /\ \A k \in Lookups \ {l} : fate'[k] = fate[k]
         /\ UNCHANGED <<catalogs, queue, since, job, answers, drops>>
BY StateTypes DEF Ask, netVars

LEMMA OtherEffect ==
  ASSUME Reconnect \/ Signal \/ Restart \/ UNCHANGED vars
  PROVE  UNCHANGED <<catalogs, inflight, queue, fate, since, job, answers, drops>>
BY DEF Reconnect, Signal, Restart, vars, processVars, netVars, requestVars

LEMMA InstallEffect ==
  ASSUME TypeOK, InstallCatalog
  PROVE  /\ Current' = Current + 1 /\ \A c \in 1..Current : catalogs'[c] = catalogs[c]
         /\ UNCHANGED <<inflight, queue, fate, since, job, answers, drops>>
<1>1. PICK listed \in SUBSET Barcodes : catalogs' = Append(catalogs, listed)
  BY DEF InstallCatalog
<1>2. Current' = Current + 1 /\ \A c \in 1..Current : catalogs'[c] = catalogs[c]
  BY <1>1 DEF TypeOK, Current
<1> QED
  BY <1>2 DEF InstallCatalog, netVars, requestVars

-----------------------------------------------------------------------------
(* Where a request is. *)

\* Whatever keeps the jobs, and the fates of the requests they hold.
LEMMA JobFrame ==
  ASSUME JobInv, UNCHANGED job,
         \A w \in Workers : job[w].state \in {"taken", "sending", "delivered"} =>
           fate'[job[w].lookup] = fate[job[w].lookup]
  PROVE  JobInv'
BY DEF JobInv, Answering

\* A worker's request is accepted or answered.
LEMMA HeldFates ==
  ASSUME TypeOK, JobInv, NEW w \in Workers
  PROVE  /\ job[w].state \in {"taken", "sending", "delivered"} =>
              job[w].lookup \in Lookups /\ fate[job[w].lookup] \in {"accepted", "answered"}
         /\ job[w].lookup \in Lookups => job[w].state \in {"taken", "sending", "delivered"}
BY StateTypes, LookupAssumption DEF JobInv, Job

LEMMA JobStep == IInv /\ [Next]_vars => JobInv'
<1> SUFFICES ASSUME IInv, [Next]_vars PROVE JobInv'
  OBVIOUS
<1>0. TypeOK /\ JobInv /\ PlaceInv
  BY DEF IInv
<1>1. ASSUME NEW l \in Lookups, Ask(l) PROVE JobInv'
  <2>1. \A w \in Workers : job[w].state \in {"taken", "sending", "delivered"} =>
           fate'[job[w].lookup] = fate[job[w].lookup]
    BY <1>0, <1>1, AskEffect, HeldFates
  <2> QED
    BY <1>0, <1>1, <2>1, AskEffect, JobFrame
<1>2. CASE InstallCatalog
  BY <1>0, <1>2, InstallEffect, JobFrame
<1>3. CASE Disconnect
  <2>1. \A w \in Workers :
          /\ job'[w].lookup = job[w].lookup /\ job'[w].answer = job[w].answer
          /\ job'[w].state = IF job[w].state = "delivered" THEN "sending" ELSE job[w].state
    BY <1>0, <1>3, DisconnectEffect
  <2>2. \A w \in Workers : job[w].state \in {"taken", "sending", "delivered"} =>
           fate'[job[w].lookup] = fate[job[w].lookup]
    BY <1>0, <1>3, DisconnectEffect, HeldFates
  <2> QED
    BY <1>0, <2>1, <2>2 DEF JobInv, Answering
<1>4. CASE Ignore \/ Accept \/ Drop
  <2>1. /\ UNCHANGED job
        /\ \E h \in Lookups : /\ fate[h] = "sent"
                              /\ \A l \in Lookups \ {h} : fate'[l] = fate[l]
    BY <1>0, <1>4, ReceiveEffect
  <2>2. \A w \in Workers : job[w].state \in {"taken", "sending", "delivered"} =>
           fate'[job[w].lookup] = fate[job[w].lookup]
    BY <1>0, <2>1, HeldFates
  <2> QED
    BY <1>0, <2>1, <2>2, JobFrame
<1>5. ASSUME NEW w \in Workers, Take(w) PROVE JobInv'
  <2>1. PICK h \in Lookups :
          /\ h \in ToSet(queue)
          /\ job'[w].state = "taken" /\ job'[w].lookup = h
          /\ \A v \in Workers \ {w} : job'[v] = job[v]
          /\ UNCHANGED fate
    BY <1>0, <1>5, TakeEffect DEF PlaceInv
  <2>2. fate[h] = "accepted" /\ h # NoLookup
    BY <1>0, <2>1, LookupAssumption DEF PlaceInv
  <2> QED
    BY <1>0, <2>1, <2>2 DEF JobInv, Answering
<1>6. ASSUME NEW w \in Workers, LookUp(w) \/ LookUpFails(w) PROVE JobInv'
  <2>1. PICK failed \in BOOLEAN :
          /\ job[w].state = "taken" /\ job[w].lookup \in Lookups
          /\ job'[w].state = "sending" /\ job'[w].lookup = job[w].lookup
          /\ job'[w].answer = Answer(w, job[w].lookup, failed)
          /\ Answer(w, job[w].lookup, failed) \in AnswerRecords
          /\ \A v \in Workers \ {w} : job'[v] = job[v]
          /\ UNCHANGED fate
    BY <1>0, <1>6, LookUpEffect
  <2>2. job'[w].answer.lookup = job'[w].lookup /\ job'[w].answer.by = w
    BY <2>1 DEF Answer
  <2>3. job'[w].lookup # NoLookup /\ fate[job'[w].lookup] = "accepted"
    BY <1>0, <2>1, LookupAssumption DEF JobInv
  <2> QED
    BY <1>0, <2>1, <2>2, <2>3 DEF JobInv, Answering
<1>7. ASSUME NEW w \in Workers, Deliver(w) PROVE JobInv'
  <2>1. /\ job[w].state = "sending" /\ job[w].answer \in AnswerRecords
        /\ job[w].lookup \in Lookups /\ job[w].answer.lookup = job[w].lookup /\ job[w].answer.by = w
        /\ job'[w].state = "delivered" /\ job'[w].lookup = job[w].lookup
        /\ job'[w].answer = job[w].answer
        /\ \A v \in Workers \ {w} : job'[v] = job[v]
        /\ fate'[job[w].lookup] = "answered"
        /\ \A l \in Lookups \ {job[w].lookup} : fate'[l] = fate[l]
    BY <1>0, <1>7, DeliverEffect
  <2>2. \A v \in Workers \ {w} : job[v].lookup \in Lookups => job[v].lookup # job[w].lookup
    BY <1>0, <2>1 DEF PlaceInv, Holders
  <2>3. \A v \in Workers \ {w} : job[v].state \in {"taken", "sending", "delivered"} =>
           fate'[job[v].lookup] = fate[job[v].lookup]
    BY <1>0, <2>1, <2>2, HeldFates
  <2>4. job[w].lookup # NoLookup
    BY <2>1, LookupAssumption
  <2> QED
    BY <1>0, <2>1, <2>3, <2>4 DEF JobInv, Answering
<1>8. ASSUME NEW w \in Workers, Acknowledge(w) \/ Leave(w) PROVE JobInv'
  BY <1>0, <1>8, DoneEffect DEF JobInv, Answering
<1>9. CASE Exit
  BY <1>9, ExitEffect DEF JobInv, Answering
<1>10. CASE Reconnect \/ Signal \/ Restart \/ UNCHANGED vars
  BY <1>0, <1>10, OtherEffect, JobFrame
<1> QED
  BY <1>1, <1>2, <1>3, <1>4, <1>5, <1>6, <1>7, <1>8, <1>9, <1>10 DEF Next

\* Whatever keeps the requests of channel, connection and workers where they are.
LEMMA PlaceFrame ==
  ASSUME PlaceInv, UNCHANGED <<inflight, queue, fate>>,
         \A w \in Workers : job'[w].lookup = job[w].lookup
  PROVE  PlaceInv'
<1>1. \A l \in Lookups : Holders(l)' = Holders(l)
  BY DEF Holders
<1> QED
  BY <1>1 DEF PlaceInv

LEMMA PlaceStep == IInv /\ [Next]_vars => PlaceInv'
<1> SUFFICES ASSUME IInv, [Next]_vars PROVE PlaceInv'
  OBVIOUS
<1>0. TypeOK /\ JobInv /\ PlaceInv
  BY DEF IInv
<1>e. ToSet(<<>>) = {} /\ IsInjective(<<>>)
  BY DEF ToSet, IsInjective
<1>1. ASSUME NEW l \in Lookups, Ask(l) PROVE PlaceInv'
  <2>1. /\ fate[l] = "unasked"
        /\ \/ fate'[l] = "sent" /\ inflight' = Append(inflight, l)
           \/ fate'[l] = "lost" /\ UNCHANGED inflight
        /\ \A k \in Lookups \ {l} : fate'[k] = fate[k]
        /\ UNCHANGED <<queue, job>>
    BY <1>0, <1>1, AskEffect
  <2>2. l \notin ToSet(inflight) /\ l \notin ToSet(queue) /\ Holders(l) = {}
    BY <1>0, <2>1, HeldFates DEF PlaceInv, Holders
  <2>3. \A k \in Lookups : Holders(k)' = Holders(k)
    BY <2>1 DEF Holders
  <2>4. CASE fate'[l] = "sent" /\ inflight' = Append(inflight, l)
    <3>1. IsInjective(inflight') /\ ToSet(inflight') = ToSet(inflight) \cup {l}
      BY <1>0, <2>2, <2>4, StateTypes, InjectiveAppend, AppendFacts DEF PlaceInv
    <3> QED
      BY <1>0, <2>1, <2>2, <2>3, <2>4, <3>1 DEF PlaceInv
  <2>5. CASE fate'[l] = "lost" /\ UNCHANGED inflight
    BY <1>0, <2>1, <2>2, <2>3, <2>5 DEF PlaceInv
  <2> QED
    BY <2>1, <2>4, <2>5
<1>2. CASE InstallCatalog
  BY <1>0, <1>2, InstallEffect, PlaceFrame
<1>3. CASE Disconnect
  <2>1. /\ inflight' = <<>> /\ UNCHANGED queue
        /\ \A w \in Workers : job'[w].lookup = job[w].lookup
        /\ \A l \in Lookups : fate'[l] = fate[l] \/ (fate[l] = "sent" /\ fate'[l] = "lost")
    BY <1>0, <1>3, DisconnectEffect
  <2>2. \A l \in Lookups : Holders(l)' = Holders(l)
    BY <2>1 DEF Holders
  <2> QED
    BY <1>0, <1>e, <2>1, <2>2 DEF PlaceInv
<1>4. CASE Ignore \/ Accept \/ Drop
  <2>1. PICK h \in Lookups, keeps \in BOOLEAN :
           /\ ToSet(inflight) = {h} \cup ToSet(inflight') /\ h \notin ToSet(inflight')
           /\ IsInjective(inflight') /\ fate[h] = "sent"
           /\ keeps => fate'[h] = "accepted" /\ queue' = Append(queue, h)
           /\ ~keeps => fate'[h] \in {"ignored", "dropped"} /\ UNCHANGED queue
           /\ \A l \in Lookups \ {h} : fate'[l] = fate[l]
           /\ UNCHANGED job
    BY <1>0, <1>4, ReceiveEffect
  <2>2. h \notin ToSet(queue) /\ Holders(h) = {}
    BY <1>0, <2>1, HeldFates DEF PlaceInv, Holders
  <2>3. \A l \in Lookups : Holders(l)' = Holders(l)
    BY <2>1 DEF Holders
  <2>4. CASE keeps
    <3>1. IsInjective(queue') /\ ToSet(queue') = ToSet(queue) \cup {h}
      <4>1. queue' = Append(queue, h) /\ queue \in Seq(Lookups) /\ IsInjective(queue)
        BY <1>0, <2>1, <2>4, StateTypes DEF PlaceInv
      <4> QED
        BY <2>2, <4>1, InjectiveAppend, AppendFacts
    <3> QED
      BY <1>0, <2>1, <2>2, <2>3, <2>4, <3>1 DEF PlaceInv
  <2>5. CASE ~keeps
    BY <1>0, <2>1, <2>2, <2>3, <2>5 DEF PlaceInv
  <2> QED
    BY <2>4, <2>5
<1>5. ASSUME NEW w \in Workers, Take(w) PROVE PlaceInv'
  <2>1. PICK h \in Lookups :
          /\ ToSet(queue) = {h} \cup ToSet(queue') /\ h \notin ToSet(queue') /\ IsInjective(queue')
          /\ job[w].state = "idle" /\ job'[w].lookup = h
          /\ \A v \in Workers \ {w} : job'[v] = job[v]
          /\ UNCHANGED <<inflight, fate>>
    BY <1>0, <1>5, TakeEffect DEF PlaceInv
  <2>2. job[w].lookup = NoLookup
    BY <1>0, <2>1 DEF JobInv
  <2>3. fate[h] = "accepted" /\ Holders(h) = {}
    BY <1>0, <2>1 DEF PlaceInv
  <2>4. /\ Holders(h)' = {w}
        /\ \A l \in Lookups \ {h} : Holders(l)' = Holders(l)
    BY <2>1, <2>2, <2>3, LookupAssumption DEF Holders
  <2> QED
    BY <1>0, <2>1, <2>3, <2>4 DEF PlaceInv
<1>6. ASSUME NEW w \in Workers, LookUp(w) \/ LookUpFails(w) PROVE PlaceInv'
  BY <1>0, <1>6, LookUpEffect, PlaceFrame
<1>7. ASSUME NEW w \in Workers, Deliver(w) PROVE PlaceInv'
  <2>1. /\ job[w].lookup \in Lookups
        /\ \A v \in Workers : job'[v].lookup = job[v].lookup
        /\ fate'[job[w].lookup] = "answered"
        /\ \A l \in Lookups \ {job[w].lookup} : fate'[l] = fate[l]
        /\ UNCHANGED <<inflight, queue>>
    BY <1>0, <1>7, DeliverEffect
  <2>2. job[w].lookup \notin ToSet(queue) /\ job[w].lookup \notin ToSet(inflight)
    BY <1>0, <2>1, HeldFates DEF PlaceInv, Holders
  <2>3. \A l \in Lookups : Holders(l)' = Holders(l)
    BY <2>1 DEF Holders
  <2> QED
    BY <1>0, <2>1, <2>2, <2>3 DEF PlaceInv
<1>8. ASSUME NEW w \in Workers, Acknowledge(w) \/ Leave(w) PROVE PlaceInv'
  <2>1. /\ job[w].state \in {"idle", "delivered"} /\ job'[w].lookup = NoLookup
        /\ \A v \in Workers \ {w} : job'[v] = job[v]
        /\ UNCHANGED <<inflight, queue, fate>>
    BY <1>0, <1>8, DoneEffect
  <2>2. \A l \in Lookups : Holders(l)' = Holders(l) \ {w}
    BY <2>1, LookupAssumption DEF Holders
  <2>3. \A l \in Lookups : w \in Holders(l) => fate[l] = "answered"
    BY <1>0, <2>1, LookupAssumption DEF Holders, JobInv
  <2> QED
    BY <1>0, <2>1, <2>2, <2>3 DEF PlaceInv
<1>9. CASE Exit
  <2>1. /\ inflight' = <<>> /\ queue' = <<>>
        /\ \A w \in Workers : job'[w].lookup = NoLookup
        /\ \A l \in Lookups : fate'[l] # "accepted"
    BY <1>9, ExitEffect
  <2>2. \A l \in Lookups : Holders(l)' = {}
    BY <2>1, LookupAssumption DEF Holders
  <2> QED
    BY <1>e, <2>1, <2>2 DEF PlaceInv
<1>10. CASE Reconnect \/ Signal \/ Restart \/ UNCHANGED vars
  BY <1>0, <1>10, OtherEffect, PlaceFrame
<1> QED
  BY <1>1, <1>2, <1>3, <1>4, <1>5, <1>6, <1>7, <1>8, <1>9, <1>10 DEF Next

-----------------------------------------------------------------------------
(* What is said of the catalogs. *)

LEMMA SaidTypes ==
  ASSUME TypeOK, JobInv
  PROVE  /\ \A s \in Stations : ToSet(answers[s]) \subseteq AnswerRecords
         /\ Held \subseteq AnswerRecords
         /\ \A a \in AnswerRecords : a.lookup \in Lookups /\ a.catalog \in Nat
         /\ \A a \in Held : fate[a.lookup] \in {"accepted", "answered"}
<1>1. ASSUME NEW s \in Stations PROVE ToSet(answers[s]) \subseteq AnswerRecords
  <2>1. answers[s] \in Seq(AnswerRecords)
    BY StateTypes
  <2> QED
    BY <2>1 DEF ToSet
<1>2. Held \subseteq AnswerRecords
  BY DEF Held, JobInv
<1>3. \A a \in AnswerRecords : a.lookup \in Lookups /\ a.catalog \in Nat
  BY DEF AnswerRecords
<1>4. \A a \in Held : fate[a.lookup] \in {"accepted", "answered"}
  BY DEF Held, JobInv, Answering
<1> QED
  BY <1>1, <1>2, <1>3, <1>4

\* Whatever keeps what was said and what the catalogs are.
LEMMA FreshFrame ==
  ASSUME TypeOK, JobInv, FreshInv, UNCHANGED <<catalogs, answers>>,
         \A l \in Lookups : fate[l] = "answered" => fate'[l] = "answered",
         \A l \in Lookups : since'[l] = since[l] \/ (fate[l] = "sent" /\ since'[l] = Current),
         \A w \in Workers : Answering(w)' => Answering(w) /\ job'[w].answer = job[w].answer
  PROVE  FreshInv'
<1>1. Current' = Current /\ \A a : Valid(a)' <=> Valid(a)
  BY DEF Current, Valid
<1>2. \A l \in Lookups : since'[l] <= Current'
  BY <1>1, StateTypes DEF FreshInv
<1>3. Held' \subseteq Held
  BY DEF Held
<1>4. ASSUME NEW a \in AnswerRecords, fate[a.lookup] # "sent", InTime(a) PROVE InTime(a)'
  BY <1>1, <1>4, SaidTypes DEF InTime
<1>5. \A s \in Stations : \A a \in ToSet(answers'[s]) :
        InTime(a)' /\ Valid(a)' /\ fate'[a.lookup] = "answered"
  BY <1>1, <1>4, SaidTypes DEF FreshInv
<1>6. \A a \in Held' : InTime(a)' /\ Valid(a)'
  BY <1>1, <1>3, <1>4, SaidTypes DEF FreshInv
<1>7. \A w \in Workers, s \in Stations : \A a \in ToSet(answers'[s]) :
        Answering(w)' /\ a.by = w => a.catalog <= job'[w].answer.catalog
  BY DEF FreshInv
<1> QED
  BY <1>2, <1>5, <1>6, <1>7 DEF FreshInv

LEMMA FreshInstall ==
  ASSUME TypeOK, JobInv, FreshInv, InstallCatalog
  PROVE  FreshInv'
<1>1. /\ Current' = Current + 1 /\ \A c \in 1..Current : catalogs'[c] = catalogs[c]
      /\ UNCHANGED <<fate, since, job, answers>> /\ Current \in Nat
  BY InstallEffect, StateTypes
<1>2. ASSUME NEW a \in AnswerRecords, InTime(a), Valid(a) PROVE InTime(a)' /\ Valid(a)'
  <2>1. InTime(a)'
    BY <1>1, <1>2 DEF InTime
  <2>2. catalogs'[a.catalog] = catalogs[a.catalog]
    BY <1>1, <1>2 DEF InTime
  <2>3. Valid(a)'
    BY <1>2, <2>2 DEF Valid
  <2> QED
    BY <2>1, <2>3
<1>3. Held' = Held /\ \A w \in Workers : Answering(w)' <=> Answering(w)
  BY <1>1 DEF Held, Answering
<1>4. \A l \in Lookups : since'[l] <= Current'
  BY <1>1, StateTypes DEF FreshInv
<1>5. \A s \in Stations : \A a \in ToSet(answers'[s]) :
        InTime(a)' /\ Valid(a)' /\ fate'[a.lookup] = "answered"
  BY <1>1, <1>2, SaidTypes DEF FreshInv
<1>6. \A a \in Held' : InTime(a)' /\ Valid(a)'
  BY <1>2, <1>3, SaidTypes DEF FreshInv
<1> QED
  BY <1>1, <1>3, <1>4, <1>5, <1>6 DEF FreshInv

LEMMA FreshLookUp ==
  ASSUME TypeOK, JobInv, FreshInv, NEW w \in Workers, LookUp(w) \/ LookUpFails(w)
  PROVE  FreshInv'
<1>1. PICK failed \in BOOLEAN :
        /\ job[w].state = "taken" /\ job[w].lookup \in Lookups
        /\ job'[w].state = "sending" /\ job'[w].lookup = job[w].lookup
        /\ job'[w].answer = Answer(w, job[w].lookup, failed)
        /\ Answer(w, job[w].lookup, failed) \in AnswerRecords
        /\ \A v \in Workers \ {w} : job'[v] = job[v]
        /\ UNCHANGED <<catalogs, fate, since, answers>>
  BY LookUpEffect
<1> DEFINE b == Answer(w, job[w].lookup, failed)
<1>2. b.catalog = Current /\ b.lookup = job[w].lookup
  BY DEF Answer
<1>3. b.valid = (~b.failed /\ BarcodeOf[b.lookup] \in catalogs[b.catalog])
  BY Zenon DEF Answer
<1>4. b \in AnswerRecords
  BY <1>1
<1>5. job'[w].answer = b
  BY <1>1
<1> HIDE DEF b
<1>6. Current' = Current /\ Current \in Nat \ {0} /\ \A a : (Valid(a)' <=> Valid(a)) /\ (InTime(a)' <=> InTime(a))
  BY <1>1, StateTypes DEF Current, Valid, InTime
<1>7. InTime(b)
  BY <1>1, <1>2, <1>6 DEF InTime, FreshInv
<1>8. Valid(b)
  BY <1>3, Zenon DEF Valid
<1>9. Held' \subseteq Held \cup {b}
  BY <1>1, <1>5 DEF Held, Answering
<1>10. \A s \in Stations : \A a \in ToSet(answers[s]) : a.catalog <= Current
  BY <1>6 DEF FreshInv, InTime
<1>11. \A v \in Workers, s \in Stations : \A a \in ToSet(answers'[s]) :
         Answering(v)' /\ a.by = v => a.catalog <= job'[v].answer.catalog
  BY <1>1, <1>2, <1>5, <1>10 DEF FreshInv, Answering
<1>12. \A a \in Held' : InTime(a)' /\ Valid(a)'
  BY <1>6, <1>7, <1>8, <1>9 DEF FreshInv
<1> QED
  BY <1>1, <1>6, <1>11, <1>12 DEF FreshInv

LEMMA FreshDeliver ==
  ASSUME TypeOK, JobInv, FreshInv, NEW w \in Workers, Deliver(w)
  PROVE  FreshInv'
<1> DEFINE b == job[w].answer
           t == StationOf[job[w].lookup]
<1>1. /\ job[w].state = "sending" /\ b \in AnswerRecords
      /\ job[w].lookup \in Lookups /\ b.lookup = job[w].lookup /\ b.by = w
      /\ job'[w].state = "delivered" /\ job'[w].answer = b
      /\ \A v \in Workers \ {w} : job'[v] = job[v]
      /\ fate'[job[w].lookup] = "answered"
      /\ \A l \in Lookups \ {job[w].lookup} : fate'[l] = fate[l]
      /\ \A s \in Stations : answers'[s] = IF s = t THEN Append(answers[s], b) ELSE answers[s]
      /\ UNCHANGED <<catalogs, since>>
  BY DeliverEffect
<1>2. \A v \in Workers : (Answering(v)' <=> Answering(v)) /\ job'[v].answer = job[v].answer
  BY <1>1 DEF Answering
<1>3. Held' = Held
  BY <1>2 DEF Held
<1>4. b \in Held /\ Answering(w)
  BY <1>1 DEF Held, Answering
<1>5. b.catalog \in Nat
  BY <1>1, SaidTypes
<1> HIDE DEF b, t
<1>6. Current' = Current /\ \A a : (Valid(a)' <=> Valid(a)) /\ (InTime(a)' <=> InTime(a))
  BY <1>1 DEF Current, Valid, InTime
<1>7. \A l \in Lookups : fate[l] = "answered" => fate'[l] = "answered"
  BY <1>1
<1>8. ASSUME NEW s \in Stations
      PROVE  /\ ToSet(answers'[s]) \subseteq ToSet(answers[s]) \cup {b}
             /\ \A i, j \in DOMAIN answers'[s] :
                  i < j /\ answers'[s][i].by = answers'[s][j].by =>
                    answers'[s][i].catalog <= answers'[s][j].catalog
  <2>1. CASE s # t
    BY <1>1, <2>1 DEF FreshInv
  <2>2. CASE s = t
    <3> DEFINE q == answers[s]
               r == answers'[s]
    <3>1. r = Append(q, b) /\ q \in Seq(AnswerRecords)
      BY <1>1, <2>2, StateTypes
    <3>2. \A a \in ToSet(q) : a.by = b.by => a.catalog <= b.catalog
      BY <1>1, <1>4 DEF FreshInv, b
    <3>3. \A i, j \in DOMAIN q : i < j /\ q[i].by = q[j].by => q[i].catalog <= q[j].catalog
      BY DEF FreshInv
    <3> HIDE DEF q, r
    <3>4. /\ DOMAIN r = DOMAIN q \cup {Len(q) + 1} /\ DOMAIN q = 1..Len(q) /\ Len(q) \in Nat
          /\ r[Len(q) + 1] = b /\ \A i \in DOMAIN q : r[i] = q[i] /\ q[i] \in ToSet(q)
          /\ ToSet(r) = ToSet(q) \cup {b}
      BY <1>1, <3>1, AppendFacts DEF ToSet
    <3>5. \A i, j \in DOMAIN r : i < j /\ r[i].by = r[j].by => r[i].catalog <= r[j].catalog
      BY <3>2, <3>3, <3>4
    <3> QED
      BY <3>4, <3>5 DEF q, r
  <2> QED
    BY <2>1, <2>2
<1>9. \A s \in Stations : \A a \in ToSet(answers'[s]) :
        InTime(a)' /\ Valid(a)' /\ fate'[a.lookup] = "answered"
  BY <1>1, <1>4, <1>6, <1>7, <1>8, SaidTypes DEF FreshInv
<1>10. \A v \in Workers, s \in Stations : \A a \in ToSet(answers'[s]) :
         Answering(v)' /\ a.by = v => a.catalog <= job'[v].answer.catalog
  BY <1>1, <1>2, <1>5, <1>8 DEF FreshInv, b
<1>11. \A a \in Held' : InTime(a)' /\ Valid(a)'
  BY <1>3, <1>6 DEF FreshInv
<1>12. \A l \in Lookups : since'[l] <= Current'
  BY <1>1, <1>6 DEF FreshInv
<1> QED
  BY <1>8, <1>9, <1>10, <1>11, <1>12 DEF FreshInv

LEMMA FreshStep == IInv /\ [Next]_vars => FreshInv'
<1> SUFFICES ASSUME IInv, [Next]_vars PROVE FreshInv'
  OBVIOUS
<1>0. TypeOK /\ JobInv /\ PlaceInv /\ FreshInv
  BY DEF IInv
<1>1. ASSUME NEW l \in Lookups, Ask(l) PROVE FreshInv'
  BY <1>0, <1>1, AskEffect, FreshFrame DEF Answering
<1>2. CASE InstallCatalog
  BY <1>0, <1>2, FreshInstall
<1>3. CASE Disconnect
  <2>1. \A w \in Workers : Answering(w)' => Answering(w) /\ job'[w].answer = job[w].answer
    BY <1>0, <1>3, DisconnectEffect DEF Answering
  <2>2. UNCHANGED <<catalogs, since, answers>> /\ \A l \in Lookups : fate[l] = "answered" => fate'[l] = "answered"
    BY <1>0, <1>3, DisconnectEffect
  <2> QED
    BY <1>0, <2>1, <2>2, FreshFrame
<1>4. CASE Ignore \/ Accept \/ Drop
  <2>1. PICK h \in Lookups, keeps \in BOOLEAN :
           /\ fate[h] = "sent"
           /\ keeps => since'[h] = Current
           /\ ~keeps => UNCHANGED since
           /\ \A l \in Lookups \ {h} : fate'[l] = fate[l] /\ since'[l] = since[l]
           /\ UNCHANGED <<catalogs, job, answers>>
    BY <1>0, <1>4, ReceiveEffect
  <2>2. \A l \in Lookups : fate[l] = "answered" => fate'[l] = "answered"
    BY <2>1
  <2>3. \A l \in Lookups : since'[l] = since[l] \/ (fate[l] = "sent" /\ since'[l] = Current)
    BY <2>1
  <2>4. \A w \in Workers : Answering(w)' => Answering(w) /\ job'[w].answer = job[w].answer
    BY <2>1 DEF Answering
  <2> QED
    BY <1>0, <2>1, <2>2, <2>3, <2>4, FreshFrame
<1>5. ASSUME NEW w \in Workers, Take(w) PROVE FreshInv'
  <2>1. /\ job'[w].state = "taken" /\ \A v \in Workers \ {w} : job'[v] = job[v]
        /\ UNCHANGED <<catalogs, fate, since, answers>>
    BY <1>0, <1>5, TakeEffect DEF PlaceInv
  <2>2. \A v \in Workers : Answering(v)' => Answering(v) /\ job'[v].answer = job[v].answer
    BY <2>1 DEF Answering
  <2> QED
    BY <1>0, <2>1, <2>2, FreshFrame
<1>6. ASSUME NEW w \in Workers, LookUp(w) \/ LookUpFails(w) PROVE FreshInv'
  BY <1>0, <1>6, FreshLookUp
<1>7. ASSUME NEW w \in Workers, Deliver(w) PROVE FreshInv'
  BY <1>0, <1>7, FreshDeliver
<1>8. ASSUME NEW w \in Workers, Acknowledge(w) \/ Leave(w) PROVE FreshInv'
  <2>1. /\ job'[w].state \in {"idle", "left"} /\ \A v \in Workers \ {w} : job'[v] = job[v]
        /\ UNCHANGED <<catalogs, fate, since, answers>>
    BY <1>0, <1>8, DoneEffect
  <2>2. \A v \in Workers : Answering(v)' => Answering(v) /\ job'[v].answer = job[v].answer
    BY <2>1 DEF Answering
  <2> QED
    BY <1>0, <2>1, <2>2, FreshFrame
<1>9. CASE Exit
  <2>1. \A w \in Workers : ~Answering(w)'
    BY <1>9, ExitEffect DEF Answering
  <2> QED
    BY <1>0, <1>9, <2>1, ExitEffect, FreshFrame
<1>10. CASE Reconnect \/ Signal \/ Restart \/ UNCHANGED vars
  BY <1>0, <1>10, OtherEffect, FreshFrame DEF Answering
<1> QED
  BY <1>1, <1>2, <1>3, <1>4, <1>5, <1>6, <1>7, <1>8, <1>9, <1>10 DEF Next

-----------------------------------------------------------------------------
(* How often a request is answered. *)

LEMMA CountFrame ==
  ASSUME TypeOK, CountInv, UNCHANGED <<answers, drops>>,
         \A l \in Lookups : Due(l)' => Due(l)
  PROVE  CountInv'
<1> SUFFICES ASSUME NEW s \in Stations, NEW l \in Lookups
             PROVE  Count(answers[s], l) + (IF Due(l)' THEN 1 ELSE 0) <= 1 + drops
  BY DEF CountInv
<1>1. answers[s] \in Seq(AnswerRecords) /\ drops \in Nat
  BY StateTypes
<1>2. Count(answers[s], l) \in Nat
  BY <1>1, CountType
<1>3. Count(answers[s], l) + (IF Due(l) THEN 1 ELSE 0) <= 1 + drops
  BY DEF CountInv
<1>4. CASE Due(l)'
  BY <1>3, <1>4
<1>5. CASE ~Due(l)'
  <2>1. Count(answers[s], l) <= 1 + drops
    <3>1. CASE Due(l)
      BY <1>1, <1>2, <1>3, <3>1
    <3>2. CASE ~Due(l)
      BY <1>1, <1>2, <1>3, <3>2
    <3> QED
      BY <3>1, <3>2
  <2> QED
    BY <1>2, <1>5, <2>1
<1> QED
  BY <1>4, <1>5

\* An unacknowledged answer will be sent again: one more, and one more drop.
LEMMA CountDisconnect ==
  ASSUME TypeOK, PlaceInv, CountInv, Disconnect
  PROVE  CountInv'
<1>1. answers' = answers /\ drops' = drops + 1 /\ drops \in Nat
  BY DisconnectEffect, StateTypes
<1>2. ASSUME NEW s \in Stations, NEW l \in Lookups
      PROVE  Count(answers'[s], l) + (IF Due(l)' THEN 1 ELSE 0) <= 1 + drops'
  <2>1. Count(answers[s], l) \in Nat
    BY StateTypes, CountType
  <2>2. Count(answers[s], l) + (IF Due(l) THEN 1 ELSE 0) <= 1 + drops
    BY DEF CountInv
  <2> QED
    BY <1>1, <2>1, <2>2
<1> QED
  BY <1>2 DEF CountInv

LEMMA CountDeliver ==
  ASSUME TypeOK, JobInv, PlaceInv, CountInv, NEW w \in Workers, Deliver(w)
  PROVE  CountInv'
<1> DEFINE b == job[w].answer
<1>0. PICK k \in Lookups : k = job[w].lookup
  BY DeliverEffect
<1>1. /\ job[w].state = "sending" /\ b \in AnswerRecords /\ b.lookup = k
      /\ job'[w].state = "delivered"
      /\ \A v \in Workers \ {w} : job'[v] = job[v]
      /\ fate'[k] = "answered" /\ \A l \in Lookups \ {k} : fate'[l] = fate[l]
      /\ \A s \in Stations : answers'[s] = answers[s] \/ answers'[s] = Append(answers[s], b)
      /\ drops' = drops
  <2>1. \A s \in Stations : answers'[s] = IF s = StationOf[job[w].lookup] THEN Append(answers[s], b)
                                                                         ELSE answers[s]
    BY DeliverEffect
  <2>2. \A s \in Stations : answers'[s] = answers[s] \/ answers'[s] = Append(answers[s], b)
    BY <2>1
  <2> QED
    BY <1>0, <2>2, DeliverEffect
<1>2. \A v \in Workers \ {w} : job[v].lookup # k
  BY <1>0 DEF PlaceInv, Holders
<1>3. Due(k)
  BY <1>0, <1>1 DEF Due
<1> HIDE DEF b
<1>4. ~Due(k)'
  BY <1>1, <1>2 DEF Due
<1>5. \A l \in Lookups \ {k} : Due(l)' => Due(l)
  BY <1>1 DEF Due
<1>6. ASSUME NEW s \in Stations, NEW l \in Lookups
      PROVE  Count(answers'[s], l) + (IF Due(l)' THEN 1 ELSE 0) <= 1 + drops'
  <2>1. answers[s] \in Seq(AnswerRecords) /\ drops \in Nat
    BY StateTypes
  <2>2. Count(answers[s], l) \in Nat
    BY <2>1, CountType
  <2>3. Count(answers[s], l) + (IF Due(l) THEN 1 ELSE 0) <= 1 + drops
    BY DEF CountInv
  <2>4. \/ Count(answers'[s], l) = Count(answers[s], l)
        \/ l = k /\ Count(answers'[s], l) = Count(answers[s], l) + 1
    <3>1. Count(Append(answers[s], b), l)
            = IF b.lookup = l THEN Count(answers[s], l) + 1 ELSE Count(answers[s], l)
      BY <1>1, <2>1, CountAppend
    <3>2. answers'[s] = answers[s] \/ answers'[s] = Append(answers[s], b)
      BY <1>1
    <3> QED
      BY <1>1, <3>1, <3>2
  <2>5. CASE l = k
    BY <1>1, <1>3, <1>4, <2>1, <2>2, <2>3, <2>4, <2>5
  <2>6. CASE l # k
    <3>1. Count(answers'[s], l) = Count(answers[s], l) /\ (Due(l)' => Due(l))
      BY <1>5, <2>4, <2>6
    <3>2. Count(answers[s], l) + (IF Due(l)' THEN 1 ELSE 0) <= 1 + drops
      <4>1. CASE Due(l)'
        BY <2>3, <3>1, <4>1
      <4>2. CASE ~Due(l)'
        <5>1. CASE Due(l)
          BY <2>1, <2>2, <2>3, <4>2, <5>1
        <5>2. CASE ~Due(l)
          BY <2>1, <2>2, <2>3, <4>2, <5>2
        <5> QED
          BY <5>1, <5>2
      <4> QED
        BY <4>1, <4>2
    <3> QED
      BY <1>1, <3>1, <3>2
  <2> QED
    BY <2>5, <2>6
<1> QED
  BY <1>6 DEF CountInv

LEMMA CountStep == IInv /\ [Next]_vars => CountInv'
<1> SUFFICES ASSUME IInv, [Next]_vars PROVE CountInv'
  OBVIOUS
<1>0. TypeOK /\ JobInv /\ PlaceInv /\ CountInv
  BY DEF IInv
<1>1. ASSUME NEW l \in Lookups, Ask(l) PROVE CountInv'
  <2>1. \A k \in Lookups : Due(k)' => Due(k)
    BY <1>0, <1>1, AskEffect DEF Due
  <2> QED
    BY <1>0, <1>1, <2>1, AskEffect, CountFrame
<1>2. CASE InstallCatalog
  <2>1. \A k \in Lookups : Due(k)' => Due(k)
    BY <1>0, <1>2, InstallEffect DEF Due
  <2> QED
    BY <1>0, <1>2, <2>1, InstallEffect, CountFrame
<1>3. CASE Disconnect
  BY <1>0, <1>3, CountDisconnect
<1>4. CASE Ignore \/ Accept \/ Drop
  <2>1. /\ UNCHANGED <<job, answers, drops>>
        /\ \E h \in Lookups : /\ fate[h] = "sent"
                              /\ \A l \in Lookups \ {h} : fate'[l] = fate[l]
    BY <1>0, <1>4, ReceiveEffect
  <2>2. \A k \in Lookups : Due(k)' => Due(k)
    BY <2>1 DEF Due
  <2> QED
    BY <1>0, <2>1, <2>2, CountFrame
<1>5. ASSUME NEW w \in Workers, Take(w) PROVE CountInv'
  <2>1. /\ job'[w].state = "taken" /\ \A v \in Workers \ {w} : job'[v] = job[v]
        /\ UNCHANGED <<fate, answers, drops>>
    BY <1>0, <1>5, TakeEffect DEF PlaceInv
  <2>2. \A k \in Lookups : Due(k)' => Due(k)
    BY <2>1 DEF Due
  <2> QED
    BY <1>0, <2>1, <2>2, CountFrame
<1>6. ASSUME NEW w \in Workers, LookUp(w) \/ LookUpFails(w) PROVE CountInv'
  <2>1. /\ job[w].state = "taken" /\ job'[w].lookup = job[w].lookup
        /\ \A v \in Workers \ {w} : job'[v] = job[v]
        /\ UNCHANGED <<fate, answers, drops>>
    BY <1>0, <1>6, LookUpEffect
  <2>2. fate[job[w].lookup] = "accepted"
    BY <1>0, <2>1 DEF JobInv
  <2>3. \A k \in Lookups : Due(k)' => Due(k)
    BY <2>1, <2>2 DEF Due
  <2> QED
    BY <1>0, <2>1, <2>3, CountFrame
<1>7. ASSUME NEW w \in Workers, Deliver(w) PROVE CountInv'
  BY <1>0, <1>7, CountDeliver
<1>8. ASSUME NEW w \in Workers, Acknowledge(w) \/ Leave(w) PROVE CountInv'
  <2>1. /\ job'[w].state \in {"idle", "left"} /\ \A v \in Workers \ {w} : job'[v] = job[v]
        /\ UNCHANGED <<fate, answers, drops>>
    BY <1>0, <1>8, DoneEffect
  <2>2. \A k \in Lookups : Due(k)' => Due(k)
    BY <2>1 DEF Due
  <2> QED
    BY <1>0, <2>1, <2>2, CountFrame
<1>9. CASE Exit
  <2>1. \A k \in Lookups : Due(k)' => Due(k)
    BY <1>9, ExitEffect DEF Due
  <2> QED
    BY <1>0, <1>9, <2>1, ExitEffect, CountFrame
<1>10. CASE Reconnect \/ Signal \/ Restart \/ UNCHANGED vars
  BY <1>0, <1>10, OtherEffect, CountFrame DEF Due
<1> QED
  BY <1>1, <1>2, <1>3, <1>4, <1>5, <1>6, <1>7, <1>8, <1>9, <1>10 DEF Next

-----------------------------------------------------------------------------
(* The theorems. *)

LEMMA Invariance == Spec => []IInv
<1>1. IInv /\ [Next]_vars => IInv'
  BY TypeStep, JobStep, PlaceStep, FreshStep, CountStep DEF IInv
<1> QED
  BY InitInv, <1>1, PTL DEF Spec

\* Every variable keeps its type, and the channel its capacity.
THEOREM TypeCorrect == Spec => []TypeOK
<1>1. IInv => TypeOK
  BY DEF IInv
<1> QED
  BY <1>1, Invariance, PTL

\* Whatever imports, reconnections and other workers do while a request waits for
\* its answer: lookupWorker's answer is true of a catalog that was current after
\* the request had been queued, and no worker goes back to an older catalog.
THEOREM AnswersStayFresh == Spec => []AnswersAreFresh
<1>1. IInv => AnswersAreFresh
  <2> SUFFICES ASSUME IInv PROVE AnswersAreFresh
    OBVIOUS
  <2>1. TypeOK /\ JobInv /\ FreshInv
    BY DEF IInv
  <2>2. ASSUME NEW s \in Stations, NEW a \in ToSet(answers[s])
        PROVE  a.catalog \in since[a.lookup]..Current /\ Valid(a)
    <3>1. InTime(a) /\ Valid(a) /\ a.lookup \in Lookups
      BY <2>1, SaidTypes DEF FreshInv
    <3>2. since[a.lookup] \in Nat /\ Current \in Nat
      BY <2>1, <3>1, StateTypes
    <3> QED
      BY <3>1, <3>2 DEF InTime
  <2> QED
    BY <2>1, <2>2 DEF AnswersAreFresh, FreshInv, Valid
<1> QED
  BY <1>1, Invariance, PTL

\* An accepted request is in the channel or with one worker until its answer is
\* delivered, and a station has no answer of it more often than connections broke
\* and once more, however the callback, the workers and the client interleave.
THEOREM AcceptedStaysInOnePlace == Spec => []AcceptedInOnePlace
<1>1. IInv => AcceptedInOnePlace
  <2> SUFFICES ASSUME IInv PROVE AcceptedInOnePlace
    OBVIOUS
  <2>1. TypeOK /\ PlaceInv /\ CountInv
    BY DEF IInv
  <2>2. ASSUME NEW s \in Stations, NEW l \in Lookups
        PROVE  Cardinality({i \in DOMAIN answers[s] : answers[s][i].lookup = l}) <= 1 + drops
    <3>1. answers[s] \in Seq(AnswerRecords) /\ drops \in Nat
      BY <2>1, StateTypes
    <3>2. Count(answers[s], l) \in Nat
      BY <3>1, CountType
    <3>3. Count(answers[s], l) + (IF Due(l) THEN 1 ELSE 0) <= 1 + drops
      BY <2>1 DEF CountInv
    <3>4. Count(answers[s], l) <= 1 + drops
      BY <3>1, <3>2, <3>3
    <3> QED
      BY <3>4 DEF Count
  <2> QED
    BY <2>1, <2>2 DEF AcceptedInOnePlace, PlaceInv
<1> QED
  BY <1>1, Invariance, PTL

=============================================================================

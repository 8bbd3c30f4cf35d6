------------------------- MODULE BarcodeOtaProofs --------------------------
(***************************************************************************)
(* Proofs about BarcodeOta, for any number of stations, firmwares and      *)
(* groups of any length, channels of any capacity, and any losses.         *)
(*                                                                         *)
(* A report is true when it is sent and stays so (ReportInv), because      *)
(* ota_begin comes first or never (ChannelInv).  A station reports each    *)
(* chunk once, so that a station that was waited for at a boundary has     *)
(* nothing more to say there (Settled): a wait that ends is a wait for     *)
(* something new, and the one after the end of a shortened file does not   *)
(* (WaitInv).                                                              *)
(*                                                                         *)
(* As long as nothing was lost, the stations follow the stream message by  *)
(* message and report no more than one group at a time (CalmInv).  These   *)
(* reports fit into the channel of a small fleet, so that the one that is  *)
(* waited for is not thrown away (AckInv).                                 *)
(***************************************************************************)
EXTENDS BarcodeOta, SequencesExt, FiniteSetTheorems, TLAPS

\* The reports on their way to runOTA.
Heard == ToSet(statusCh) \cup ToSet(up)

Later == {"finishing", "ok", "failed"}

ChannelInv ==
  /\ \A s \in Stations :
       /\ station[s].written <= offset
       /\ \A i \in DOMAIN down[s] :
            /\ down[s][i].type = "begin" =>
                 i = 1 /\ station[s].state = "idle" /\ station[s].written = 0
            /\ down[s][i].type = "chunk" => down[s][i].number <= offset
            /\ down[s][i].type = "finish" => phase \in Later /\ \A d \in devices : Complete(d)
       /\ In(s, "done") => phase \in Later /\ \A d \in devices : Complete(d)
       /\ phase = "begin" => down[s] = <<>> /\ station[s].state = "idle"
  /\ phase \in {"begin", "discovering"} => offset = 0

\* A report of a later chunk of the same station; "started" and "done" come once.
Follows(a, b) ==
  a.device = b.device /\ a.status = b.status =>
    /\ a.status = "chunk" => a.written < b.written
    /\ a.status \notin {"started", "done"}

ChunksRise(q) == \A i, k \in DOMAIN q : i < k => Follows(q[i], q[k])

ReportInv ==
  /\ \A r \in Heard :
       /\ r.written <= station[r.device].written
       /\ r.status = "chunk" => r.written > 0
       /\ r.status = "done" => In(r.device, "done") /\ r.written = Chunks
  /\ ChunksRise(statusCh) /\ ChunksRise(up)
  /\ \A a \in ToSet(statusCh), b \in ToSet(up) : Follows(a, b)

\* No station reports before it takes ota_begin.
BeginInv ==
  /\ phase = "begin" => Heard = {} /\ devices = {}
  /\ \A s \in Stations : down[s] # <<>> /\ Head(down[s]).type = "begin" =>
       \A r \in Heard : r.device # s

\* A station that has written all that was sent, and whose report of it was taken.
Settled(d) ==
  /\ station[d].written >= offset
  /\ \A r \in Heard : r.device = d => r.status # "chunk"

WaitInv ==
  /\ eof => offset = file
  /\ phase = "sending" => offset # Chunks
  /\ phase = "sending" /\ AtBoundary(offset) => \A d \in devices : Settled(d)
  /\ phase = "waiting" => \A d \in devices \ remaining : Settled(d)
  /\ phase = "waiting" /\ eof => \A d \in devices : Settled(d)
  /\ phase \in {"finish", "finishing", "ok"} =>
       offset = Chunks /\ \A d \in devices : Complete(d) /\ Settled(d)
  /\ phase = "finishing" => \A d \in devices \ remaining : In(d, "done")
  /\ phase = "ok" => \A d \in devices : In(d, "done")

\* Somebody is waited for.
SomeoneInv ==
  /\ phase \in {"sending", "waiting", "finish", "finishing"} => devices # {}
  /\ phase \in {"waiting", "finishing"} => remaining # {}

\* The chunks since the last boundary, this one not counted.
Width(n) == IF n % Group = 0 THEN Group ELSE n % Group

\* Nobody who is waited for is more than a group behind what was sent.
LagInv == \A m \in devices : station[m].written + Width(offset) >= offset

\* During the window nothing but ota_begin is on its way, and who has reported
\* "started" is receiving.
OpenInv ==
  phase = "discovering" =>
    /\ \A s \in Stations : \A i \in DOMAIN down[s] : down[s][i].type = "begin"
    /\ \A r \in Heard : r.status = "started" => In(r.device, "receiving")

Calm == troubles = 0 /\ phase # "failed"

\* A station before and after ota_begin, in the middle of the stream, and at its end.
Waits(s) ==
  \/ In(s, "idle") /\ down[s] = <<Control("begin")>> /\ s \notin devices
  \/ In(s, "receiving") /\ down[s] = <<>>

Streams(s) ==
  /\ In(s, "receiving") /\ Len(down[s]) + station[s].written = offset
  /\ station[s].written + Width(offset) >= offset
  /\ \A i \in DOMAIN down[s] : /\ down[s][i].type = "chunk"
                               /\ down[s][i].number = station[s].written + i

Ends(s) ==
  \/ In(s, "receiving") /\ down[s] = <<Control("finish")>>
  \/ In(s, "done") /\ down[s] = <<>>

CalmInv ==
  Calm =>
    /\ phase = "discovering" =>
         /\ \A s \in Stations : Waits(s)
         /\ \A r \in Heard : r.status = "started" /\ r.device \notin devices
    /\ phase \in {"sending", "waiting", "finish"} => \A s \in devices : Streams(s)
    /\ phase = "finishing" => \A s \in devices : Ends(s)
    /\ phase \in {"sending", "waiting", "finish", "finishing"} =>
         \A r \in Heard : r.device \in devices =>
           /\ r.status \in {"chunk", "done"}
           /\ r.status = "chunk" => r.written + Width(offset) > offset

\* A station that has what it is waited for has said so, and will be heard.
AckInv ==
  Calm /\ SmallFleet =>
    /\ phase = "waiting" => \A s \in remaining :
         station[s].written = offset =>
           \E r \in Heard : r.device = s /\ r.status = "chunk" /\ r.written = offset
    /\ phase = "finishing" => \A s \in remaining :
         In(s, "done") => \E r \in Heard : r.device = s /\ r.status = "done"

IInv ==
  /\ TypeOK /\ ChannelInv /\ ReportInv /\ BeginInv
  /\ WaitInv /\ SomeoneInv /\ LagInv /\ OpenInv /\ CalmInv /\ AckInv

MobctlStep ==
  \/ PublishBegin \/ Discover \/ WindowCloses \/ PublishChunk \/ ReadEOF
  \/ PublishFinish \/ PublishFails \/ SkipReport \/ TakeAck \/ TakeFailure \/ Timeout
  \/ Interrupt

\* What a step of mobctl may send, and to whom.
Sends(m) == \A s \in Stations : down'[s] = down[s] \/ down'[s] = Append(down[s], m)

-----------------------------------------------------------------------------
(* Sequences. *)

LEMMA AppendFacts ==
  ASSUME NEW S, NEW q \in Seq(S), NEW e \in S
  PROVE  /\ Append(q, e) \in Seq(S) /\ Len(Append(q, e)) = Len(q) + 1
         /\ DOMAIN Append(q, e) = DOMAIN q \cup {Len(q) + 1}
         /\ DOMAIN q = 1..Len(q) /\ Len(q) \in Nat
         /\ ToSet(Append(q, e)) = ToSet(q) \cup {e}
         /\ Append(q, e)[Len(q) + 1] = e
         /\ \A i \in DOMAIN q : Append(q, e)[i] = q[i]
<1>1. /\ Append(q, e) \in Seq(S) /\ DOMAIN Append(q, e) = DOMAIN q \cup {Len(q) + 1}
      /\ DOMAIN q = 1..Len(q) /\ Len(q) \in Nat
      /\ \A i \in DOMAIN q : Append(q, e)[i] = q[i]
      /\ Append(q, e)[Len(q) + 1] = e
      /\ Len(Append(q, e)) = Len(q) + 1
  OBVIOUS
<1> QED
  BY <1>1 DEF ToSet

LEMMA TailFacts ==
  ASSUME NEW S, NEW q \in Seq(S), q # <<>>
  PROVE  /\ Head(q) \in S /\ Head(q) = q[1] /\ 1 \in DOMAIN q
         /\ Tail(q) \in Seq(S) /\ Len(Tail(q)) = Len(q) - 1 /\ Len(q) \in Nat \ {0}
         /\ \A i \in DOMAIN Tail(q) :
              i \in Nat \ {0} /\ i + 1 \in DOMAIN q /\ Tail(q)[i] = q[i + 1]
         /\ ToSet(q) = {Head(q)} \cup ToSet(Tail(q))
<1>1. /\ Head(q) \in S /\ Tail(q) \in Seq(S) /\ Len(Tail(q)) = Len(q) - 1
      /\ Head(q) = q[1] /\ Len(q) \in Nat \ {0} /\ DOMAIN q = 1..Len(q)
      /\ \A i \in 1..Len(q) - 1 : Tail(q)[i] = q[i + 1]
      /\ DOMAIN Tail(q) = 1..Len(q) - 1
  OBVIOUS
<1>2. ASSUME NEW x \in ToSet(q) PROVE x \in {Head(q)} \cup ToSet(Tail(q))
  <2>1. PICK i \in 1..Len(q) : x = q[i]
    BY <1>1 DEF ToSet
  <2>2. CASE i = 1
    BY <1>1, <2>1, <2>2
  <2>3. CASE i # 1
    <3>1. i - 1 \in 1..Len(q) - 1 /\ Tail(q)[i - 1] = q[i]
      BY <1>1, <2>3
    <3> QED
      BY <1>1, <2>1, <3>1 DEF ToSet
  <2> QED
    BY <2>2, <2>3
<1>3. ASSUME NEW x \in {Head(q)} \cup ToSet(Tail(q)) PROVE x \in ToSet(q)
  BY <1>1 DEF ToSet
<1> QED
  BY <1>1, <1>2, <1>3

\* A report that follows all there are can be appended.
LEMMA RisesAppend ==
  ASSUME NEW q \in Seq(Reports), NEW e \in Reports, ChunksRise(q),
         \A a \in ToSet(q) : Follows(a, e)
  PROVE  ChunksRise(Append(q, e))
<1> SUFFICES ASSUME NEW i \in DOMAIN Append(q, e), NEW k \in DOMAIN Append(q, e), i < k
             PROVE  Follows(Append(q, e)[i], Append(q, e)[k])
  BY DEF ChunksRise
<1>1. DOMAIN q = 1..Len(q) /\ Len(q) \in Nat /\ i \in DOMAIN q
  BY AppendFacts
<1>2. CASE k \in DOMAIN q
  BY <1>1, <1>2, AppendFacts DEF ChunksRise
<1>3. CASE k = Len(q) + 1
  <2>1. q[i] \in ToSet(q)
    BY <1>1 DEF ToSet
  <2> QED
    BY <1>1, <1>3, <2>1, AppendFacts
<1> QED
  BY <1>2, <1>3, AppendFacts

\* The head of a sequence is followed by the others.
LEMMA RisesTail ==
  ASSUME NEW q \in Seq(Reports), q # <<>>, ChunksRise(q)
  PROVE  ChunksRise(Tail(q)) /\ \A b \in ToSet(Tail(q)) : Follows(Head(q), b)
<1>1. ChunksRise(Tail(q))
  BY TailFacts DEF ChunksRise
<1>2. ASSUME NEW b \in ToSet(Tail(q)) PROVE Follows(Head(q), b)
  <2>1. PICK i \in DOMAIN Tail(q) : b = Tail(q)[i]
    BY DEF ToSet
  <2>2. i \in Nat \ {0} /\ i + 1 \in DOMAIN q /\ b = q[i + 1] /\ Head(q) = q[1] /\ 1 \in DOMAIN q
    BY <2>1, TailFacts
  <2>3. 1 < i + 1
    BY <2>2
  <2> QED
    BY <2>2, <2>3 DEF ChunksRise
<1> QED
  BY <1>1, <1>2

-----------------------------------------------------------------------------
(* What the steps do. *)

LEMMA CastFacts ==
  ASSUME TypeOK, NEW m \in Messages, Cast(m)
  PROVE  /\ Sends(m)
         /\ troubles' \in 0..MaxTroubles /\ troubles <= troubles'
         /\ down' \in [Stations -> Seq(Messages)]
<1>1. PICK missing \in SUBSET Stations :
        /\ troubles + Cardinality(missing) <= MaxTroubles
        /\ troubles' = troubles + Cardinality(missing)
        /\ down' = [s \in Stations |-> IF s \in missing THEN down[s] ELSE Append(down[s], m)]
  BY DEF Cast
<1>2. Cardinality(missing) \in Nat
  BY OtaAssumption, FS_Subset, FS_CardinalityType DEF OtaAssumption
<1>3. troubles' \in 0..MaxTroubles /\ troubles <= troubles'
  BY <1>1, <1>2, OtaAssumption DEF TypeOK, OtaAssumption
<1>4. ASSUME NEW s \in Stations PROVE down[s] \in Seq(Messages) /\ Append(down[s], m) \in Seq(Messages)
  BY DEF TypeOK
<1> QED
  BY <1>1, <1>3, <1>4 DEF Sends

LEMMA ControlTypes ==
  \A type \in {"begin", "finish", "abort"} :
    Control(type) \in Messages /\ Control(type).type = type
BY DEF Control, Messages

\* What a step of mobctl publishes, if it does, fits its phase.
SendsInPhase(m) ==
  /\ Sends(m) /\ down' \in [Stations -> Seq(Messages)]
  /\ troubles' \in 0..MaxTroubles /\ troubles <= troubles'
  /\ m.type = "begin" => phase = "begin"
  /\ m.type = "chunk" => m.number <= offset'
  /\ m.type = "finish" => phase = "finish" /\ phase' = "finishing"

LEMMA AbortFits ==
  ASSUME TypeOK, Cast(Control("abort")) \/ UNCHANGED <<down, troubles>>
  PROVE  \E m \in Messages : SendsInPhase(m)
<1>1. Control("abort") \in Messages /\ Control("abort").type = "abort"
  BY ControlTypes
<1>2. Sends(Control("abort")) /\ troubles' \in 0..MaxTroubles /\ troubles <= troubles' /\ down' \in [Stations -> Seq(Messages)]
  <2>1. CASE Cast(Control("abort"))
    BY <1>1, <2>1, CastFacts
  <2>2. CASE UNCHANGED <<down, troubles>>
    BY <2>2, OtaAssumption DEF TypeOK, Sends, OtaAssumption
  <2> QED
    BY <2>1, <2>2
<1> QED
  BY <1>1, <1>2 DEF SendsInPhase

LEMMA MobctlSends ==
  ASSUME TypeOK, MobctlStep
  PROVE  \E m \in Messages : SendsInPhase(m)
<1>1. CASE PublishBegin
  <2>1. Control("begin") \in Messages /\ Control("begin").type = "begin"
    BY ControlTypes
  <2>2. Cast(Control("begin")) /\ phase = "begin"
    BY <1>1 DEF PublishBegin
  <2> QED
    BY <2>1, <2>2, CastFacts DEF SendsInPhase
<1>2. CASE PublishChunk
  <2> DEFINE m == [type |-> "chunk", number |-> offset']
  <2>1. offset' \in 1..Chunks
    BY <1>2, OtaAssumption DEF PublishChunk, TypeOK, OtaAssumption
  <2>2. m \in Messages /\ m.type = "chunk" /\ m.number = offset'
    BY <2>1 DEF Messages
  <2>3. Cast(m)
    BY <1>2 DEF PublishChunk
  <2>4. m.number <= offset'
    BY <2>1, <2>2
  <2> HIDE DEF m
  <2>5. Sends(m) /\ troubles' \in 0..MaxTroubles /\ troubles <= troubles' /\ down' \in [Stations -> Seq(Messages)]
    BY <2>2, <2>3, CastFacts
  <2> QED
    BY <2>2, <2>4, <2>5 DEF SendsInPhase
<1>3. CASE PublishFinish
  <2>1. Control("finish") \in Messages /\ Control("finish").type = "finish"
    BY ControlTypes
  <2>2. Cast(Control("finish")) /\ phase = "finish" /\ phase' = "finishing"
    BY <1>3 DEF PublishFinish
  <2> QED
    BY <2>1, <2>2, CastFacts DEF SendsInPhase
<1>4. CASE PublishFails
  <2>1. CASE phase = "sending"
    BY <1>4, <2>1, AbortFits DEF PublishFails
  <2>2. CASE phase # "sending"
    <3>1. Control("abort") \in Messages /\ Control("abort").type = "abort"
      BY ControlTypes
    <3>2. troubles' \in 0..MaxTroubles /\ troubles <= troubles' /\ UNCHANGED down
      BY <1>4, <2>2, OtaAssumption DEF PublishFails, TypeOK, OtaAssumption
    <3> QED
      BY <3>1, <3>2 DEF SendsInPhase, Sends, TypeOK
  <2> QED
    BY <2>1, <2>2
<1>5. CASE Interrupt
  <2>1. Control("abort") \in Messages /\ Control("abort").type = "abort"
    BY ControlTypes
  <2>2. troubles' \in 0..MaxTroubles /\ troubles <= troubles' /\ UNCHANGED down
    BY <1>5, OtaAssumption DEF Interrupt, TypeOK, OtaAssumption
  <2> QED
    BY <2>1, <2>2 DEF SendsInPhase, Sends, TypeOK
<1>6. CASE Discover \/ WindowCloses \/ ReadEOF \/ SkipReport \/ TakeAck \/ TakeFailure \/ Timeout
  <2>1. Cast(Control("abort")) \/ UNCHANGED <<down, troubles>>
    BY <1>6 DEF Discover, WindowCloses, ReadEOF, SkipReport, TakeAck, TakeFailure, Timeout, GiveUp
  <2> QED
    BY <2>1, AbortFits
<1> QED
  BY <1>1, <1>2, <1>3, <1>4, <1>5, <1>6 DEF MobctlStep

\* Where a step of mobctl leads, and what it leaves alone.
LEMMA MobctlMoves ==
  ASSUME TypeOK, MobctlStep
  PROVE  /\ UNCHANGED <<file, up, station>>
         /\ statusCh' = statusCh \/ (statusCh # <<>> /\ statusCh' = Tail(statusCh))
         /\ offset' \in 0..Chunks /\ offset <= offset'
         /\ phase' # "begin"
         /\ phase' = "discovering" => phase \in {"begin", "discovering"} /\ offset' = offset
         /\ phase \in Later => phase' \in Later
         /\ phase = "failed" => phase' = "failed"
         /\ phase # "discovering" => devices' = devices
<1>1. CASE PublishChunk
  BY <1>1, OtaAssumption DEF PublishChunk, TypeOK, OtaAssumption, Later, fileVars
<1>2. CASE PublishBegin \/ WindowCloses \/ PublishFails \/ Timeout \/ Interrupt
  BY <1>2 DEF PublishBegin, WindowCloses, PublishFails, Timeout, Interrupt, GiveUp, Goto, TypeOK,
     Later, fileVars
<1>3. CASE Discover \/ TakeFailure
  BY <1>3 DEF Discover, TakeFailure, GiveUp, Goto, Waiting, TypeOK, Later, fileVars
<1>4. CASE ReadEOF \/ PublishFinish
  BY <1>4 DEF ReadEOF, PublishFinish, TypeOK, Later, fileVars
<1>5. CASE SkipReport \/ TakeAck
  BY <1>5 DEF SkipReport, TakeAck, Waiting, ctlVars, TypeOK, Later, fileVars
<1> QED
  BY <1>1, <1>2, <1>3, <1>4, <1>5 DEF MobctlStep

\* What mobctl knows keeps its type.
LEMMA MobctlTypes ==
  ASSUME TypeOK, MobctlStep
  PROVE  TypeOK'
<1>1. eof' \in BOOLEAN
  <2>1. eof' = eof \/ eof' = TRUE
    BY DEF MobctlStep, PublishBegin, Discover, WindowCloses, PublishChunk, ReadEOF, PublishFinish,
       PublishFails, SkipReport, TakeAck, TakeFailure, Timeout, Interrupt, GiveUp, Goto, ctlVars,
       fileVars
  <2> QED
    BY <2>1, Zenon DEF TypeOK
<1>2. phase' \in {"begin", "discovering", "sending", "waiting", "finish", "finishing", "ok", "failed"}
  BY DEF MobctlStep, PublishBegin, Discover, WindowCloses, PublishChunk, ReadEOF, PublishFinish,
     PublishFails, SkipReport, TakeAck, TakeFailure, Timeout, Interrupt, GiveUp, Goto, ctlVars,
     TypeOK
<1>3. statusCh # <<>> => /\ Head(statusCh) \in Reports /\ Head(statusCh).device \in Stations
                         /\ Tail(statusCh) \in Seq(Reports) /\ Len(Tail(statusCh)) = Len(statusCh) - 1
                         /\ Len(statusCh) \in Nat
  <2>1. statusCh \in Seq(Reports)
    BY DEF TypeOK
  <2>2. \A r \in Reports : r.device \in Stations
    BY DEF Reports
  <2> HIDE DEF Reports
  <2> QED
    BY <2>1, <2>2, TailFacts
<1>4. remaining' \subseteq devices' /\ devices' \subseteq Stations
  <2>1. CASE Discover
    BY <1>3, <2>1 DEF Discover, Goto, TypeOK
  <2>2. CASE TakeAck
    BY <2>2 DEF TakeAck, TypeOK
  <2>3. CASE ~Discover /\ ~TakeAck
    <3>1. devices' = devices /\ (remaining' = remaining \/ remaining' = devices)
      BY <2>3 DEF MobctlStep, PublishBegin, WindowCloses, PublishChunk, ReadEOF, PublishFinish,
         PublishFails, SkipReport, TakeFailure, Timeout, Interrupt, GiveUp, Goto, ctlVars
    <3> QED
      BY <3>1 DEF TypeOK
  <2> QED
    BY <2>1, <2>2, <2>3
<1>5. statusCh' \in Seq(Reports) /\ Len(statusCh') <= StatusCap
  <2>1. statusCh' = statusCh \/ (statusCh # <<>> /\ statusCh' = Tail(statusCh))
    BY MobctlMoves
  <2>2. statusCh \in Seq(Reports) /\ Len(statusCh) <= StatusCap /\ StatusCap \in Nat
    BY OtaAssumption DEF TypeOK, OtaAssumption
  <2> QED
    BY <1>3, <2>1, <2>2
<1>6. PICK m \in Messages : SendsInPhase(m)
  BY MobctlSends
<1>7. down' \in [Stations -> Seq(Messages)] /\ troubles' \in 0..MaxTroubles
  BY <1>6 DEF SendsInPhase
<1>8. offset' \in 0..Chunks /\ file' = file /\ up' = up /\ station' = station
  BY MobctlMoves
<1> QED
  BY <1>1, <1>2, <1>4, <1>5, <1>7, <1>8 DEF TypeOK

StationStates == {"idle", "receiving", "done", "failed"}

Statuses == {"started", "anonymous", "begin_failed", "chunk", "bad_chunk", "chunk_failed",
             "done", "bad_finish", "finish_failed"}

\* The head of the channel is taken, and only this station changes.
Takes(s) ==
  /\ UNCHANGED <<ctlVars, statusCh>>
  /\ down[s] # <<>> /\ down'[s] = Tail(down[s])
  /\ \A t \in Stations \ {s} : down'[t] = down[t] /\ station'[t] = station[t]
  /\ down' \in [Stations -> Seq(Messages)]
  /\ station' \in [Stations -> [state : StationStates, written : 0..Chunks]]
  /\ troubles' \in 0..MaxTroubles /\ troubles <= troubles'

LEMMA TakesDown ==
  ASSUME TypeOK, NEW s \in Stations, down[s] # <<>>,
         down' = [down EXCEPT ![s] = Tail(@)]
  PROVE  /\ down'[s] = Tail(down[s]) /\ down' \in [Stations -> Seq(Messages)]
         /\ \A t \in Stations \ {s} : down'[t] = down[t]
<1>1. down[s] \in Seq(Messages) /\ down \in [Stations -> Seq(Messages)]
  BY DEF TypeOK
<1>2. Tail(down[s]) \in Seq(Messages)
  BY <1>1, TailFacts
<1> QED
  BY <1>1, <1>2

\* What Take does.
Took(s, type, state, written, status) ==
  /\ Takes(s) /\ Head(down[s]).type = type
  /\ station'[s].state = state /\ station'[s].written = written
  /\ \/ up' = up
     \/ \E r \in Reports : up' = Append(up, r) /\ r.device = s /\ r.status = status /\ r.written = written

LEMMA TakeEffect ==
  ASSUME TypeOK, NEW s \in Stations, NEW type, NEW state \in StationStates,
         NEW written \in 0..Chunks, NEW status \in Statuses, NEW cost \in Nat,
         Take(s, type, state, written, status, cost)
  PROVE  Took(s, type, state, written, status)
<1>1. /\ down[s] # <<>> /\ Head(down[s]).type = type /\ UNCHANGED <<ctlVars, statusCh>>
      /\ down' = [down EXCEPT ![s] = Tail(@)]
      /\ station' = [station EXCEPT ![s] = [state |-> state, written |-> written]]
  BY DEF Take
<1>2. /\ down'[s] = Tail(down[s]) /\ down' \in [Stations -> Seq(Messages)]
      /\ \A t \in Stations \ {s} : down'[t] = down[t]
  BY <1>1, TakesDown
<1>3. /\ station'[s].state = state /\ station'[s].written = written
      /\ \A t \in Stations \ {s} : station'[t] = station[t]
      /\ station' \in [Stations -> [state : StationStates, written : 0..Chunks]]
  BY <1>1 DEF TypeOK, StationStates
<1>4. PICK missing \in 0..1 :
        /\ troubles + cost + missing <= MaxTroubles
        /\ troubles' = troubles + cost + missing
        /\ up' = IF missing = 1 THEN up
                 ELSE Append(up, [device |-> s, status |-> status, written |-> written])
  BY DEF Take
<1>5. troubles' \in 0..MaxTroubles /\ troubles <= troubles'
  BY <1>4, OtaAssumption DEF TypeOK, OtaAssumption
<1>6. \/ up' = up
      \/ \E r \in Reports :
           /\ up' = Append(up, r)
           /\ r.device = s /\ r.status = status /\ r.written = written
  <2> DEFINE r == [device |-> s, status |-> status, written |-> written]
  <2>1. r \in Reports /\ r.device = s /\ r.status = status /\ r.written = written
    BY DEF Reports, Statuses
  <2>2. up' = up \/ up' = Append(up, r)
    BY <1>4
  <2> HIDE DEF r
  <2> QED
    BY <2>1, <2>2
<1> QED
  BY <1>1, <1>2, <1>3, <1>5, <1>6 DEF Takes, Took

\* What a station does with a message: it never forgets what it has written, is
\* never done without all of it, and reports what it has.
StationMoves(s) ==
  /\ station[s].written <= station'[s].written /\ station'[s].written <= offset
  /\ In(s, "done") => station'[s].state = "done"
  /\ station'[s].state = "done" => In(s, "done") \/ Head(down[s]).type = "finish"
  /\ \/ up' = up
     \/ \E r \in Reports :
          /\ up' = Append(up, r) /\ r.device = s /\ r.written = station'[s].written
          /\ r.status = "started" => Head(down[s]).type = "begin"
          /\ r.status = "done" => station'[s].state = "done" /\ ~In(s, "done") /\ r.written = Chunks
          /\ r.status = "chunk" => r.written = station[s].written + 1

LEMMA StationEffect ==
  ASSUME TypeOK, ChannelInv, NEW s \in Stations, StationStep(s)
  PROVE  Takes(s) /\ StationMoves(s)
<1> DEFINE written == station[s].written
<1>1. /\ station[s].state \in StationStates /\ written \in 0..Chunks
      /\ Chunks \in Nat \ {0} /\ offset \in 0..Chunks /\ written <= offset
  BY OtaAssumption DEF TypeOK, ChannelInv, StationStates, OtaAssumption
<1> HIDE DEF written
<1>2. down[s] # <<>> => /\ 1 \in DOMAIN down[s] /\ Head(down[s]) = down[s][1]
                        /\ Head(down[s]) \in Messages
  <2>1. down[s] \in Seq(Messages)
    BY DEF TypeOK
  <2> QED
    BY <2>1, TailFacts
<1>3. down[s] # <<>> => /\ Head(down[s]).type = "begin" => written = 0
                        /\ Head(down[s]).type = "chunk" => Head(down[s]).number <= offset
  BY <1>2 DEF ChannelInv, written
<1>4. /\ "receiving" \in StationStates /\ "done" \in StationStates /\ "failed" \in StationStates
      /\ "started" \in Statuses /\ "begin_failed" \in Statuses /\ "anonymous" \in Statuses
      /\ "chunk" \in Statuses /\ "chunk_failed" \in Statuses /\ "bad_chunk" \in Statuses
      /\ "done" \in Statuses /\ "finish_failed" \in Statuses /\ "bad_finish" \in Statuses
      /\ 0 \in 0..Chunks /\ 0 \in Nat /\ 1 \in Nat
  BY <1>1 DEF StationStates, Statuses
<1>5. ASSUME StationBegins(s) PROVE Takes(s) /\ StationMoves(s)
  <2>1. In(s, "idle")
    BY <1>5 DEF StationBegins
  <2>2. PICK state \in {"receiving", "failed"}, status \in {"started", "begin_failed", "anonymous"},
             cost \in {0, 1} : Take(s, "begin", state, 0, status, cost)
    BY <1>5 DEF StationBegins
  <2>3. state \in StationStates /\ status \in Statuses /\ cost \in Nat
    BY <1>4
  <2>4. Took(s, "begin", state, 0, status)
    BY <1>4, <2>2, <2>3, TakeEffect
  <2>5. written = 0
    BY <1>3, <2>4 DEF Took, Takes
  <2> QED
    BY <1>1, <2>1, <2>4, <2>5 DEF StationMoves, Took, In, written
<1>6. ASSUME StationWrites(s) PROVE Takes(s) /\ StationMoves(s)
  <2>1. In(s, "receiving") /\ down[s] # <<>>
    BY <1>6 DEF StationWrites, written
  <2>2. CASE Head(down[s]).number = written + 1 /\ Take(s, "chunk", "receiving", written + 1, "chunk", 0)
    <3>1. Head(down[s]).type = "chunk"
      BY <2>2 DEF Take
    <3>2. written + 1 \in 0..Chunks /\ written + 1 <= offset
      BY <1>1, <1>3, <2>1, <2>2, <3>1
    <3>3. Took(s, "chunk", "receiving", written + 1, "chunk")
      BY <1>4, <2>2, <3>2, TakeEffect
    <3> QED
      BY <1>1, <2>1, <3>2, <3>3 DEF StationMoves, Took, In, written
  <2>3. CASE \E status \in {"chunk_failed", "bad_chunk"}, cost \in {0, 1} :
                Take(s, "chunk", "failed", written, status, cost)
    <3>1. PICK status \in {"chunk_failed", "bad_chunk"}, cost \in {0, 1} :
                Take(s, "chunk", "failed", written, status, cost)
      BY <2>3
    <3>2. status \in Statuses /\ cost \in Nat
      BY <1>4
    <3>3. Took(s, "chunk", "failed", written, status)
      BY <1>1, <1>4, <3>1, <3>2, TakeEffect
    <3> QED
      BY <1>1, <2>1, <3>3 DEF StationMoves, Took, In, written
  <2> QED
    BY <1>6, <2>2, <2>3 DEF StationWrites, written
<1>7. ASSUME StationFinishes(s) PROVE Takes(s) /\ StationMoves(s)
  <2>1. In(s, "receiving")
    BY <1>7 DEF StationFinishes
  <2>2. CASE written = Chunks /\ Take(s, "finish", "done", written, "done", 0)
    <3>1. Took(s, "finish", "done", written, "done")
      BY <1>1, <1>4, <2>2, TakeEffect
    <3> QED
      BY <1>1, <2>1, <2>2, <3>1 DEF StationMoves, Took, In, written
  <2>3. CASE \E status \in {"bad_finish", "finish_failed"}, cost \in {0, 1} :
                Take(s, "finish", "failed", written, status, cost)
    <3>1. PICK status \in {"bad_finish", "finish_failed"}, cost \in {0, 1} :
                Take(s, "finish", "failed", written, status, cost)
      BY <2>3
    <3>2. status \in Statuses /\ cost \in Nat
      BY <1>4
    <3>3. Took(s, "finish", "failed", written, status)
      BY <1>1, <1>4, <3>1, <3>2, TakeEffect
    <3> QED
      BY <1>1, <2>1, <3>3 DEF StationMoves, Took, In, written
  <2> QED
    BY <1>7, <2>2, <2>3 DEF StationFinishes, written
<1>8. ASSUME StationIgnores(s) PROVE Takes(s) /\ StationMoves(s)
  <2>1. /\ down[s] # <<>> /\ down' = [down EXCEPT ![s] = Tail(@)]
        /\ station' = [station EXCEPT ![s].state =
                         IF Head(down[s]).type = "abort" /\ @ = "receiving" THEN "idle" ELSE @]
        /\ UNCHANGED <<ctlVars, statusCh, up, troubles>>
    BY <1>8 DEF StationIgnores
  <2>2. /\ down'[s] = Tail(down[s]) /\ down' \in [Stations -> Seq(Messages)]
        /\ \A t \in Stations \ {s} : down'[t] = down[t]
    BY <2>1, TakesDown
  <2>3. /\ \A t \in Stations \ {s} : station'[t] = station[t]
        /\ station' \in [Stations -> [state : StationStates, written : 0..Chunks]]
        /\ station'[s].written = written
        /\ station'[s].state = "done" <=> station[s].state = "done"
    BY <2>1 DEF TypeOK, StationStates, written
  <2>4. Takes(s)
    <3>1. troubles' \in 0..MaxTroubles /\ troubles <= troubles'
      BY <2>1, OtaAssumption DEF TypeOK, OtaAssumption
    <3> QED
      BY <2>1, <2>2, <2>3, <3>1 DEF Takes
  <2> QED
    BY <1>1, <2>1, <2>3, <2>4 DEF StationMoves, Took, In, written
<1> QED
  BY <1>5, <1>6, <1>7, <1>8 DEF StationStep

-----------------------------------------------------------------------------
(* Each part of the invariant is kept. *)

LEMMA CallbackEffect ==
  ASSUME TypeOK, Callback
  PROVE  /\ UNCHANGED <<ctlVars, down, station, troubles>>
         /\ up # <<>> /\ Head(up) \in Reports /\ up' = Tail(up) /\ up' \in Seq(Reports)
         /\ ToSet(up) = {Head(up)} \cup ToSet(up')
         /\ statusCh' = statusCh \/ statusCh' = Append(statusCh, Head(up))
         /\ statusCh' \in Seq(Reports) /\ Len(statusCh') <= StatusCap
<1>1. up \in Seq(Reports) /\ up # <<>> /\ statusCh \in Seq(Reports) /\ StatusCap \in Nat
      /\ Len(statusCh) <= StatusCap
  BY OtaAssumption DEF TypeOK, Callback, OtaAssumption
<1>2. /\ Head(up) \in Reports /\ Tail(up) \in Seq(Reports)
      /\ ToSet(up) = {Head(up)} \cup ToSet(Tail(up))
  BY <1>1, TailFacts
<1>3. /\ Append(statusCh, Head(up)) \in Seq(Reports) /\ Len(statusCh) \in Nat
      /\ Len(Append(statusCh, Head(up))) = Len(statusCh) + 1
  BY <1>1, <1>2, AppendFacts
<1>4. /\ UNCHANGED <<ctlVars, down, station, troubles>> /\ up' = Tail(up)
      /\ statusCh' = IF Len(statusCh) < StatusCap THEN Append(statusCh, Head(up)) ELSE statusCh
  BY DEF Callback
<1>5. statusCh' \in Seq(Reports) /\ Len(statusCh') <= StatusCap
  <2>1. CASE Len(statusCh) < StatusCap
    BY <1>1, <1>3, <1>4, <2>1
  <2>2. CASE ~(Len(statusCh) < StatusCap)
    BY <1>1, <1>4, <2>2
  <2> QED
    BY <2>1, <2>2
<1> QED
  BY <1>1, <1>2, <1>4, <1>5

LEMMA TypeStep ==
  ASSUME TypeOK, ChannelInv, [Next]_vars
  PROVE  TypeOK'
<1>1. CASE MobctlStep
  BY <1>1, MobctlTypes
<1>2. CASE Callback
  BY <1>2, CallbackEffect DEF TypeOK, ctlVars, fileVars
<1>3. CASE \E s \in Stations : StationStep(s)
  <2>1. PICK s \in Stations : StationStep(s)
    BY <1>3
  <2>2. Takes(s) /\ StationMoves(s)
    BY <2>1, StationEffect
  <2>3. up' \in Seq(Reports)
    <3>1. up \in Seq(Reports) /\ (up' = up \/ \E r \in Reports : up' = Append(up, r))
      BY <2>2 DEF StationMoves, TypeOK
    <3> QED
      BY <3>1, AppendFacts
  <2> QED
    BY <2>2, <2>3 DEF Takes, TypeOK, StationStates, ctlVars, fileVars
<1>4. CASE UNCHANGED vars
  BY <1>4 DEF TypeOK, vars, ctlVars, fileVars
<1> QED
  BY <1>1, <1>2, <1>3, <1>4 DEF Next, MobctlStep

\* A message that was put into a channel by mobctl.
LEMMA SentMessage ==
  ASSUME TypeOK, NEW m \in Messages, Sends(m), NEW s \in Stations,
         NEW i \in DOMAIN down'[s]
  PROVE  \/ i \in DOMAIN down[s] /\ down'[s][i] = down[s][i]
         \/ i = Len(down[s]) + 1 /\ down'[s][i] = m
<1>1. down[s] \in Seq(Messages)
  BY DEF TypeOK
<1> QED
  BY <1>1, AppendFacts DEF Sends

LEMMA ChannelMobctl ==
  ASSUME TypeOK, ChannelInv, WaitInv, MobctlStep
  PROVE  ChannelInv'
<1>1. PICK m \in Messages : SendsInPhase(m)
  BY MobctlSends
<1>2. /\ UNCHANGED <<file, up, station>>
      /\ offset' \in 0..Chunks /\ offset \in 0..Chunks /\ offset <= offset' /\ Chunks \in Nat
      /\ phase' # "begin"
      /\ phase' = "discovering" => phase \in {"begin", "discovering"} /\ offset' = offset
      /\ phase \in Later => phase' \in Later
      /\ phase # "discovering" => devices' = devices
  BY MobctlMoves, OtaAssumption DEF TypeOK, OtaAssumption
<1>3. phase \in Later => devices' = devices
  BY <1>2 DEF Later
<1>4. phase' \in {"begin", "discovering"} => offset' = 0
  BY <1>2 DEF ChannelInv
<1>5. ASSUME NEW s \in Stations PROVE station'[s].written <= offset'
  <2>1. station[s].written \in 0..Chunks /\ station[s].written <= offset
    BY DEF TypeOK, ChannelInv
  <2> QED
    BY <1>2, <2>1
<1>6. ASSUME NEW s \in Stations, NEW i \in DOMAIN down'[s]
      PROVE  /\ down'[s][i].type = "begin" =>
                  i = 1 /\ station'[s].state = "idle" /\ station'[s].written = 0
             /\ down'[s][i].type = "chunk" => down'[s][i].number <= offset'
             /\ down'[s][i].type = "finish" => phase' \in Later /\ \A d \in devices' : Complete(d)'
  <2>1. CASE i \in DOMAIN down[s] /\ down'[s][i] = down[s][i]
    <3>1. down[s][i].type = "chunk" => down[s][i].number \in 0..Chunks
      <4>1. down[s][i] \in Messages
        BY <2>1 DEF TypeOK
      <4> QED
        BY <4>1, OtaAssumption DEF Messages, OtaAssumption
    <3> QED
      BY <1>2, <1>3, <2>1, <3>1 DEF ChannelInv, Complete
  <2>2. CASE i = Len(down[s]) + 1 /\ down'[s][i] = m
    <3>1. m.type = "begin" => i = 1 /\ station'[s].state = "idle" /\ station'[s].written = 0
      <4> SUFFICES ASSUME m.type = "begin" PROVE i = 1 /\ station'[s].state = "idle" /\ station'[s].written = 0
        OBVIOUS
      <4>1. phase = "begin"
        BY <1>1 DEF SendsInPhase
      <4>2. down[s] = <<>> /\ station[s].state = "idle" /\ offset = 0 /\ station[s].written <= offset
        BY <4>1 DEF ChannelInv
      <4>3. station[s].written \in Nat
        BY DEF TypeOK
      <4> QED
        BY <1>2, <2>2, <4>2, <4>3
    <3>2. m.type = "finish" => phase' \in Later /\ \A d \in devices' : Complete(d)'
      BY <1>1, <1>2 DEF SendsInPhase, WaitInv, Later, Complete
    <3> QED
      BY <1>1, <2>2, <3>1, <3>2 DEF SendsInPhase
  <2> QED
    BY <1>1, <2>1, <2>2, SentMessage DEF SendsInPhase
<1>7. ASSUME NEW s \in Stations, In(s, "done")' PROVE phase' \in Later /\ \A d \in devices' : Complete(d)'
  BY <1>2, <1>3, <1>7 DEF ChannelInv, In, Complete
<1> QED
  BY <1>2, <1>4, <1>5, <1>6, <1>7 DEF ChannelInv

\* What is complete stays complete.
LEMMA StaysComplete ==
  ASSUME TypeOK, NEW s \in Stations, Takes(s), StationMoves(s),
         NEW d \in Stations, Complete(d)
  PROVE  Complete(d)'
<1>1. station'[s].written \in 0..Chunks /\ station[s].written \in 0..Chunks /\ Chunks \in Nat
  BY OtaAssumption DEF TypeOK, Takes, OtaAssumption
<1>2. CASE d = s
  BY <1>1, <1>2 DEF StationMoves, Complete
<1>3. CASE d # s
  BY <1>3 DEF Takes, Complete
<1> QED
  BY <1>2, <1>3

LEMMA ChannelStation ==
  ASSUME TypeOK, ChannelInv, NEW s \in Stations, Takes(s), StationMoves(s)
  PROVE  ChannelInv'
<1>1. UNCHANGED <<offset, phase, devices>> /\ devices \subseteq Stations
  BY DEF Takes, ctlVars, TypeOK
<1>2. (\A d \in devices : Complete(d)) => \A d \in devices' : Complete(d)'
  BY <1>1, StaysComplete
<1>3. phase # "begin"
  BY DEF ChannelInv, Takes
<1>4. down[s] \in Seq(Messages) /\ down[s] # <<>> /\ down'[s] = Tail(down[s])
  BY DEF TypeOK, Takes
<1>5. Head(down[s]) = down[s][1] /\ 1 \in DOMAIN down[s]
  BY <1>4, TailFacts
<1>6. ASSUME NEW i \in DOMAIN down'[s]
      PROVE  i \in Nat \ {0} /\ i + 1 \in DOMAIN down[s] /\ down'[s][i] = down[s][i + 1]
  BY <1>4, TailFacts
<1>7. ASSUME NEW i \in DOMAIN down'[s]
      PROVE  /\ down'[s][i].type # "begin"
             /\ down'[s][i].type = "chunk" => down'[s][i].number <= offset'
             /\ down'[s][i].type = "finish" => phase' \in Later /\ \A d \in devices' : Complete(d)'
  <2>1. i + 1 # 1
    BY <1>6
  <2> QED
    BY <1>1, <1>2, <1>6, <2>1 DEF ChannelInv
<1>8. station'[s].written <= offset'
  BY <1>1 DEF StationMoves
<1>9. In(s, "done")' => phase' \in Later /\ \A d \in devices' : Complete(d)'
  BY <1>1, <1>2, <1>5 DEF ChannelInv, StationMoves, In
<1>10. ASSUME NEW t \in Stations \ {s}
       PROVE  down'[t] = down[t] /\ station'[t] = station[t]
  BY DEF Takes
<1>11. ASSUME NEW t \in Stations \ {s}
       PROVE  /\ station'[t].written <= offset'
              /\ \A i \in DOMAIN down'[t] :
                   /\ down'[t][i].type = "begin" =>
                        i = 1 /\ station'[t].state = "idle" /\ station'[t].written = 0
                   /\ down'[t][i].type = "chunk" => down'[t][i].number <= offset'
                   /\ down'[t][i].type = "finish" => phase' \in Later /\ \A d \in devices' : Complete(d)'
              /\ In(t, "done")' => phase' \in Later /\ \A d \in devices' : Complete(d)'
  BY <1>1, <1>2, <1>10 DEF ChannelInv, In
<1> QED
  BY <1>1, <1>3, <1>7, <1>8, <1>9, <1>11 DEF ChannelInv

LEMMA ChannelStep ==
  ASSUME TypeOK, ChannelInv, WaitInv, [Next]_vars
  PROVE  ChannelInv'
<1>1. CASE MobctlStep
  BY <1>1, ChannelMobctl
<1>2. CASE \E s \in Stations : StationStep(s)
  BY <1>2, StationEffect, ChannelStation
<1>3. CASE Callback \/ UNCHANGED vars
  BY <1>3 DEF Callback, ChannelInv, In, Complete, vars, ctlVars
<1> QED
  BY <1>1, <1>2, <1>3 DEF Next, MobctlStep

\* A step of mobctl takes from the reports, and adds none.
LEMMA MobctlHears ==
  ASSUME TypeOK, MobctlStep
  PROVE  /\ UNCHANGED <<up, station>>
         /\ ToSet(statusCh') \subseteq ToSet(statusCh) /\ Heard' \subseteq Heard
         /\ ChunksRise(statusCh) => ChunksRise(statusCh')
<1>1. statusCh' = statusCh \/ (statusCh # <<>> /\ statusCh' = Tail(statusCh))
  BY MobctlMoves
<1>2. UNCHANGED <<up, station>>
  BY MobctlMoves
<1>3. statusCh \in Seq(Reports)
  BY DEF TypeOK
<1>4. CASE statusCh' = statusCh
  BY <1>2, <1>4 DEF Heard
<1>5. CASE statusCh # <<>> /\ statusCh' = Tail(statusCh)
  <2>1. ToSet(statusCh) = {Head(statusCh)} \cup ToSet(statusCh')
    BY <1>3, <1>5, TailFacts
  <2>2. ChunksRise(statusCh) => ChunksRise(statusCh')
    BY <1>3, <1>5, RisesTail
  <2> QED
    BY <1>2, <2>1, <2>2 DEF Heard
<1> QED
  BY <1>1, <1>4, <1>5

LEMMA ReportMobctl ==
  ASSUME TypeOK, ReportInv, MobctlStep
  PROVE  ReportInv'
<1>1. /\ UNCHANGED <<up, station>>
      /\ ToSet(statusCh') \subseteq ToSet(statusCh) /\ Heard' \subseteq Heard
      /\ ChunksRise(statusCh) => ChunksRise(statusCh')
  BY MobctlHears
<1> QED
  BY <1>1 DEF ReportInv, In

\* The callback moves one report from one queue to the end of the other.
LEMMA CallbackHears ==
  ASSUME TypeOK, Callback
  PROVE  /\ Heard' \subseteq Heard
         /\ statusCh' = statusCh \/
              (statusCh' = Append(statusCh, Head(up)) /\
               ToSet(statusCh') = ToSet(statusCh) \cup {Head(up)})
<1>1. /\ Head(up) \in Reports /\ ToSet(up) = {Head(up)} \cup ToSet(up')
      /\ statusCh' = statusCh \/ statusCh' = Append(statusCh, Head(up))
  BY CallbackEffect
<1>2. statusCh \in Seq(Reports)
  BY DEF TypeOK
<1>3. ToSet(Append(statusCh, Head(up))) = ToSet(statusCh) \cup {Head(up)}
  BY <1>1, <1>2, AppendFacts
<1> QED
  BY <1>1, <1>3 DEF Heard

LEMMA ReportCallback ==
  ASSUME TypeOK, ReportInv, Callback
  PROVE  ReportInv'
<1>1. /\ UNCHANGED station /\ up # <<>> /\ up' = Tail(up) /\ up \in Seq(Reports)
      /\ Head(up) \in Reports /\ ToSet(up) = {Head(up)} \cup ToSet(up')
      /\ statusCh \in Seq(Reports)
  BY CallbackEffect DEF TypeOK
<1>2. /\ Heard' \subseteq Heard
      /\ statusCh' = statusCh \/
           (statusCh' = Append(statusCh, Head(up)) /\
            ToSet(statusCh') = ToSet(statusCh) \cup {Head(up)})
  BY CallbackHears
<1>3. ChunksRise(up') /\ \A b \in ToSet(up') : Follows(Head(up), b)
  BY <1>1, RisesTail DEF ReportInv
<1>4. \A a \in ToSet(statusCh) : Follows(a, Head(up))
  BY <1>1 DEF ReportInv
<1>5. ChunksRise(statusCh')
  <2>1. CASE statusCh' = statusCh
    BY <2>1 DEF ReportInv
  <2>2. CASE statusCh' = Append(statusCh, Head(up))
    BY <1>1, <1>4, <2>2, RisesAppend DEF ReportInv
  <2> QED
    BY <1>2, <2>1, <2>2
<1>6. \A a \in ToSet(statusCh'), b \in ToSet(up') : Follows(a, b)
  BY <1>1, <1>2, <1>3 DEF ReportInv
<1> QED
  BY <1>1, <1>2, <1>3, <1>5, <1>6 DEF ReportInv, In

LEMMA ReportStation ==
  ASSUME TypeOK, ReportInv, BeginInv, NEW s \in Stations, Takes(s), StationMoves(s)
  PROVE  ReportInv'
<1>1. /\ statusCh' = statusCh /\ statusCh \in Seq(Reports) /\ up \in Seq(Reports)
      /\ \A t \in Stations : /\ station[t].written \in 0..Chunks /\ station'[t].written \in 0..Chunks
                             /\ station[t].written <= station'[t].written
                             /\ In(t, "done") => In(t, "done")'
      /\ Chunks \in Nat
  <2>1. statusCh' = statusCh /\ statusCh \in Seq(Reports) /\ up \in Seq(Reports) /\ Chunks \in Nat
    BY OtaAssumption DEF Takes, TypeOK, OtaAssumption
  <2>2. \A t \in Stations : station[t].written \in 0..Chunks /\ station'[t].written \in 0..Chunks
    BY DEF Takes, TypeOK
  <2>3. \A t \in Stations \ {s} : station'[t] = station[t]
    BY DEF Takes
  <2>4. /\ station[s].written <= station'[s].written
        /\ In(s, "done") => station'[s].state = "done"
    BY DEF StationMoves
  <2>5. \A t \in Stations : /\ station[t].written <= station'[t].written
                            /\ In(t, "done") => In(t, "done")'
    BY <2>1, <2>2, <2>3, <2>4 DEF In
  <2> QED
    BY <2>1, <2>2, <2>5
<1>2. \A r \in Heard : r \in Reports /\ r.device \in Stations /\ r.written \in 0..Chunks
  <2>1. ToSet(statusCh) \subseteq Reports /\ ToSet(up) \subseteq Reports
    BY <1>1 DEF ToSet
  <2> QED
    BY <2>1 DEF Heard, Reports
<1>3. ASSUME NEW r \in Heard
      PROVE  /\ r.written <= station'[r.device].written
             /\ r.status = "chunk" => r.written > 0
             /\ r.status = "done" => In(r.device, "done")' /\ r.written = Chunks
  BY <1>1, <1>2 DEF ReportInv
<1>4. CASE up' = up
  BY <1>1, <1>3, <1>4 DEF ReportInv, Heard
<1>5. CASE \E r \in Reports :
             /\ up' = Append(up, r) /\ r.device = s /\ r.written = station'[s].written
             /\ r.status = "started" => Head(down[s]).type = "begin"
             /\ r.status = "done" => station'[s].state = "done" /\ ~In(s, "done") /\ r.written = Chunks
             /\ r.status = "chunk" => r.written = station[s].written + 1
  <2>1. PICK r \in Reports :
             /\ up' = Append(up, r) /\ r.device = s /\ r.written = station'[s].written
             /\ r.status = "started" => Head(down[s]).type = "begin"
             /\ r.status = "done" => station'[s].state = "done" /\ ~In(s, "done") /\ r.written = Chunks
             /\ r.status = "chunk" => r.written = station[s].written + 1
    BY <1>5
  <2>2. ToSet(up') = ToSet(up) \cup {r}
    BY <1>1, <2>1, AppendFacts
  <2>3. \A a \in Heard : Follows(a, r)
    <3> SUFFICES ASSUME NEW a \in Heard, a.device = s, a.status = r.status
                 PROVE  /\ r.status = "chunk" => a.written < r.written
                        /\ r.status \notin {"started", "done"}
      BY <2>1 DEF Follows
    <3>1. a.written <= station[s].written /\ a.written \in 0..Chunks
      BY <1>2 DEF ReportInv
    <3>2. r.status = "chunk" => a.written < r.written
      BY <1>1, <2>1, <3>1
    <3>3. r.status # "started"
      BY <2>1 DEF BeginInv, Takes
    <3>4. r.status # "done"
      BY <2>1 DEF ReportInv
    <3> QED
      BY <3>2, <3>3, <3>4
  <2>4. ChunksRise(up')
    BY <1>1, <2>1, <2>3, RisesAppend DEF ReportInv, Heard
  <2>5. \A a \in ToSet(statusCh'), b \in ToSet(up') : Follows(a, b)
    BY <1>1, <2>2, <2>3 DEF ReportInv, Heard
  <2>6. /\ r.written <= station'[r.device].written
        /\ r.status = "chunk" => r.written > 0
        /\ r.status = "done" => In(r.device, "done")' /\ r.written = Chunks
    BY <1>1, <2>1 DEF In
  <2>7. Heard' = Heard \cup {r}
    BY <1>1, <2>2 DEF Heard
  <2>8. ChunksRise(statusCh')
    BY <1>1 DEF ReportInv
  <2> QED
    BY <1>3, <2>4, <2>5, <2>6, <2>7, <2>8 DEF ReportInv
<1> QED
  BY <1>4, <1>5 DEF StationMoves

LEMMA ReportStep ==
  ASSUME TypeOK, ChannelInv, ReportInv, BeginInv, [Next]_vars
  PROVE  ReportInv'
<1>1. CASE MobctlStep
  BY <1>1, ReportMobctl
<1>2. CASE \E s \in Stations : StationStep(s)
  BY <1>2, StationEffect, ReportStation
<1>3. CASE Callback
  BY <1>3, ReportCallback
<1>4. CASE UNCHANGED vars
  BY <1>4 DEF ReportInv, Heard, In, vars
<1> QED
  BY <1>1, <1>2, <1>3, <1>4 DEF Next, MobctlStep

\* What is settled stays so while nothing more is sent.
LEMMA StaysSettled ==
  ASSUME TypeOK, MobctlStep \/ Callback, offset' = offset, NEW d, Settled(d)
  PROVE  Settled(d)'
<1>1. station' = station /\ Heard' \subseteq Heard
  BY MobctlHears, CallbackHears, CallbackEffect
<1> QED
  BY <1>1 DEF Settled

\* A station that is settled has no chunk to come, and reports none.
LEMMA SettledStation ==
  ASSUME TypeOK, ChannelInv, NEW s \in Stations, StationStep(s), NEW d \in Stations, Settled(d)
  PROVE  Settled(d)'
<1>1. Takes(s) /\ StationMoves(s)
  BY StationEffect
<1>2. /\ offset' = offset /\ statusCh' = statusCh /\ up \in Seq(Reports)
      /\ station[d].written \in 0..Chunks /\ station'[d].written \in 0..Chunks
      /\ offset \in 0..Chunks /\ Chunks \in Nat /\ station[d].written >= offset
  BY <1>1, OtaAssumption DEF Takes, ctlVars, TypeOK, Settled, OtaAssumption
<1>3. station'[d].written >= offset'
  <2>1. CASE d = s
    BY <1>1, <1>2, <2>1 DEF StationMoves
  <2>2. CASE d # s
    BY <1>1, <1>2, <2>2 DEF Takes
  <2> QED
    BY <2>1, <2>2
<1>4. CASE up' = up
  BY <1>2, <1>3, <1>4 DEF Settled, Heard
<1>5. CASE \E r \in Reports :
             /\ up' = Append(up, r) /\ r.device = s /\ r.written = station'[s].written
             /\ r.status = "chunk" => r.written = station[s].written + 1
  <2>1. PICK r \in Reports :
             /\ up' = Append(up, r) /\ r.device = s /\ r.written = station'[s].written
             /\ r.status = "chunk" => r.written = station[s].written + 1
    BY <1>5
  <2>2. ToSet(up') = ToSet(up) \cup {r}
    BY <1>2, <2>1, AppendFacts
  <2>3. Heard' = Heard \cup {r}
    BY <1>2, <2>2 DEF Heard
  <2>4. ~(r.device = d /\ r.status = "chunk")
    <3> SUFFICES ASSUME r.device = d, r.status = "chunk" PROVE FALSE
      OBVIOUS
    <3>1. station'[d].written = station[d].written + 1 /\ station'[d].written <= offset
      BY <1>1, <2>1 DEF StationMoves
    <3> QED
      BY <1>2, <3>1
  <2> QED
    BY <1>2, <1>3, <2>3, <2>4 DEF Settled
<1> QED
  BY <1>1, <1>4, <1>5 DEF StationMoves

LEMMA WaitStation ==
  ASSUME TypeOK, ChannelInv, WaitInv, NEW s \in Stations, StationStep(s)
  PROVE  WaitInv'
<1>1. Takes(s) /\ StationMoves(s)
  BY StationEffect
<1>2. UNCHANGED <<file, eof, phase, devices, remaining, offset>> /\ devices \subseteq Stations
  BY <1>1 DEF Takes, ctlVars, fileVars, TypeOK
<1>3. \A d \in devices : /\ Settled(d) => Settled(d)'
                         /\ Complete(d) => Complete(d)'
                         /\ In(d, "done") => In(d, "done")'
  <2> SUFFICES ASSUME NEW d \in devices
               PROVE  /\ Settled(d) => Settled(d)'
                      /\ Complete(d) => Complete(d)'
                      /\ In(d, "done") => In(d, "done")'
    OBVIOUS
  <2>1. d \in Stations
    BY <1>2
  <2>2. Settled(d) => Settled(d)'
    BY <2>1, SettledStation
  <2>3. Complete(d) => Complete(d)'
    BY <1>1, <2>1, StaysComplete
  <2>4. In(d, "done") => In(d, "done")'
    BY <1>1, <2>1 DEF Takes, StationMoves, In
  <2> QED
    BY <2>2, <2>3, <2>4
<1> QED
  BY <1>2, <1>3 DEF WaitInv, AtBoundary

\* When the window closes nothing was sent, so that nothing of it was reported.
LEMMA WaitWindow ==
  ASSUME TypeOK, ChannelInv, ReportInv, WaitInv, WindowCloses
  PROVE  WaitInv'
<1>1. MobctlStep
  BY DEF MobctlStep
<1>2. /\ offset = 0 /\ UNCHANGED <<file, eof, devices, remaining, offset>> /\ Chunks # 0
      /\ phase' \in {"sending", "failed"}
  BY OtaAssumption DEF WindowCloses, Goto, ChannelInv, fileVars, OtaAssumption
<1>3. ASSUME NEW d \in devices PROVE Settled(d)
  <2>1. d \in Stations /\ station[d].written \in 0..Chunks /\ station[d].written <= 0
    BY <1>2 DEF TypeOK, ChannelInv
  <2>2. ASSUME NEW r \in Heard, r.device = d, r.status = "chunk" PROVE FALSE
    <3>1. r \in Reports
      BY DEF Heard, ToSet, TypeOK
    <3>2. r.written \in Nat /\ r.written > 0 /\ r.written <= station[d].written
      BY <2>2, <3>1, OtaAssumption DEF ReportInv, Reports, OtaAssumption
    <3> QED
      BY <2>1, <3>2, OtaAssumption DEF OtaAssumption
  <2> QED
    BY <1>2, <2>1, <2>2, OtaAssumption DEF Settled, OtaAssumption
<1>4. \A d \in devices : Settled(d)'
  BY <1>1, <1>2, <1>3, StaysSettled
<1> QED
  BY <1>2, <1>4 DEF WaitInv

\* The chunk after which mobctl waits; or one that is neither at a boundary nor the last.
LEMMA WaitChunk ==
  ASSUME TypeOK, WaitInv, PublishChunk
  PROVE  WaitInv'
<1>1. /\ phase = "sending" /\ offset < file /\ file \in 0..Chunks /\ offset \in 0..Chunks
      /\ UNCHANGED <<file, eof, devices>> /\ Chunks \in Nat
  BY OtaAssumption DEF PublishChunk, TypeOK, fileVars, OtaAssumption
<1>2. ~eof
  BY <1>1 DEF WaitInv
<1>3. CASE AtBoundary(offset')
  <2>1. phase' = "waiting" /\ remaining' = devices
    BY <1>3 DEF PublishChunk
  <2> QED
    BY <1>1, <1>2, <2>1 DEF WaitInv
<1>4. CASE ~AtBoundary(offset')
  <2>1. phase' = phase /\ offset' # Chunks
    BY <1>4 DEF PublishChunk, AtBoundary
  <2>2. ~AtBoundary(offset)'
    BY <1>4 DEF AtBoundary
  <2> QED
    BY <1>1, <1>2, <2>1, <2>2 DEF WaitInv
<1> QED
  BY <1>3, <1>4

LEMMA WaitEOF ==
  ASSUME TypeOK, WaitInv, ReadEOF
  PROVE  WaitInv'
<1>1. MobctlStep
  BY DEF MobctlStep
<1>2. /\ phase = "sending" /\ offset = file
      /\ UNCHANGED <<file, devices, offset>>
  BY DEF ReadEOF
<1>3. CASE AtBoundary(offset)
  <2>1. phase' = "waiting" /\ remaining' = devices
    BY <1>3 DEF ReadEOF
  <2>2. \A d \in devices : Settled(d)'
    BY <1>1, <1>2, <1>3, StaysSettled DEF WaitInv
  <2> QED
    BY <1>2, <2>1, <2>2 DEF WaitInv
<1>4. CASE ~AtBoundary(offset)
  BY <1>2, <1>4 DEF ReadEOF, WaitInv
<1> QED
  BY <1>3, <1>4

\* The report that mobctl waits for: it is the last one of its station's chunks.
LEMMA AckSettles ==
  ASSUME TypeOK, ChannelInv, ReportInv, TakeAck, phase = "waiting"
  PROVE  \E d \in remaining : d = Head(statusCh).device /\ ~Settled(d) /\ Settled(d)'
<1>h. PICK h : h = Head(statusCh)
  OBVIOUS
<1>1. /\ statusCh # <<>> /\ statusCh' = Tail(statusCh) /\ statusCh \in Seq(Reports)
      /\ h.device \in remaining /\ h.status = "chunk" /\ h.written >= offset
      /\ remaining \subseteq Stations
      /\ UNCHANGED <<offset, up, station>>
  BY <1>h DEF TakeAck, Acks, Waiting, TypeOK
<1>2. h \in Reports /\ ToSet(statusCh) = {h} \cup ToSet(statusCh')
  BY <1>h, <1>1, TailFacts
<1>3. ChunksRise(statusCh') /\ \A b \in ToSet(statusCh') : Follows(h, b)
  BY <1>h, <1>1, RisesTail DEF ReportInv
<1>4. h \in Heard /\ h \in ToSet(statusCh)
  BY <1>2 DEF Heard
<1>5. \A b \in Heard' : Follows(h, b) /\ b \in Heard /\ b \in Reports
  <2>1. \A b \in ToSet(up) : Follows(h, b) /\ b \in Reports
    BY <1>4 DEF ReportInv, ToSet, TypeOK
  <2>2. \A b \in ToSet(statusCh') : b \in Reports
    BY <1>1, <1>2 DEF ToSet
  <2> QED
    BY <1>1, <1>2, <1>3, <2>1, <2>2 DEF Heard
<1>6. /\ h.written \in Nat /\ offset \in Nat /\ station[h.device].written \in Nat
      /\ h.written <= station[h.device].written /\ station[h.device].written <= offset
  <2>1. h.device \in Stations
    BY <1>1
  <2>2. h.written \in 0..Chunks /\ Chunks \in Nat
    BY <1>2, OtaAssumption DEF Reports, OtaAssumption
  <2> QED
    BY <1>4, <2>1, <2>2 DEF ReportInv, ChannelInv, TypeOK
<1>7. ~Settled(h.device)
  BY <1>1, <1>4, <1>6 DEF Settled
<1>8. ASSUME NEW r \in Heard', r.device = h.device, r.status = "chunk" PROVE FALSE
  <2>1. h.written < r.written
    BY <1>1, <1>5, <1>8 DEF Follows
  <2>2. r.written <= station[h.device].written
    BY <1>5, <1>8 DEF ReportInv
  <2>3. r.written \in Nat
    BY <1>5, OtaAssumption DEF Reports, OtaAssumption
  <2> QED
    BY <1>1, <1>6, <2>1, <2>2, <2>3
<1>9. Settled(h.device)'
  BY <1>1, <1>6, <1>8 DEF Settled
<1> QED
  BY <1>h, <1>1, <1>7, <1>9

LEMMA WaitAck ==
  ASSUME TypeOK, ChannelInv, ReportInv, WaitInv, TakeAck
  PROVE  WaitInv'
<1>d. PICK d : d = Head(statusCh).device
  OBVIOUS
<1>1. MobctlStep
  BY DEF MobctlStep
<1>2. /\ UNCHANGED <<file, eof, devices, offset, station>>
      /\ remaining' = remaining \ {d} /\ remaining \subseteq devices /\ devices \subseteq Stations
      /\ d \in remaining /\ statusCh # <<>> /\ statusCh \in Seq(Reports)
      /\ Chunks \in Nat /\ offset \in 0..Chunks
  BY <1>d, OtaAssumption DEF TakeAck, Acks, fileVars, TypeOK, Waiting, OtaAssumption
<1>3. CASE phase = "waiting"
  <2>1. ~Settled(d) /\ Settled(d)'
    BY <1>d, <1>3, AckSettles
  <2>2. ~eof
    BY <1>2, <1>3, <2>1 DEF WaitInv
  <2>3. \A e \in devices \ remaining' : Settled(e)'
    BY <1>1, <1>2, <1>3, <2>1, StaysSettled DEF WaitInv
  <2>4. phase' = IF remaining' # {} THEN "waiting"
                 ELSE IF offset = Chunks THEN "finish" ELSE "sending"
    BY <1>3, <2>2 DEF TakeAck
  <2>5. \A e \in Stations : offset = Chunks /\ Settled(e)' => Complete(e)'
    <3> SUFFICES ASSUME NEW e \in Stations, offset = Chunks, Settled(e)' PROVE Complete(e)'
      OBVIOUS
    <3>1. station[e].written \in 0..Chunks /\ station[e].written >= Chunks
      BY <1>2 DEF Settled, TypeOK
    <3> QED
      BY <1>2, <3>1 DEF Complete
  <2>6. CASE remaining' # {}
    BY <1>2, <2>2, <2>3, <2>4, <2>6 DEF WaitInv
  <2>7. CASE remaining' = {}
    BY <1>2, <2>2, <2>3, <2>4, <2>5, <2>7 DEF WaitInv
  <2> QED
    BY <2>6, <2>7
<1>4. CASE phase = "finishing"
  <2>1. Head(statusCh) \in Heard /\ Head(statusCh).status = "done"
    <3>1. ToSet(statusCh) = {Head(statusCh)} \cup ToSet(Tail(statusCh))
      BY <1>2, TailFacts
    <3> QED
      BY <1>4, <3>1 DEF Heard, TakeAck, Acks
  <2>2. In(d, "done")
    BY <1>d, <2>1 DEF ReportInv
  <2>3. phase' = IF remaining' # {} THEN "finishing" ELSE "ok"
    BY <1>4 DEF TakeAck
  <2>4. \A e \in devices : Settled(e)'
    BY <1>1, <1>2, <1>4, StaysSettled DEF WaitInv
  <2> QED
    BY <1>2, <1>4, <2>2, <2>3, <2>4 DEF WaitInv, In, Complete
<1> QED
  BY <1>3, <1>4 DEF TakeAck, Waiting

\* The steps that change nothing of what is waited for.
LEMMA WaitOther ==
  ASSUME TypeOK, WaitInv,
         PublishBegin \/ Discover \/ PublishFinish \/ PublishFails \/ TakeFailure \/ Timeout \/ Interrupt
  PROVE  WaitInv'
<1>1. CASE PublishBegin \/ PublishFails \/ TakeFailure \/ Timeout \/ Interrupt
  <2>1. UNCHANGED <<file, eof, offset>> /\ phase' \in {"discovering", "failed"}
    BY <1>1 DEF PublishBegin, PublishFails, TakeFailure, Timeout, Interrupt, GiveUp, Goto, fileVars
  <2> QED
    BY <2>1 DEF WaitInv
<1>2. CASE Discover
  <2>1. UNCHANGED <<file, eof, offset>> /\ phase' \in {"discovering", "failed"}
    BY <1>2 DEF Discover, Goto, fileVars
  <2> QED
    BY <2>1 DEF WaitInv
<1>3. CASE PublishFinish
  <2>1. /\ UNCHANGED <<file, eof, offset, devices, station>> /\ phase = "finish" /\ phase' = "finishing"
        /\ remaining' = devices
    BY <1>3 DEF PublishFinish, fileVars
  <2>2. MobctlStep
    BY <1>3 DEF MobctlStep
  <2>3. \A d \in devices : Settled(d)'
    BY <2>1, <2>2, StaysSettled DEF WaitInv
  <2> QED
    BY <2>1, <2>3 DEF WaitInv, Complete
<1> QED
  BY <1>1, <1>2, <1>3

LEMMA WaitStep ==
  ASSUME TypeOK, ChannelInv, ReportInv, WaitInv, [Next]_vars
  PROVE  WaitInv'
<1>1. CASE SkipReport \/ Callback
  <2>1. UNCHANGED <<file, eof, phase, devices, remaining, offset, station>>
    BY <1>1 DEF SkipReport, Callback, ctlVars, fileVars
  <2>2. \A d \in devices : Settled(d) => Settled(d)'
    BY <1>1, <2>1, StaysSettled DEF MobctlStep
  <2> QED
    BY <2>1, <2>2 DEF WaitInv, AtBoundary, Complete, In
<1>2. CASE \E s \in Stations : StationStep(s)
  BY <1>2, WaitStation
<1>3. CASE UNCHANGED vars
  <2>1. \A d \in devices : Settled(d) => Settled(d)'
    BY <1>3 DEF Settled, Heard, vars, ctlVars
  <2> QED
    BY <1>3, <2>1 DEF WaitInv, AtBoundary, Complete, In, vars, ctlVars, fileVars
<1>4. CASE PublishBegin \/ Discover \/ PublishFinish \/ PublishFails \/ TakeFailure \/ Timeout \/ Interrupt
  BY <1>4, WaitOther
<1>5. CASE WindowCloses
  BY <1>5, WaitWindow
<1>6. CASE PublishChunk
  BY <1>6, WaitChunk
<1>7. CASE ReadEOF
  BY <1>7, WaitEOF
<1>8. CASE TakeAck
  BY <1>8, WaitAck
<1> QED
  BY <1>1, <1>2, <1>3, <1>4, <1>5, <1>6, <1>7, <1>8 DEF Next

-----------------------------------------------------------------------------
LEMMA BeginStep ==
  ASSUME TypeOK, ChannelInv, BeginInv, [Next]_vars
  PROVE  BeginInv'
<1>1. CASE MobctlStep
  <2>1. PICK m \in Messages : SendsInPhase(m)
    BY <1>1, MobctlSends
  <2>2. phase' # "begin" /\ Heard' \subseteq Heard
    BY <1>1, MobctlMoves, MobctlHears
  <2>3. ASSUME NEW s \in Stations, down'[s] # <<>>, Head(down'[s]).type = "begin"
        PROVE  \A r \in Heard : r.device # s
    <3>1. down'[s] \in Seq(Messages) /\ down[s] \in Seq(Messages)
      BY <2>1 DEF SendsInPhase, TypeOK
    <3>2. 1 \in DOMAIN down'[s] /\ Head(down'[s]) = down'[s][1]
      BY <2>3, <3>1, TailFacts
    <3>3. CASE 1 \in DOMAIN down[s] /\ down'[s][1] = down[s][1]
      <4>1. down[s] # <<>> /\ Head(down[s]) = down[s][1]
        BY <3>1, <3>3
      <4> QED
        BY <2>3, <3>2, <3>3, <4>1 DEF BeginInv
    <3>4. CASE down'[s][1] = m
      BY <2>1, <2>3, <3>2, <3>4 DEF SendsInPhase, BeginInv
    <3> QED
      BY <2>1, <3>2, <3>3, <3>4, SentMessage DEF SendsInPhase
  <2> QED
    BY <2>2, <2>3 DEF BeginInv
<1>2. CASE \E s \in Stations : StationStep(s)
  <2>1. PICK s \in Stations : StationStep(s)
    BY <1>2
  <2>2. Takes(s) /\ StationMoves(s)
    BY <2>1, StationEffect
  <2>3. phase' = phase /\ phase # "begin" /\ statusCh' = statusCh /\ up \in Seq(Reports)
    BY <2>2 DEF Takes, ChannelInv, ctlVars, TypeOK
  <2>4. \A r \in Heard' : r \in Heard \/ r.device = s
    <3>1. CASE up' = up
      BY <2>3, <3>1 DEF Heard
    <3>2. CASE \E r \in Reports : up' = Append(up, r) /\ r.device = s
      <4>1. PICK r \in Reports : up' = Append(up, r) /\ r.device = s
        BY <3>2
      <4>2. ToSet(up') = ToSet(up) \cup {r}
        BY <2>3, <4>1, AppendFacts
      <4> QED
        BY <2>3, <4>1, <4>2 DEF Heard
    <3> QED
      BY <2>2, <3>1, <3>2 DEF StationMoves
  <2>5. down'[s] # <<>> => Head(down'[s]).type # "begin"
    <3> SUFFICES ASSUME down'[s] # <<>> PROVE Head(down'[s]).type # "begin"
      OBVIOUS
    <3>1. down[s] \in Seq(Messages) /\ down[s] # <<>> /\ down'[s] = Tail(down[s])
          /\ down'[s] \in Seq(Messages)
      BY <2>2 DEF Takes, TypeOK
    <3>2. 1 \in DOMAIN down'[s] /\ Head(down'[s]) = down'[s][1]
      BY <3>1, TailFacts
    <3>3. 1 + 1 \in DOMAIN down[s] /\ down'[s][1] = down[s][1 + 1]
      BY <3>1, <3>2, TailFacts
    <3>4. 1 + 1 # 1
      OBVIOUS
    <3> QED
      BY <3>2, <3>3, <3>4 DEF ChannelInv
  <2>6. ASSUME NEW t \in Stations, down'[t] # <<>>, Head(down'[t]).type = "begin"
        PROVE  \A r \in Heard' : r.device # t
    <3>1. t # s
      BY <2>5, <2>6
    <3>2. \A r \in Heard : r.device # t
      BY <2>2, <2>6, <3>1 DEF BeginInv, Takes
    <3> QED
      BY <2>4, <3>1, <3>2
  <2> QED
    BY <2>3, <2>6 DEF BeginInv
<1>3. CASE Callback
  <2>1. Heard' \subseteq Heard /\ UNCHANGED <<phase, devices, down>>
    BY <1>3, CallbackHears DEF Callback, ctlVars
  <2> QED
    BY <2>1 DEF BeginInv
<1>4. CASE UNCHANGED vars
  BY <1>4 DEF BeginInv, Heard, vars, ctlVars
<1> QED
  BY <1>1, <1>2, <1>3, <1>4 DEF Next, MobctlStep

LEMMA SomeoneStep ==
  ASSUME TypeOK, SomeoneInv, [Next]_vars
  PROVE  SomeoneInv'
<1>1. CASE PublishBegin \/ WindowCloses \/ PublishFails \/ Timeout \/ TakeFailure \/ Interrupt \/ Discover
  BY <1>1 DEF PublishBegin, WindowCloses, PublishFails, Timeout, TakeFailure, Interrupt, Discover,
     GiveUp, Goto, SomeoneInv
<1>2. CASE PublishChunk \/ ReadEOF \/ PublishFinish
  BY <1>2 DEF PublishChunk, ReadEOF, PublishFinish, SomeoneInv, fileVars
<1>3. CASE SkipReport \/ TakeAck
  BY <1>3 DEF SkipReport, TakeAck, Waiting, SomeoneInv, ctlVars
<1>4. CASE Callback \/ (\E s \in Stations : StationStep(s)) \/ UNCHANGED vars
  <2>1. UNCHANGED <<phase, devices, remaining>>
    BY <1>4 DEF Callback, StationStep, StationBegins, StationWrites, StationFinishes, StationIgnores,
       Take, vars, ctlVars
  <2> QED
    BY <2>1 DEF SomeoneInv
<1> QED
  BY <1>1, <1>2, <1>3, <1>4 DEF Next

-----------------------------------------------------------------------------
(* The width of a group. *)

LEMMA Euclid ==
  ASSUME NEW n \in Nat, NEW g \in Nat \ {0}
  PROVE  /\ n \div g \in Nat /\ n % g \in 0..g - 1
         /\ n = g * (n \div g) + (n % g)
<1>1. n % g \in 0..g - 1
  OBVIOUS
<1>2. n \div g \in Nat
  OBVIOUS
<1>3. n = g * (n \div g) + (n % g)
  OBVIOUS
<1> QED
  BY <1>1, <1>2, <1>3

LEMMA NextMultiple ==
  ASSUME NEW a \in Nat, NEW b \in Nat, NEW g \in Nat, a > b
  PROVE  g * a >= g * b + g /\ g * a \in Nat /\ g * b \in Nat
<1>1. PICK c \in Nat : a = b + 1 + c
  <2>1. a - b - 1 \in Nat /\ a = b + 1 + (a - b - 1)
    OBVIOUS
  <2> QED
    BY <2>1
<1>2. g * a = g * b + g + g * c
  BY <1>1
<1>3. g * c \in Nat /\ g * b \in Nat /\ g * a \in Nat
  BY <1>1
<1> QED
  BY <1>2, <1>3

LEMMA OneRemainder ==
  ASSUME NEW g \in Nat \ {0}, NEW a \in Nat, NEW b \in Nat,
         NEW x \in 0..g - 1, NEW y \in 0..g - 1, g * a + x = g * b + y
  PROVE  x = y
<1>1. CASE a > b
  <2>1. g * a >= g * b + g /\ g * a \in Nat /\ g * b \in Nat
    BY <1>1, NextMultiple
  <2> QED
    BY <2>1
<1>2. CASE b > a
  <2>1. g * b >= g * a + g /\ g * a \in Nat /\ g * b \in Nat
    BY <1>2, NextMultiple
  <2> QED
    BY <2>1
<1>3. CASE a = b
  <2>1. g * a \in Nat
    OBVIOUS
  <2> QED
    BY <1>3, <2>1
<1> QED
  BY <1>1, <1>2, <1>3

LEMMA NextRemainder ==
  ASSUME NEW n \in Nat, NEW g \in Nat \ {0}
  PROVE  (n + 1) % g = IF n % g = g - 1 THEN 0 ELSE (n % g) + 1
<1>1. /\ n \div g \in Nat /\ n % g \in 0..g - 1 /\ n = g * (n \div g) + (n % g)
      /\ (n + 1) \div g \in Nat /\ (n + 1) % g \in 0..g - 1
      /\ n + 1 = g * ((n + 1) \div g) + ((n + 1) % g)
  BY Euclid, n + 1 \in Nat
<1>2. PICK q \in Nat, r \in 0..g - 1, p \in Nat, s \in 0..g - 1 :
        q = n \div g /\ r = n % g /\ p = (n + 1) \div g /\ s = (n + 1) % g
  BY <1>1
<1>3. g * p + s = g * q + r + 1
  BY <1>1, <1>2
<1>4. CASE r = g - 1
  <2>1. g * (q + 1) = g * q + g /\ g * q \in Nat
    OBVIOUS
  <2>2. g * p + s = g * (q + 1) + 0
    BY <1>3, <1>4, <2>1
  <2>3. s = 0
    BY <2>2, OneRemainder, q + 1 \in Nat, 0 \in 0..g - 1
  <2> QED
    BY <1>2, <1>4, <2>3
<1>5. CASE r # g - 1
  <2>1. r + 1 \in 0..g - 1 /\ g * q \in Nat
    BY <1>5
  <2>2. g * p + s = g * q + (r + 1)
    BY <1>3, <2>1
  <2>3. s = r + 1
    BY <2>1, <2>2, OneRemainder
  <2> QED
    BY <1>2, <1>5, <2>3
<1> QED
  BY <1>4, <1>5

\* A group grows by the chunk, but for the first one after a boundary.
LEMMA WidthFacts ==
  ASSUME NEW n \in Nat
  PROVE  /\ Width(n) \in 1..Group
         /\ n % Group # 0 => Width(n + 1) = Width(n) + 1
<1>1. Group \in Nat \ {0}
  BY OtaAssumption DEF OtaAssumption
<1>2. PICK r \in 0..Group - 1, s \in 0..Group - 1 : r = n % Group /\ s = (n + 1) % Group
  BY <1>1, Euclid, n + 1 \in Nat
<1>3. s = IF r = Group - 1 THEN 0 ELSE r + 1
  BY <1>1, <1>2, NextRemainder
<1>4. Width(n) = IF r = 0 THEN Group ELSE r
  BY <1>2 DEF Width
<1>5. Width(n + 1) = IF s = 0 THEN Group ELSE s
  BY <1>2 DEF Width
<1>6. Width(n) \in 1..Group
  BY <1>1, <1>4
<1>7. r # 0 => Width(n + 1) = Width(n) + 1
  BY <1>1, <1>3, <1>4, <1>5
<1> QED
  BY <1>2, <1>6, <1>7

\* At a boundary everybody has caught up before the next chunk is sent.
LEMMA LagStep ==
  ASSUME TypeOK, ChannelInv, WaitInv, LagInv, [Next]_vars
  PROVE  LagInv'
<1>1. /\ offset \in Nat /\ devices \subseteq Stations /\ Width(offset) \in 1..Group
      /\ Group \in Nat \ {0}
      /\ \A s \in Stations : station[s].written \in Nat
  <2>1. /\ offset \in Nat /\ devices \subseteq Stations /\ Group \in Nat \ {0}
        /\ \A s \in Stations : station[s].written \in Nat
    BY OtaAssumption DEF TypeOK, OtaAssumption
  <2> QED
    BY <2>1, WidthFacts
<1>2. CASE PublishChunk
  <2>1. phase = "sending" /\ offset' = offset + 1 /\ UNCHANGED <<devices, station>>
    BY <1>2 DEF PublishChunk
  <2>2. Width(offset)' = Width(offset + 1) /\ Width(offset + 1) \in 1..Group
    BY <1>1, <2>1, WidthFacts, offset + 1 \in Nat DEF Width
  <2>3. ASSUME NEW m \in devices PROVE station[m].written + Width(offset + 1) >= offset + 1
    <3>1. CASE offset % Group = 0
      <4>1. station[m].written >= offset
        BY <2>1, <3>1 DEF WaitInv, AtBoundary, Settled
      <4> QED
        BY <1>1, <2>2, <4>1
    <3>2. CASE offset % Group # 0
      <4>1. Width(offset + 1) = Width(offset) + 1
        BY <1>1, <3>2, WidthFacts
      <4>2. station[m].written + Width(offset) >= offset /\ station[m].written \in Nat
        BY <1>1 DEF LagInv
      <4> QED
        BY <1>1, <4>1, <4>2
    <3> QED
      BY <3>1, <3>2
  <2> QED
    BY <2>1, <2>2, <2>3 DEF LagInv
<1>3. CASE Discover
  <2>1. /\ offset = 0 /\ UNCHANGED <<offset, station>> /\ devices' \subseteq Stations
    <3>1. offset = 0 /\ UNCHANGED <<offset, station>>
      BY <1>3 DEF Discover, Goto, ChannelInv
    <3>2. devices' \subseteq Stations
      BY <1>3, MobctlTypes DEF MobctlStep, TypeOK
    <3> QED
      BY <3>1, <3>2
  <2>2. Width(offset)' = Width(offset)
    BY <2>1 DEF Width
  <2> QED
    BY <1>1, <2>1, <2>2 DEF LagInv
<1>4. CASE MobctlStep /\ ~PublishChunk /\ ~Discover
  <2>1. UNCHANGED <<offset, devices, station>>
    BY <1>4 DEF MobctlStep, PublishBegin, WindowCloses, ReadEOF, PublishFinish, PublishFails,
       SkipReport, TakeAck, TakeFailure, Timeout, Interrupt, GiveUp, Goto, ctlVars
  <2> QED
    BY <2>1 DEF LagInv, Width
<1>5. CASE Callback \/ UNCHANGED vars
  BY <1>5 DEF Callback, vars, ctlVars, LagInv, Width
<1>6. CASE \E s \in Stations : StationStep(s)
  <2>1. PICK s \in Stations : Takes(s) /\ StationMoves(s)
    BY <1>6, StationEffect
  <2>2. UNCHANGED <<offset, devices>>
    BY <2>1 DEF Takes, ctlVars
  <2>3. ASSUME NEW m \in Stations
        PROVE  station[m].written <= station'[m].written /\ station'[m].written \in Nat
    <3>1. station'[m].written \in Nat
      BY <2>1, OtaAssumption DEF Takes, OtaAssumption
    <3>2. CASE m = s
      BY <2>1, <3>1, <3>2 DEF StationMoves
    <3>3. CASE m # s
      BY <1>1, <2>1, <3>3 DEF Takes
    <3> QED
      BY <3>1, <3>2, <3>3
  <2>4. Width(offset)' = Width(offset)
    BY <2>2 DEF Width
  <2> QED
    BY <1>1, <2>2, <2>3, <2>4 DEF LagInv
<1> QED
  BY <1>2, <1>3, <1>4, <1>5, <1>6 DEF Next, MobctlStep

\* During the window a station can only take its ota_begin.
LEMMA OpenStation ==
  ASSUME TypeOK, ChannelInv, OpenInv, phase = "discovering",
         NEW s \in Stations, StationStep(s)
  PROVE  OpenInv'
<1>1. Takes(s) /\ StationMoves(s) /\ statusCh' = statusCh
  BY StationEffect DEF Takes
<1>2. /\ down[s] \in Seq(Messages) /\ down[s] # <<>> /\ down'[s] = Tail(down[s])
      /\ up \in Seq(Reports)
  BY <1>1 DEF TypeOK, Takes
<1>3. Head(down[s]).type = "begin" /\ In(s, "idle")
  <2>1. Head(down[s]) = down[s][1] /\ 1 \in DOMAIN down[s]
    BY <1>2, TailFacts
  <2> QED
    BY <2>1 DEF OpenInv, ChannelInv, In
<1>4. ASSUME NEW t \in Stations, NEW i \in DOMAIN down'[t] PROVE down'[t][i].type = "begin"
  <2>1. CASE t = s
    <3>1. i \in DOMAIN Tail(down[s])
      BY <1>2, <2>1
    <3>2. i + 1 \in DOMAIN down[s] /\ Tail(down[s])[i] = down[s][i + 1]
      BY <1>2, <3>1, TailFacts
    <3> QED
      BY <1>2, <2>1, <3>2 DEF OpenInv
  <2>2. CASE t # s
    BY <1>1, <2>2 DEF Takes, OpenInv
  <2> QED
    BY <2>1, <2>2
<1>5. ASSUME NEW r \in Heard, r.status = "started" PROVE In(r.device, "receiving")'
  <2>1. In(r.device, "receiving") /\ r.device # s
    BY <1>3, <1>5 DEF OpenInv, In
  <2>2. r.device \in Stations
    <3>1. r \in Reports
      BY <1>2 DEF Heard, ToSet, TypeOK
    <3> QED
      BY <3>1 DEF Reports
  <2> QED
    BY <1>1, <2>1, <2>2 DEF Takes, In
<1>6. CASE up' = up
  BY <1>1, <1>4, <1>5, <1>6 DEF OpenInv, Heard
<1>7. CASE up' # up
  <2>1. PICK state \in {"receiving", "failed"}, status \in {"started", "begin_failed", "anonymous"},
             cost \in {0, 1} :
          /\ Take(s, "begin", state, 0, status, cost)
          /\ status = "started" => state = "receiving"
    BY <1>3, <1>7 DEF StationStep, StationBegins, StationWrites, StationFinishes, StationIgnores, In
  <2>2. /\ state \in StationStates /\ status \in Statuses /\ cost \in Nat /\ 0 \in 0..Chunks
    BY OtaAssumption DEF StationStates, Statuses, OtaAssumption
  <2>3. Took(s, "begin", state, 0, status)
    BY <2>1, <2>2, TakeEffect
  <2>4. PICK r \in Reports : up' = Append(up, r) /\ r.device = s /\ r.status = status
    BY <1>7, <2>3 DEF Took
  <2>5. ToSet(up') = ToSet(up) \cup {r}
    BY <1>2, <2>4, AppendFacts
  <2>6. Heard' = Heard \cup {r}
    BY <1>1, <2>5 DEF Heard
  <2>7. r.status = "started" => In(r.device, "receiving")'
    BY <2>1, <2>3, <2>4 DEF Took, In
  <2> QED
    BY <1>4, <1>5, <2>6, <2>7 DEF OpenInv
<1> QED
  BY <1>6, <1>7

LEMMA OpenStep ==
  ASSUME TypeOK, ChannelInv, BeginInv, OpenInv, [Next]_vars
  PROVE  OpenInv'
<1> SUFFICES ASSUME phase' = "discovering" PROVE OpenInv'
  BY DEF OpenInv
<1>1. CASE PublishBegin
  <2>1. /\ phase = "begin" /\ Cast(Control("begin")) /\ UNCHANGED <<statusCh, up>>
    BY <1>1 DEF PublishBegin
  <2>2. Control("begin") \in Messages /\ Control("begin").type = "begin"
    BY ControlTypes
  <2>3. Sends(Control("begin"))
    BY <2>1, <2>2, CastFacts
  <2>4. Heard' = {} /\ \A s \in Stations : DOMAIN down[s] = {}
    BY <2>1 DEF BeginInv, ChannelInv, Heard
  <2>5. \A s \in Stations : \A i \in DOMAIN down'[s] : down'[s][i].type = "begin"
    BY <2>2, <2>3, <2>4, SentMessage
  <2> QED
    BY <2>4, <2>5 DEF OpenInv
<1>2. CASE Discover
  <2>1. phase = "discovering" /\ UNCHANGED <<down, station>> /\ Heard' \subseteq Heard
    <3>1. Heard' \subseteq Heard
      BY <1>2, MobctlHears DEF MobctlStep
    <3> QED
      BY <1>2, <3>1 DEF Discover, Goto
  <2> QED
    BY <2>1 DEF OpenInv, In
<1>3. CASE MobctlStep /\ ~PublishBegin /\ ~Discover
  <2>1. FALSE
    BY <1>3 DEF MobctlStep, WindowCloses, PublishChunk, ReadEOF, PublishFinish, PublishFails,
       SkipReport, TakeAck, TakeFailure, Timeout, Interrupt, GiveUp, Goto, ctlVars, Waiting
  <2> QED
    BY <2>1
<1>4. CASE Callback
  <2>1. UNCHANGED <<phase, down, station>> /\ Heard' \subseteq Heard
    BY <1>4, CallbackHears, CallbackEffect DEF ctlVars
  <2> QED
    BY <2>1 DEF OpenInv, In
<1>5. CASE UNCHANGED vars
  BY <1>5 DEF OpenInv, Heard, In, vars, ctlVars
<1>6. CASE \E s \in Stations : StationStep(s)
  <2>1. phase = "discovering"
    BY <1>6, StationEffect DEF Takes, ctlVars
  <2> QED
    BY <1>6, <2>1, OpenStation
<1> QED
  BY <1>1, <1>2, <1>3, <1>4, <1>5, <1>6 DEF Next, MobctlStep

-----------------------------------------------------------------------------
(* While nothing is lost. *)

\* A publish that reaches everybody.
LEMMA CalmCast ==
  ASSUME TypeOK, NEW m \in Messages, Cast(m), troubles' = 0
  PROVE  \A s \in Stations : down'[s] = Append(down[s], m)
<1>1. PICK missing \in SUBSET Stations :
        /\ troubles' = troubles + Cardinality(missing)
        /\ down' = [s \in Stations |-> IF s \in missing THEN down[s] ELSE Append(down[s], m)]
  BY DEF Cast
<1>2. IsFiniteSet(missing) /\ Cardinality(missing) \in Nat
  BY OtaAssumption, FS_Subset, FS_CardinalityType DEF OtaAssumption
<1>3. troubles \in Nat
  BY OtaAssumption DEF TypeOK, OtaAssumption
<1>4. Cardinality(missing) = 0
  BY <1>1, <1>2, <1>3
<1>5. missing = {}
  BY <1>2, <1>4, FS_EmptySet
<1> QED
  BY <1>1, <1>5

\* The report that Take sends.
Says(s, status, written) ==
  \E r \in Reports : up' = Append(up, r) /\ r.device = s /\ r.status = status /\ r.written = written

\* A station that does not fail, and whose report is not lost.
LEMMA CalmTake ==
  ASSUME TypeOK, troubles' = 0, NEW s \in Stations, NEW type, NEW state \in StationStates,
         NEW written \in 0..Chunks, NEW status \in Statuses, NEW cost \in Nat,
         Take(s, type, state, written, status, cost)
  PROVE  cost = 0 /\ Says(s, status, written)
<1>1. PICK missing \in 0..1 :
        /\ troubles' = troubles + cost + missing
        /\ up' = IF missing = 1 THEN up
                 ELSE Append(up, [device |-> s, status |-> status, written |-> written])
  BY DEF Take
<1>2. troubles \in Nat
  BY OtaAssumption DEF TypeOK, OtaAssumption
<1>3. cost = 0 /\ missing = 0
  BY <1>1, <1>2
<1> DEFINE r == [device |-> s, status |-> status, written |-> written]
<1>4. r \in Reports /\ r.device = s /\ r.status = status /\ r.written = written
  BY DEF Reports, Statuses
<1>5. up' = Append(up, r)
  BY <1>1, <1>3
<1> HIDE DEF r
<1> QED
  BY <1>3, <1>4, <1>5 DEF Says

\* What is lost stays lost, and a runOTA that has failed has.
LEMMA CalmBack ==
  ASSUME TypeOK, ChannelInv, [Next]_vars, Calm'
  PROVE  Calm
<1>1. troubles \in Nat /\ troubles' = 0 /\ phase' # "failed"
  BY OtaAssumption DEF TypeOK, Calm, OtaAssumption
<1>2. CASE MobctlStep
  <2>1. troubles <= troubles'
    BY <1>2, MobctlSends DEF SendsInPhase
  <2>2. phase # "failed"
    BY <1>1, <1>2, MobctlMoves
  <2> QED
    BY <1>1, <2>1, <2>2 DEF Calm
<1>3. CASE \E s \in Stations : StationStep(s)
  <2>1. troubles <= troubles' /\ phase' = phase
    BY <1>3, StationEffect DEF Takes, ctlVars
  <2> QED
    BY <1>1, <2>1 DEF Calm
<1>4. CASE Callback \/ UNCHANGED vars
  BY <1>1, <1>4 DEF Callback, Calm, vars, ctlVars
<1> QED
  BY <1>2, <1>3, <1>4 DEF Next, MobctlStep

\* ota_begin is on its way to everybody.
LEMMA CalmBegin ==
  ASSUME TypeOK, ChannelInv, BeginInv, PublishBegin, Calm'
  PROVE  CalmInv'
<1>1. /\ phase = "begin" /\ phase' = "discovering" /\ UNCHANGED <<devices, statusCh, up, station>>
      /\ Cast(Control("begin"))
  BY DEF PublishBegin, Goto
<1>2. Control("begin") \in Messages
  BY ControlTypes
<1>3. \A s \in Stations : down'[s] = Append(down[s], Control("begin"))
  BY <1>1, <1>2, CalmCast DEF Calm
<1>4. Heard' = {} /\ devices' = {}
  BY <1>1 DEF BeginInv, Heard
<1>5. ASSUME NEW s \in Stations PROVE Waits(s)'
  <2>1. down[s] = <<>> /\ In(s, "idle")
    BY <1>1 DEF ChannelInv, In
  <2>2. down'[s] = <<Control("begin")>>
    BY <1>3, <2>1
  <2> QED
    BY <1>1, <1>4, <2>1, <2>2 DEF Waits, In, Control
<1> QED
  BY <1>1, <1>4, <1>5 DEF CalmInv

\* A station that has reported "started" says nothing more yet.
LEMMA CalmDiscover ==
  ASSUME TypeOK, ReportInv, BeginInv, CalmInv, Calm, Discover, Calm'
  PROVE  CalmInv'
<1>h. PICK h : h = Head(statusCh)
  OBVIOUS
<1>1. /\ phase = "discovering" /\ statusCh # <<>> /\ statusCh' = Tail(statusCh)
      /\ statusCh \in Seq(Reports) /\ UNCHANGED <<up, station>>
  BY DEF Discover, TypeOK
<1>2. h \in Reports /\ ToSet(statusCh) = {h} \cup ToSet(statusCh')
  BY <1>h, <1>1, TailFacts
<1>3. \A b \in ToSet(statusCh') : Follows(h, b)
  BY <1>h, <1>1, RisesTail DEF ReportInv
<1>4. h \in Heard /\ h \in ToSet(statusCh)
  BY <1>2 DEF Heard
<1>5. \A b \in Heard' : Follows(h, b) /\ b \in Heard
  BY <1>1, <1>2, <1>3, <1>4 DEF Heard, ReportInv
<1>6. \A r \in Heard : r.status = "started" /\ r.device \notin devices
  BY <1>1 DEF CalmInv
<1>7. phase' = "discovering" /\ devices' = devices \cup {h.device} /\ UNCHANGED down
  BY <1>h, <1>1, <1>4, <1>6 DEF Discover
<1>8. \A r \in Heard' : r.status = "started" /\ r.device \notin devices'
  BY <1>4, <1>5, <1>6, <1>7 DEF Follows
<1>9. ASSUME NEW s \in Stations PROVE Waits(s)'
  <2>1. Waits(s)
    BY <1>1 DEF CalmInv
  <2>2. CASE In(s, "idle") /\ down[s] = <<Control("begin")>> /\ s \notin devices
    <3>1. down[s] # <<>> /\ Head(down[s]).type = "begin"
      BY <2>2 DEF Control
    <3>2. h.device # s
      BY <1>4, <3>1 DEF BeginInv
    <3> QED
      BY <1>1, <1>7, <2>2, <3>2 DEF Waits, In, Control
  <2>3. CASE In(s, "receiving") /\ down[s] = <<>>
    BY <1>1, <1>7, <2>3 DEF Waits, In
  <2> QED
    BY <2>1, <2>2, <2>3 DEF Waits
<1> QED
  BY <1>7, <1>8, <1>9 DEF CalmInv

\* The discovered stations are at the start of the stream.
LEMMA CalmWindow ==
  ASSUME TypeOK, ChannelInv, CalmInv, Calm, WindowCloses, Calm'
  PROVE  CalmInv'
<1>1. /\ phase = "discovering" /\ phase' = "sending"
      /\ UNCHANGED <<devices, offset, down, statusCh, up, station>>
  BY DEF WindowCloses, Goto, Calm
<1>2. offset = 0 /\ Width(offset) \in Nat /\ devices \subseteq Stations
  <2>1. offset = 0 /\ devices \subseteq Stations /\ Group \in Nat
    BY <1>1, OtaAssumption DEF ChannelInv, TypeOK, OtaAssumption
  <2> QED
    BY <2>1, WidthFacts
<1>3. \A r \in Heard' : r.device \notin devices'
  BY <1>1 DEF CalmInv, Heard
<1>4. ASSUME NEW s \in devices PROVE Streams(s)'
  <2>1. Waits(s) /\ s \in Stations
    BY <1>1, <1>2 DEF CalmInv
  <2>2. In(s, "receiving") /\ down[s] = <<>>
    BY <2>1 DEF Waits
  <2>3. station[s].written = 0
    BY <1>2, <2>1 DEF ChannelInv, TypeOK
  <2>4. Len(down[s]) = 0 /\ DOMAIN down[s] = {}
    BY <2>2
  <2>5. Width(offset)' = Width(offset)
    BY <1>1 DEF Width
  <2> QED
    BY <1>1, <1>2, <2>2, <2>3, <2>4, <2>5 DEF Streams, In
<1> QED
  BY <1>1, <1>3, <1>4 DEF CalmInv

\* The next chunk is on its way to everybody; a new group starts when nothing of
\* the old one is left.
LEMMA CalmChunk ==
  ASSUME TypeOK, ReportInv, WaitInv, CalmInv, Calm, PublishChunk, Calm'
  PROVE  CalmInv'
<1>m. PICK m : m = [type |-> "chunk", number |-> offset + 1]
  OBVIOUS
<1>1. /\ phase = "sending" /\ phase' \in {"sending", "waiting"} /\ offset' = offset + 1
      /\ UNCHANGED <<devices, statusCh, up, station>>
      /\ Cast(m) /\ offset \in Nat /\ offset + 1 \in 1..Chunks
      /\ devices \subseteq Stations
  BY <1>m, OtaAssumption DEF PublishChunk, TypeOK, fileVars, OtaAssumption
<1>2. m \in Messages
  BY <1>m, <1>1 DEF Messages
<1>3. \A s \in Stations : down'[s] = Append(down[s], m)
  BY <1>1, <1>2, CalmCast DEF Calm
<1>4. PICK w \in Nat, v \in Nat : /\ w = Width(offset) /\ v = Width(offset + 1) /\ v >= 1
                                  /\ offset % Group # 0 => v = w + 1
  BY <1>1, WidthFacts, OtaAssumption, offset + 1 \in Nat DEF OtaAssumption
<1>5. Width(offset)' = v
  BY <1>1, <1>4 DEF Width
<1>6. offset % Group = 0 => \A d \in devices : Settled(d)
  BY <1>1 DEF WaitInv, AtBoundary
<1>7. ASSUME NEW s \in devices PROVE Streams(s)'
  <2>1. Streams(s)
    BY <1>1 DEF CalmInv
  <2>2. down[s] \in Seq(Messages) /\ s \in Stations /\ station[s].written \in Nat
    BY <1>1 DEF TypeOK
  <2>3. /\ Len(down'[s]) = Len(down[s]) + 1 /\ Len(down[s]) \in Nat
        /\ DOMAIN down'[s] = DOMAIN down[s] \cup {Len(down[s]) + 1}
        /\ DOMAIN down[s] = 1..Len(down[s])
        /\ down'[s][Len(down[s]) + 1] = m
        /\ \A i \in DOMAIN down[s] : down'[s][i] = down[s][i]
    BY <1>2, <1>3, <2>2, AppendFacts
  <2>4. m.type = "chunk" /\ m.number = offset + 1
    BY <1>m
  <2>5. Len(down'[s]) + station[s].written = offset + 1
    BY <2>1, <2>2, <2>3 DEF Streams
  <2>6. offset + 1 = station[s].written + (Len(down[s]) + 1)
    BY <1>1, <2>2, <2>3, <2>5
  <2>7. \A i \in DOMAIN down'[s] : /\ down'[s][i].type = "chunk"
                                   /\ down'[s][i].number = station[s].written + i
    BY <2>1, <2>3, <2>4, <2>6 DEF Streams
  <2>8. station[s].written + v >= offset + 1
    <3>1. CASE offset % Group = 0
      <4>1. station[s].written >= offset
        BY <1>6, <3>1 DEF Settled
      <4> QED
        BY <1>1, <1>4, <2>2, <4>1
    <3>2. CASE offset % Group # 0
      <4>1. station[s].written + w >= offset /\ v = w + 1
        BY <1>4, <2>1, <3>2 DEF Streams
      <4> QED
        BY <1>1, <2>2, <4>1
    <3> QED
      BY <3>1, <3>2
  <2> QED
    BY <1>1, <1>5, <2>1, <2>5, <2>7, <2>8 DEF Streams, In
<1>8. ASSUME NEW r \in Heard, r.device \in devices
      PROVE  /\ r.status \in {"chunk", "done"}
             /\ r.status = "chunk" => r.written + v > offset + 1
  <2>1. /\ r.status \in {"chunk", "done"}
        /\ r.status = "chunk" => r.written + w > offset
    BY <1>1, <1>4, <1>8 DEF CalmInv
  <2>2. r.status = "chunk" => offset % Group # 0
    BY <1>6, <1>8 DEF Settled
  <2>3. r.written \in Nat
    <3>1. r \in Reports
      BY DEF Heard, ToSet, TypeOK
    <3> QED
      BY <3>1, OtaAssumption DEF Reports, OtaAssumption
  <2> QED
    BY <1>1, <1>4, <2>1, <2>2, <2>3
<1>9. Heard' = Heard
  BY <1>1 DEF Heard
<1> QED
  BY <1>1, <1>5, <1>7, <1>8, <1>9 DEF CalmInv

\* Everybody has all of it, and is told to finish.
LEMMA CalmFinish ==
  ASSUME TypeOK, WaitInv, CalmInv, Calm, PublishFinish, Calm'
  PROVE  CalmInv'
<1>1. /\ phase = "finish" /\ phase' = "finishing" /\ UNCHANGED <<devices, offset, statusCh, up, station>>
      /\ Cast(Control("finish")) /\ devices \subseteq Stations
  BY DEF PublishFinish, TypeOK
<1>2. Control("finish") \in Messages
  BY ControlTypes
<1>3. \A s \in Stations : down'[s] = Append(down[s], Control("finish"))
  BY <1>1, <1>2, CalmCast DEF Calm
<1>4. ASSUME NEW s \in devices PROVE Ends(s)'
  <2>1. Streams(s) /\ offset = Chunks /\ Complete(s)
    BY <1>1 DEF CalmInv, WaitInv
  <2>2. down[s] \in Seq(Messages) /\ Chunks \in Nat /\ s \in Stations
    BY <1>1, OtaAssumption DEF TypeOK, OtaAssumption
  <2>3. Len(down[s]) + Chunks = Chunks
    BY <2>1 DEF Streams, Complete
  <2>4. down[s] = <<>>
    BY <2>2, <2>3
  <2>5. down'[s] = <<Control("finish")>>
    BY <1>3, <2>2, <2>4
  <2> QED
    BY <1>1, <2>1, <2>5 DEF Ends, Streams, In, Control
<1>5. Heard' = Heard /\ Width(offset)' = Width(offset)
  BY <1>1 DEF Heard, Width
<1> QED
  BY <1>1, <1>4, <1>5 DEF CalmInv

\* The steps that only take reports away.
LEMMA CalmQuiet ==
  ASSUME CalmInv, Calm, UNCHANGED <<devices, offset, down, station>>, Heard' \subseteq Heard,
         \/ phase' = phase \/ phase' = "ok"
         \/ phase \in {"sending", "waiting"} /\ phase' \in {"sending", "waiting", "finish"}
  PROVE  CalmInv'
<1>1. Width(offset)' = Width(offset)
  BY DEF Width
<1>2. \A s : /\ Waits(s) => Waits(s)'
             /\ Streams(s) => Streams(s)'
             /\ Ends(s) => Ends(s)'
  BY <1>1 DEF Waits, Streams, Ends, In, Control
<1> HIDE DEF Waits, Streams, Ends
<1> QED
  BY <1>1, <1>2 DEF CalmInv

\* A station that takes ota_begin: it reports "started", for the first time.
LEMMA WaitsTake ==
  ASSUME TypeOK, ChannelInv, NEW s \in Stations, Waits(s), StationStep(s), troubles' = 0
  PROVE  /\ s \notin devices /\ station'[s].state = "receiving" /\ down'[s] = <<>>
         /\ \E r \in Reports : up' = Append(up, r) /\ r.device = s /\ r.status = "started"
<1>1. down[s] # <<>> /\ down'[s] = Tail(down[s])
  BY StationEffect DEF Takes
<1>2. In(s, "idle") /\ s \notin devices /\ down[s] = <<Control("begin")>>
  BY <1>1 DEF Waits
<1>3. Head(down[s]).type = "begin" /\ down'[s] = <<>>
  BY <1>1, <1>2 DEF Control
<1>4. /\ "receiving" \in StationStates /\ "failed" \in StationStates
      /\ "started" \in Statuses /\ "begin_failed" \in Statuses /\ "anonymous" \in Statuses
      /\ 0 \in 0..Chunks /\ 0 \in Nat /\ 1 \in Nat
  BY OtaAssumption DEF StationStates, Statuses, OtaAssumption
<1>5. StationBegins(s)
  BY <1>2, <1>3 DEF StationStep, StationWrites, StationFinishes, StationIgnores, In
<1>6. ASSUME NEW status \in {"begin_failed", "anonymous"}, Take(s, "begin", "failed", 0, status, 1)
      PROVE  FALSE
  <2>1. status \in Statuses
    BY <1>4
  <2>2. 1 = 0
    BY <1>4, <1>6, <2>1, CalmTake
  <2> QED
    BY <2>2
<1>7. Take(s, "begin", "receiving", 0, "started", 0)
  BY <1>5, <1>6 DEF StationBegins
<1>8. Took(s, "begin", "receiving", 0, "started")
  BY <1>4, <1>7, TakeEffect
<1>9. Says(s, "started", 0)
  BY <1>4, <1>7, CalmTake
<1> QED
  BY <1>2, <1>3, <1>8, <1>9 DEF Took, Says

\* A station in the middle of the stream: it writes the next chunk.
LEMMA StreamsTake ==
  ASSUME TypeOK, ChannelInv, NEW s \in Stations, Streams(s), StationStep(s), troubles' = 0
  PROVE  /\ station'[s].state = "receiving" /\ station'[s].written = station[s].written + 1
         /\ \E r \in Reports : /\ up' = Append(up, r) /\ r.device = s
                               /\ r.status = "chunk" /\ r.written = station[s].written + 1
<1>w. PICK n : n = station[s].written
  OBVIOUS
<1>1. down[s] # <<>> /\ down[s] \in Seq(Messages) /\ station'[s].written \in 0..Chunks
  BY StationEffect DEF Takes, TypeOK
<1>2. 1 \in DOMAIN down[s] /\ Head(down[s]) = down[s][1]
  BY <1>1, TailFacts
<1>3. In(s, "receiving") /\ Head(down[s]).type = "chunk" /\ Head(down[s]).number = n + 1
  BY <1>w, <1>2 DEF Streams
<1>4. n \in 0..Chunks /\ n + 1 <= offset /\ offset \in 0..Chunks /\ Chunks \in Nat
  BY <1>w, <1>2, <1>3, OtaAssumption DEF TypeOK, ChannelInv, OtaAssumption
<1>5. /\ "receiving" \in StationStates /\ "failed" \in StationStates
      /\ "chunk" \in Statuses /\ "chunk_failed" \in Statuses
      /\ 0 \in Nat /\ 1 \in Nat /\ n + 1 \in 0..Chunks
  BY <1>4 DEF StationStates, Statuses
<1>6. StationWrites(s)
  BY <1>3 DEF StationStep, StationBegins, StationFinishes, StationIgnores, In, Take
<1>7. Take(s, "chunk", "receiving", n + 1, "chunk", 0) \/ Take(s, "chunk", "failed", n, "chunk_failed", 1)
  BY <1>w, <1>3, <1>6 DEF StationWrites
<1>8. ASSUME Take(s, "chunk", "failed", n, "chunk_failed", 1) PROVE FALSE
  <2>1. 1 = 0
    BY <1>4, <1>5, <1>8, CalmTake
  <2> QED
    BY <2>1
<1>9. Take(s, "chunk", "receiving", n + 1, "chunk", 0)
  BY <1>7, <1>8
<1>10. Took(s, "chunk", "receiving", n + 1, "chunk")
  BY <1>5, <1>9, TakeEffect
<1>11. Says(s, "chunk", n + 1)
  BY <1>5, <1>9, CalmTake
<1> QED
  BY <1>w, <1>10, <1>11 DEF Took, Says

\* A station at the end of the stream: it is done.
LEMMA EndsTake ==
  ASSUME TypeOK, ChannelInv, NEW s \in Stations, Ends(s), Complete(s), StationStep(s), troubles' = 0
  PROVE  /\ station'[s].state = "done" /\ down'[s] = <<>>
         /\ \E r \in Reports : up' = Append(up, r) /\ r.device = s /\ r.status = "done"
<1>1. down[s] # <<>> /\ down'[s] = Tail(down[s])
  BY StationEffect DEF Takes
<1>2. In(s, "receiving") /\ down[s] = <<Control("finish")>>
  BY <1>1 DEF Ends
<1>3. Head(down[s]).type = "finish" /\ down'[s] = <<>>
  BY <1>1, <1>2 DEF Control
<1>4. /\ "done" \in StationStates /\ "failed" \in StationStates
      /\ "done" \in Statuses /\ "finish_failed" \in Statuses
      /\ Chunks \in 0..Chunks /\ 0 \in Nat /\ 1 \in Nat
  BY OtaAssumption DEF StationStates, Statuses, OtaAssumption
<1>5. StationFinishes(s)
  BY <1>2, <1>3 DEF StationStep, StationBegins, StationWrites, StationIgnores, In, Take
<1>6. \/ Take(s, "finish", "done", Chunks, "done", 0)
      \/ Take(s, "finish", "failed", Chunks, "finish_failed", 1)
  BY <1>5 DEF StationFinishes, Complete
<1>7. ASSUME Take(s, "finish", "failed", Chunks, "finish_failed", 1) PROVE FALSE
  <2>1. 1 = 0
    BY <1>4, <1>7, CalmTake
  <2> QED
    BY <2>1
<1>8. Take(s, "finish", "done", Chunks, "done", 0)
  BY <1>6, <1>7
<1>9. Took(s, "finish", "done", Chunks, "done")
  BY <1>4, <1>8, TakeEffect
<1>10. Says(s, "done", Chunks)
  BY <1>4, <1>8, CalmTake
<1> QED
  BY <1>3, <1>9, <1>10 DEF Took, Says

\* One report more.
LEMMA OneMore ==
  ASSUME TypeOK, statusCh' = statusCh, NEW r \in Reports, up' = Append(up, r)
  PROVE  Heard' = Heard \cup {r}
<1>1. ToSet(up') = ToSet(up) \cup {r}
  BY AppendFacts DEF TypeOK
<1> QED
  BY <1>1 DEF Heard

\* The others are where they were.
LEMMA OthersCalm ==
  ASSUME NEW s \in Stations, Takes(s), NEW t \in Stations \ {s}
  PROVE  /\ Waits(t) => Waits(t)'
         /\ Streams(t) => Streams(t)'
         /\ Ends(t) => Ends(t)'
<1>1. down'[t] = down[t] /\ station'[t] = station[t] /\ devices' = devices /\ offset' = offset
  BY DEF Takes, ctlVars
<1>2. Width(offset)' = Width(offset)
  BY <1>1 DEF Width
<1> QED
  BY <1>1, <1>2 DEF Waits, Streams, Ends, In, Control

LEMMA CalmStation ==
  ASSUME TypeOK, ChannelInv, BeginInv, WaitInv, CalmInv, Calm, Calm',
         NEW s \in Stations, StationStep(s)
  PROVE  CalmInv'
<1>1. Takes(s) /\ StationMoves(s)
  BY StationEffect
<1>2. /\ UNCHANGED <<phase, devices, offset, statusCh>> /\ troubles' = 0
      /\ down[s] # <<>> /\ down'[s] = Tail(down[s]) /\ down[s] \in Seq(Messages)
      /\ devices \subseteq Stations
  BY <1>1 DEF Takes, ctlVars, Calm, TypeOK
<1>3. Width(offset)' = Width(offset)
  BY <1>2 DEF Width
<1>4. CASE phase = "discovering"
  <2>1. Waits(s)
    BY <1>4 DEF CalmInv
  <2>2. s \notin devices /\ station'[s].state = "receiving" /\ down'[s] = <<>>
    BY <1>2, <2>1, WaitsTake
  <2>3. PICK r \in Reports : up' = Append(up, r) /\ r.device = s /\ r.status = "started"
    BY <1>2, <2>1, WaitsTake
  <2>4. Heard' = Heard \cup {r}
    BY <1>2, <2>3, OneMore
  <2>5. \A t \in Stations : Waits(t)'
    <3> SUFFICES ASSUME NEW t \in Stations PROVE Waits(t)'
      OBVIOUS
    <3>1. CASE t = s
      BY <2>2, <3>1 DEF Waits, In
    <3>2. CASE t # s
      BY <1>1, <1>4, <3>2, OthersCalm DEF CalmInv
    <3> QED
      BY <3>1, <3>2
  <2> QED
    BY <1>2, <1>4, <2>2, <2>3, <2>4, <2>5 DEF CalmInv
<1>5. CASE phase \in {"sending", "waiting", "finish", "finishing"} /\ s \notin devices
  <2>1. \A r \in Heard' : r \in Heard \/ r.device = s
    <3>1. CASE up' = up
      BY <1>2, <3>1 DEF Heard
    <3>2. CASE \E r \in Reports : up' = Append(up, r) /\ r.device = s
      BY <1>2, <3>2, OneMore
    <3> QED
      BY <1>1, <3>1, <3>2 DEF StationMoves
  <2>2. \A t \in devices : /\ Streams(t) => Streams(t)'
                           /\ Ends(t) => Ends(t)'
    BY <1>1, <1>2, <1>5, OthersCalm
  <2> HIDE DEF Streams, Ends
  <2> QED
    BY <1>2, <1>3, <1>5, <2>1, <2>2 DEF CalmInv
<1>6. CASE phase \in {"sending", "waiting", "finish"} /\ s \in devices
  <2>1. Streams(s)
    BY <1>6 DEF CalmInv
  <2>2. /\ station'[s].state = "receiving" /\ station'[s].written = station[s].written + 1
    BY <1>2, <2>1, StreamsTake
  <2>3. PICK r \in Reports : /\ up' = Append(up, r) /\ r.device = s
                             /\ r.status = "chunk" /\ r.written = station[s].written + 1
    BY <1>2, <2>1, StreamsTake
  <2>4. Heard' = Heard \cup {r}
    BY <1>2, <2>3, OneMore
  <2>5. PICK n \in Nat, w \in Nat : n = station[s].written /\ w = Width(offset)
    <3>1. station[s].written \in Nat /\ offset \in Nat /\ Group \in Nat
      BY OtaAssumption DEF TypeOK, OtaAssumption
    <3> QED
      BY <3>1, WidthFacts
  <2>6. offset \in Nat /\ n + w >= offset
    BY <2>1, <2>5, OtaAssumption DEF Streams, TypeOK, OtaAssumption
  <2>7. Streams(s)'
    <3>1. /\ Len(down'[s]) = Len(down[s]) - 1 /\ Len(down[s]) \in Nat \ {0}
          /\ \A i \in DOMAIN down'[s] :
               i \in Nat \ {0} /\ i + 1 \in DOMAIN down[s] /\ down'[s][i] = down[s][i + 1]
      BY <1>2, TailFacts
    <3>2. Len(down[s]) + n = offset
      BY <2>1, <2>5 DEF Streams
    <3>3. Len(down'[s]) + (n + 1) = offset
      <4>1. PICK k \in Nat \ {0} : k = Len(down[s]) /\ Len(down'[s]) = k - 1
        BY <3>1
      <4>2. k + n = offset
        BY <3>2, <4>1
      <4>3. (k - 1) + (n + 1) = k + n
        OBVIOUS
      <4> QED
        BY <4>1, <4>2, <4>3
    <3>4. \A i \in DOMAIN down'[s] : down'[s][i].type = "chunk" /\ down'[s][i].number = (n + 1) + i
      <4> SUFFICES ASSUME NEW i \in DOMAIN down'[s]
                   PROVE  down'[s][i].type = "chunk" /\ down'[s][i].number = (n + 1) + i
        OBVIOUS
      <4>1. down'[s][i].type = "chunk" /\ down'[s][i].number = n + (i + 1)
        BY <2>1, <2>5, <3>1 DEF Streams
      <4>2. i \in Nat
        BY <3>1
      <4>3. n + (i + 1) = (n + 1) + i
        BY <4>2
      <4> QED
        BY <4>1, <4>3
    <3>5. (n + 1) + w >= offset
      BY <2>6
    <3> QED
      BY <1>2, <1>3, <2>2, <2>5, <3>3, <3>4, <3>5 DEF Streams, In
  <2>8. r.written + w > offset
    BY <2>3, <2>5, <2>6
  <2>9. \A t \in devices : Streams(t)'
    BY <1>1, <1>2, <1>6, <2>7, OthersCalm DEF CalmInv
  <2> HIDE DEF Streams
  <2> QED
    BY <1>2, <1>3, <1>6, <2>3, <2>4, <2>5, <2>8, <2>9 DEF CalmInv
<1>7. CASE phase = "finishing" /\ s \in devices
  <2>1. Ends(s) /\ Complete(s)
    BY <1>7 DEF CalmInv, WaitInv
  <2>2. station'[s].state = "done" /\ down'[s] = <<>>
    BY <1>2, <2>1, EndsTake
  <2>3. PICK r \in Reports : up' = Append(up, r) /\ r.device = s /\ r.status = "done"
    BY <1>2, <2>1, EndsTake
  <2>4. Heard' = Heard \cup {r}
    BY <1>2, <2>3, OneMore
  <2>5. \A t \in devices : Ends(t)'
    <3> SUFFICES ASSUME NEW t \in devices PROVE Ends(t)'
      BY <1>2
    <3>1. CASE t = s
      BY <2>2, <3>1 DEF Ends, In
    <3>2. CASE t # s
      BY <1>1, <1>2, <1>7, <3>2, OthersCalm DEF CalmInv
    <3> QED
      BY <3>1, <3>2
  <2> HIDE DEF Ends
  <2> QED
    BY <1>2, <1>3, <1>7, <2>3, <2>4, <2>5 DEF CalmInv
<1>8. CASE phase \notin {"discovering", "sending", "waiting", "finish", "finishing"}
  BY <1>2, <1>8 DEF CalmInv
<1> QED
  BY <1>4, <1>5, <1>6, <1>7, <1>8

LEMMA CalmStep ==
  ASSUME TypeOK, ChannelInv, ReportInv, BeginInv, WaitInv, CalmInv, [Next]_vars
  PROVE  CalmInv'
<1> SUFFICES ASSUME Calm' PROVE CalmInv'
  BY DEF CalmInv
<1>1. Calm
  BY CalmBack
<1>2. CASE PublishBegin
  BY <1>2, CalmBegin
<1>3. CASE Discover
  BY <1>1, <1>3, CalmDiscover
<1>4. CASE WindowCloses
  BY <1>1, <1>4, CalmWindow
<1>5. CASE PublishChunk
  BY <1>1, <1>5, CalmChunk
<1>6. CASE PublishFinish
  BY <1>1, <1>6, CalmFinish
<1>7. CASE \E s \in Stations : StationStep(s)
  BY <1>1, <1>7, CalmStation
<1>8. CASE ReadEOF \/ SkipReport \/ TakeAck \/ Callback \/ UNCHANGED vars
  <2>1. Heard' \subseteq Heard
    <3>1. CASE UNCHANGED vars
      BY <3>1 DEF Heard, vars
    <3> QED
      BY <1>8, <3>1, MobctlHears, CallbackHears DEF MobctlStep
  <2>2. /\ UNCHANGED <<devices, offset, down, station>>
        /\ \/ phase' = phase \/ phase' = "ok"
           \/ phase \in {"sending", "waiting"} /\ phase' \in {"sending", "waiting", "finish"}
    BY <1>8 DEF ReadEOF, SkipReport, TakeAck, Waiting, Callback, Calm, vars, ctlVars, fileVars
  <2> QED
    BY <1>1, <2>1, <2>2, CalmQuiet
<1>9. CASE PublishFails \/ TakeFailure \/ Timeout \/ Interrupt
  BY <1>9 DEF PublishFails, TakeFailure, Timeout, Interrupt, GiveUp, Goto, Calm
<1> QED
  BY <1>2, <1>3, <1>4, <1>5, <1>6, <1>7, <1>8, <1>9 DEF Next

-----------------------------------------------------------------------------
(* A channel that is large enough. *)

\* The reports of a small fleet: one for each station, or for each of its chunks of
\* the group that is waited for.  One more than those in the channel still fits.
LEMMA RoomInChannel ==
  ASSUME TypeOK, ChannelInv, ReportInv, WaitInv, CalmInv, Calm, SmallFleet,
         phase \in {"waiting", "finishing"}, up # <<>>
  PROVE  Len(statusCh) < StatusCap
<1>q. PICK q : q = Append(statusCh, Head(up))
  OBVIOUS
<1>1. /\ statusCh \in Seq(Reports) /\ up \in Seq(Reports)
      /\ devices = Stations /\ IsFiniteSet(Stations) /\ Cardinality(Stations) * Group <= StatusCap
      /\ Group \in Nat \ {0} /\ StatusCap \in Nat /\ offset \in Nat /\ Chunks \in Nat
  BY OtaAssumption DEF TypeOK, SmallFleet, OtaAssumption
<1>2. Head(up) \in Reports /\ Head(up) \in ToSet(up)
  BY <1>1, TailFacts
<1>3. /\ q \in Seq(Reports) /\ Len(q) = Len(statusCh) + 1 /\ Len(statusCh) \in Nat
      /\ DOMAIN q = 1..Len(q) /\ ToSet(q) = ToSet(statusCh) \cup {Head(up)}
  BY <1>q, <1>1, <1>2, AppendFacts
<1>4. ChunksRise(q)
  BY <1>q, <1>1, <1>2, RisesAppend DEF ReportInv
<1>5. \A i \in 1..Len(q) : q[i] \in Heard /\ q[i].device \in Stations /\ q[i].written \in Nat
  <2> SUFFICES ASSUME NEW i \in 1..Len(q)
               PROVE  q[i] \in Heard /\ q[i].device \in Stations /\ q[i].written \in Nat
    OBVIOUS
  <2>1. q[i] \in ToSet(q) /\ q[i] \in Reports
    BY <1>3 DEF ToSet
  <2>2. q[i] \in Heard
    BY <1>2, <1>3, <2>1 DEF Heard
  <2> QED
    BY <1>1, <2>1, <2>2 DEF Reports
<1>6. PICK w \in 1..Group : w = Width(offset)
  BY <1>1, WidthFacts
<1>7. \A i \in 1..Len(q) :
        \/ /\ phase = "waiting" /\ q[i].status = "chunk"
           /\ q[i].written + w > offset /\ q[i].written <= offset
        \/ phase = "finishing" /\ q[i].status = "done"
  <2> SUFFICES ASSUME NEW i \in 1..Len(q)
               PROVE  \/ /\ phase = "waiting" /\ q[i].status = "chunk"
                         /\ q[i].written + w > offset /\ q[i].written <= offset
                      \/ phase = "finishing" /\ q[i].status = "done"
    OBVIOUS
  <2>1. /\ q[i].status \in {"chunk", "done"}
        /\ q[i].status = "chunk" => q[i].written + w > offset
    BY <1>1, <1>5, <1>6 DEF CalmInv
  <2>2. CASE phase = "waiting"
    <3>1. q[i].status # "done"
      BY <1>5, <2>2 DEF ReportInv, ChannelInv, Later
    <3>2. /\ q[i].written <= station[q[i].device].written
          /\ station[q[i].device].written <= offset /\ station[q[i].device].written \in Nat
      BY <1>5 DEF ReportInv, ChannelInv, TypeOK
    <3>3. q[i].written <= offset
      BY <1>1, <1>5, <3>2
    <3> QED
      BY <2>1, <2>2, <3>1, <3>3
  <2>3. CASE phase = "finishing"
    <3>1. Settled(q[i].device)
      BY <1>1, <1>5, <2>3 DEF WaitInv
    <3> QED
      BY <1>5, <2>1, <2>3, <3>1 DEF Settled
  <2> QED
    BY <2>2, <2>3
<1> DEFINE place(r) == IF phase = "waiting" THEN r.written + w - offset ELSE 1
           f == [i \in 1..Len(q) |-> <<q[i].device, place(q[i])>>]
<1>8. \A i \in 1..Len(q) : place(q[i]) \in 1..Group
  <2> SUFFICES ASSUME NEW i \in 1..Len(q) PROVE place(q[i]) \in 1..Group
    OBVIOUS
  <2>1. CASE phase = "waiting"
    <3>1. PICK n \in Nat : n = q[i].written /\ n + w > offset /\ n <= offset
      BY <1>5, <1>7, <2>1
    <3>2. n + w - offset \in 1..Group
      BY <1>1, <1>6, <3>1
    <3> QED
      BY <2>1, <3>1, <3>2
  <2>2. CASE phase # "waiting"
    BY <1>1, <2>2
  <2> QED
    BY <2>1, <2>2
<1>9. \A i, k \in 1..Len(q) : i < k => f[i] # f[k]
  <2> SUFFICES ASSUME NEW i \in 1..Len(q), NEW k \in 1..Len(q), i < k,
                      q[i].device = q[k].device, place(q[i]) = place(q[k])
               PROVE  FALSE
    OBVIOUS
  <2>1. Follows(q[i], q[k])
    BY <1>3, <1>4 DEF ChunksRise
  <2>2. CASE phase = "waiting"
    <3>1. q[i].written < q[k].written
      BY <1>7, <2>1, <2>2 DEF Follows
    <3>2. PICK n \in Nat, m \in Nat : n = q[i].written /\ m = q[k].written
      BY <1>5
    <3>3. n + w - offset = m + w - offset /\ n < m
      BY <2>2, <3>1, <3>2
    <3> QED
      BY <1>1, <1>6, <3>3
  <2>3. CASE phase = "finishing"
    BY <1>7, <2>1, <2>3 DEF Follows
  <2> QED
    BY <2>2, <2>3
<1>10. f \in Injection(1..Len(q), Stations \X (1..Group))
  <2>1. f \in [1..Len(q) -> Stations \X (1..Group)]
    BY <1>5, <1>8
  <2>2. \A i, k \in 1..Len(q) : f[i] = f[k] => i = k
    <3> HIDE DEF f
    <3> QED
      BY <1>3, <1>9
  <2> HIDE DEF f
  <2> QED
    BY <2>1, <2>2 DEF Injection, IsInjective
<1> HIDE DEF f
<1>11. IsFiniteSet(1..Group) /\ Cardinality(1..Group) = Group
  BY <1>1, FS_Interval
<1>12. /\ IsFiniteSet(Stations \X (1..Group))
       /\ Cardinality(Stations \X (1..Group)) = Cardinality(Stations) * Group
  BY <1>1, <1>11, FS_Product
<1>13. Cardinality(1..Len(q)) <= Cardinality(Stations) * Group
  BY <1>10, <1>12, FS_Injection
<1>14. Cardinality(1..Len(q)) = Len(q)
  BY <1>3, FS_Interval
<1>15. Cardinality(Stations) * Group \in Nat
  BY <1>1, FS_CardinalityType
<1> QED
  BY <1>1, <1>3, <1>13, <1>14, <1>15

\* A report that is not the one that runOTA takes is still to be heard.
LEMMA StillHeard ==
  ASSUME TypeOK, statusCh # <<>>, statusCh' = Tail(statusCh), up' = up,
         NEW r \in Heard, r # Head(statusCh)
  PROVE  r \in Heard'
<1>1. ToSet(statusCh) = {Head(statusCh)} \cup ToSet(Tail(statusCh))
  BY TailFacts DEF TypeOK
<1> QED
  BY <1>1 DEF Heard

LEMMA AckMobctl ==
  ASSUME TypeOK, ChannelInv, ReportInv, WaitInv, AckInv, Calm, MobctlStep
  PROVE  AckInv'
<1>c. Chunks \in Nat
  BY OtaAssumption DEF OtaAssumption
<1>1. CASE PublishChunk
  <2>1. /\ phase' \in {"sending", "waiting"} /\ offset' = offset + 1 /\ station' = station
        /\ remaining' \subseteq Stations
    BY <1>1 DEF PublishChunk, TypeOK
  <2>2. \A s \in Stations : station'[s].written # offset'
    BY <2>1 DEF ChannelInv, TypeOK
  <2> QED
    BY <2>1, <2>2 DEF AckInv
<1>2. CASE ReadEOF
  <2>1. phase = "sending" /\ offset = file /\ file' = file /\ offset # Chunks
    BY <1>2 DEF ReadEOF, WaitInv
  <2> QED
    BY <2>1 DEF AckInv, SmallFleet
<1>3. CASE PublishFinish
  <2>1. phase = "finish" /\ phase' = "finishing" /\ station' = station /\ remaining' \subseteq Stations
    BY <1>3 DEF PublishFinish, TypeOK
  <2>2. \A s \in Stations : ~In(s, "done")
    BY <2>1 DEF ChannelInv, Later
  <2> QED
    BY <2>1, <2>2 DEF AckInv, In
<1>4. CASE SkipReport \/ TakeAck
  <2>1. /\ Waiting /\ statusCh # <<>> /\ statusCh' = Tail(statusCh)
        /\ UNCHANGED <<file, devices, offset, up, station>>
        /\ remaining' \subseteq remaining
        /\ phase' = "waiting" => phase = "waiting"
        /\ phase' = "finishing" => phase = "finishing"
    BY <1>4 DEF SkipReport, TakeAck, Waiting, ctlVars, fileVars
  <2>2. SmallFleet' => SmallFleet
    BY <2>1 DEF SmallFleet
  <2>3. ASSUME NEW r \in Heard, Acks(r), r.device \in remaining'
        PROVE  r \in Heard'
    <3>1. r # Head(statusCh)
      BY <1>4, <2>3 DEF SkipReport, TakeAck
    <3> QED
      BY <2>1, <3>1, StillHeard
  <2>4. ASSUME SmallFleet, phase = "waiting", phase' = "waiting", NEW s \in remaining',
               station'[s].written = offset'
        PROVE  \E r \in Heard' : r.device = s /\ r.status = "chunk" /\ r.written = offset'
    <3>1. PICK r \in Heard : r.device = s /\ r.status = "chunk" /\ r.written = offset
      BY <2>1, <2>4 DEF AckInv
    <3>2. Acks(r)
      BY <2>1, <2>4, <3>1 DEF Acks, TypeOK
    <3> QED
      BY <2>1, <2>3, <3>1, <3>2
  <2>5. ASSUME SmallFleet, phase = "finishing", phase' = "finishing", NEW s \in remaining', In(s, "done")'
        PROVE  \E r \in Heard' : r.device = s /\ r.status = "done"
    <3>1. PICK r \in Heard : r.device = s /\ r.status = "done"
      BY <2>1, <2>5 DEF AckInv, In
    <3>2. Acks(r)
      <4>1. s \in devices /\ Complete(s) /\ offset = Chunks
        BY <2>1, <2>5 DEF WaitInv, TypeOK
      <4> QED
        BY <1>c, <2>1, <2>5, <3>1, <4>1 DEF Acks, TypeOK, ReportInv
    <3> QED
      BY <2>3, <3>1, <3>2
  <2> QED
    BY <2>1, <2>2, <2>4, <2>5 DEF AckInv
<1>5. CASE PublishBegin \/ Discover \/ WindowCloses \/ PublishFails \/ TakeFailure \/ Timeout \/ Interrupt
  <2>1. phase' \in {"discovering", "sending", "failed"}
    BY <1>5 DEF PublishBegin, Discover, WindowCloses, PublishFails, TakeFailure, Timeout, Interrupt,
       GiveUp, Goto
  <2> QED
    BY <2>1 DEF AckInv
<1> QED
  BY <1>1, <1>2, <1>3, <1>4, <1>5 DEF MobctlStep

LEMMA AckStation ==
  ASSUME TypeOK, ChannelInv, WaitInv, CalmInv, AckInv, Calm, Calm', SmallFleet,
         NEW s \in Stations, StationStep(s)
  PROVE  AckInv'
<1>1. /\ Takes(s) /\ UNCHANGED <<phase, devices, remaining, offset, statusCh>> /\ troubles' = 0
      /\ devices = Stations /\ remaining \subseteq Stations
  BY StationEffect DEF Takes, ctlVars, Calm, SmallFleet, TypeOK
<1>2. Heard \subseteq Heard'
  <2>1. CASE up' = up
    BY <1>1, <2>1 DEF Heard
  <2>2. CASE \E r \in Reports : up' = Append(up, r)
    BY <1>1, <2>2, OneMore
  <2> QED
    BY <2>1, <2>2, StationEffect DEF StationMoves
<1>3. ASSUME phase = "waiting", NEW t \in remaining, station'[t].written = offset
      PROVE  \E r \in Heard' : r.device = t /\ r.status = "chunk" /\ r.written = offset
  <2>1. CASE t = s
    <3>1. Streams(s)
      BY <1>1, <1>3 DEF CalmInv
    <3>2. PICK r \in Reports : /\ up' = Append(up, r) /\ r.device = s
                               /\ r.status = "chunk" /\ r.written = station[s].written + 1
      BY <1>1, <3>1, StreamsTake
    <3>3. station'[s].written = station[s].written + 1
      BY <1>1, <3>1, StreamsTake
    <3>4. r \in Heard'
      BY <1>1, <3>2, OneMore
    <3> QED
      BY <1>3, <2>1, <3>2, <3>3, <3>4
  <2>2. CASE t # s
    BY <1>1, <1>2, <1>3, <2>2 DEF AckInv, Takes
  <2> QED
    BY <2>1, <2>2
<1>4. ASSUME phase = "finishing", NEW t \in remaining, In(t, "done")'
      PROVE  \E r \in Heard' : r.device = t /\ r.status = "done"
  <2>1. CASE t = s
    <3>1. Ends(s) /\ Complete(s)
      BY <1>1, <1>4 DEF CalmInv, WaitInv
    <3>2. PICK r \in Reports : up' = Append(up, r) /\ r.device = s /\ r.status = "done"
      BY <1>1, <3>1, EndsTake
    <3>3. r \in Heard'
      BY <1>1, <3>2, OneMore
    <3> QED
      BY <2>1, <3>2, <3>3
  <2>2. CASE t # s
    BY <1>1, <1>2, <1>4, <2>2 DEF AckInv, Takes, In
  <2> QED
    BY <2>1, <2>2
<1> QED
  BY <1>1, <1>3, <1>4 DEF AckInv

\* The callback throws nothing away.
LEMMA AckCallback ==
  ASSUME TypeOK, ChannelInv, ReportInv, WaitInv, CalmInv, AckInv, Calm, SmallFleet, Callback
  PROVE  AckInv'
<1>1. UNCHANGED <<phase, devices, remaining, offset, station>> /\ up # <<>>
  BY DEF Callback, ctlVars
<1>2. CASE phase \in {"waiting", "finishing"}
  <2>1. statusCh' = Append(statusCh, Head(up))
    BY <1>1, <1>2, RoomInChannel DEF Callback
  <2>2. /\ ToSet(up) = {Head(up)} \cup ToSet(up')
        /\ ToSet(statusCh') = ToSet(statusCh) \cup {Head(up)}
    <3>1. ToSet(up) = {Head(up)} \cup ToSet(up') /\ Head(up) \in Reports
      BY CallbackEffect
    <3> QED
      BY <2>1, <3>1, AppendFacts DEF TypeOK
  <2>3. Heard' = Heard
    BY <2>2 DEF Heard
  <2> QED
    BY <1>1, <2>3 DEF AckInv, In
<1>3. CASE phase \notin {"waiting", "finishing"}
  BY <1>1, <1>3 DEF AckInv
<1> QED
  BY <1>2, <1>3

LEMMA AckStep ==
  ASSUME TypeOK, ChannelInv, ReportInv, WaitInv, CalmInv, AckInv, [Next]_vars
  PROVE  AckInv'
<1> SUFFICES ASSUME Calm', SmallFleet' PROVE AckInv'
  BY DEF AckInv
<1>1. Calm
  BY CalmBack
<1>2. CASE MobctlStep
  BY <1>1, <1>2, AckMobctl
<1>3. CASE \E s \in Stations : StationStep(s)
  <2>1. SmallFleet
    BY <1>3, StationEffect DEF Takes, ctlVars, fileVars, SmallFleet
  <2> QED
    BY <1>1, <1>3, <2>1, AckStation
<1>4. CASE Callback
  <2>1. SmallFleet
    BY <1>4 DEF Callback, ctlVars, fileVars, SmallFleet
  <2> QED
    BY <1>1, <1>4, <2>1, AckCallback
<1>5. CASE UNCHANGED vars
  BY <1>1, <1>5 DEF AckInv, SmallFleet, Heard, In, vars, ctlVars, fileVars
<1> QED
  BY <1>2, <1>3, <1>4, <1>5 DEF Next, MobctlStep

-----------------------------------------------------------------------------
LEMMA InvHolds == Spec => []IInv
<1>1. Init => IInv
  <2> SUFFICES ASSUME Init PROVE IInv
    OBVIOUS
  <2>1. TypeOK
    <3>1. eof \in BOOLEAN
      BY Zenon DEF Init
    <3> QED
      BY <3>1, OtaAssumption DEF Init, TypeOK, OtaAssumption
  <2>2. ChannelInv
    BY DEF Init, ChannelInv, In
  <2>6. SomeoneInv
    BY DEF Init, SomeoneInv
  <2>7. CalmInv /\ AckInv
    BY DEF Init, CalmInv, AckInv
  <2>9. LagInv /\ OpenInv
    BY DEF Init, LagInv, OpenInv
  <2>3. ToSet(statusCh) = {} /\ ToSet(up) = {} /\ DOMAIN statusCh = {} /\ DOMAIN up = {}
    BY DEF Init, ToSet
  <2>4. ReportInv
    BY <2>3 DEF ReportInv, Heard, ChunksRise
  <2>5. WaitInv
    BY DEF Init, WaitInv
  <2>8. BeginInv
    BY <2>3 DEF Init, BeginInv, Heard
  <2> QED
    BY <2>1, <2>2, <2>4, <2>5, <2>6, <2>7, <2>8, <2>9 DEF IInv
<1>2. IInv /\ [Next]_vars => IInv'
  BY TypeStep, ChannelStep, ReportStep, BeginStep, WaitStep, SomeoneStep, LagStep, OpenStep,
     CalmStep, AckStep DEF IInv
<1> QED
  BY <1>1, <1>2, PTL DEF Spec

\* The state of mobctl, of the stations and of the channels keeps its type;
\* statusCh never holds more than it can.
THEOREM TypeCorrect == Spec => []TypeOK
<1>1. IInv => TypeOK
  BY DEF IInv
<1> QED
  BY <1>1, InvHolds, PTL

\* A station installs the firmware, and so reboots (the "done" of the stations of
\* ota.go), only when every discovered station has all of it.
THEOREM StationsUpdateTogether == Spec => []UpdateTogether
<1>1. IInv => UpdateTogether
  BY DEF IInv, ChannelInv, UpdateTogether
<1> QED
  BY <1>1, InvHolds, PTL

\* A runOTA that succeeds has every discovered station's "done" for what that
\* station really did, whatever was lost and thrown away.
THEOREM SuccessMeansAllUpdated == Spec => []SuccessUpdatesAll
<1>1. IInv => SuccessUpdatesAll
  BY DEF IInv, WaitInv, SuccessUpdatesAll
<1> QED
  BY <1>1, InvHolds, PTL

\* ota_finish is for a whole firmware only, though io.EOF ends the loop of
\* uploadOTAChunksForDevices at any boundary: the reports that its last wait asks
\* for were taken already.
THEOREM FinishIsForWholeFirmware == Spec => []OnlyWholeFirmwareIsFinished
<1>1. IInv => OnlyWholeFirmwareIsFinished
  BY DEF IInv, WaitInv, OnlyWholeFirmwareIsFinished
<1> QED
  BY <1>1, InvHolds, PTL

\* waitAllOTADevices never waits in vain for a small fleet: when the reports of one
\* group fit into statusCh, and nothing was lost, the one that is waited for is on
\* its way, or the message that makes for it.
THEOREM SmallFleetIsAnswered == Spec => []SmallFleetNeverWaitsInVain
<1>1. IInv => SmallFleetNeverWaitsInVain
  <2> SUFFICES ASSUME IInv, SmallFleet, phase \in {"waiting", "finishing"}, ~(troubles > 0),
                      statusCh = <<>>, up = <<>>, \A s \in Stations : down[s] = <<>>
               PROVE  FALSE
    BY DEF SmallFleetNeverWaitsInVain
  <2>1. Calm /\ devices = Stations
    BY OtaAssumption DEF IInv, TypeOK, Calm, SmallFleet, OtaAssumption
  <2>2. Heard = {}
    BY DEF Heard, ToSet
  <2>3. PICK s \in remaining : s \in Stations
    BY DEF IInv, SomeoneInv, TypeOK
  <2>4. CASE phase = "waiting"
    <3>1. Streams(s) /\ down[s] = <<>>
      BY <2>1, <2>3, <2>4 DEF IInv, CalmInv
    <3>2. station[s].written = offset
      BY <2>3, <3>1, OtaAssumption DEF Streams, IInv, TypeOK, OtaAssumption
    <3> QED
      BY <2>1, <2>2, <2>3, <2>4, <3>2 DEF IInv, AckInv
  <2>5. CASE phase = "finishing"
    <3>1. Ends(s) /\ down[s] = <<>>
      BY <2>1, <2>3, <2>5 DEF IInv, CalmInv
    <3>2. In(s, "done")
      BY <3>1 DEF Ends
    <3> QED
      BY <2>1, <2>2, <2>3, <2>5, <3>2 DEF IInv, AckInv
  <2> QED
    BY <2>4, <2>5
<1> QED
  BY <1>1, InvHolds, PTL

-----------------------------------------------------------------------------
(* BarcodeOta implements FirmwareUpdate. *)

LEMMA RecordFacts ==
  ASSUME NEW A, NEW B, NEW r \in [state : A, written : B], NEW x
  PROVE  /\ [r EXCEPT !.state = x] = [state |-> x, written |-> r.written]
         /\ [r EXCEPT !.written = x] = [state |-> r.state, written |-> x]
OBVIOUS

LEMMA BecomeIs ==
  ASSUME TypeOK, NEW s \in Stations, NEW state
  PROVE  [station EXCEPT ![s].state = state]
           = [station EXCEPT ![s] = [state |-> state, written |-> station[s].written]]
<1>1. station[s] \in [state : {"idle", "receiving", "done", "failed"}, written : 0..Chunks]
  BY DEF TypeOK
<1>2. [station[s] EXCEPT !.state = state] = [state |-> state, written |-> station[s].written]
  BY <1>1, RecordFacts
<1> QED
  BY <1>2

\* A station opens its session or fails.
LEMMA BeginsRefines ==
  ASSUME TypeOK, ChannelInv, NEW s \in Stations, StationBegins(s)
  PROVE  Update!Open(s) \/ Update!Leave(s)
<1>1. PICK state \in {"receiving", "failed"},
           status \in {"started", "begin_failed", "anonymous"}, cost \in {0, 1} :
         In(s, "idle") /\ Take(s, "begin", state, 0, status, cost)
  BY DEF StationBegins
<1>2. /\ down[s] # <<>> /\ Head(down[s]).type = "begin" /\ UNCHANGED <<devices, phase>>
      /\ station' = [station EXCEPT ![s] = [state |-> state, written |-> 0]]
  BY <1>1 DEF Take, ctlVars
<1>3. station[s].written = 0
  <2>1. Head(down[s]) = down[s][1] /\ 1 \in DOMAIN down[s]
    <3>1. down[s] \in Seq(Messages)
      BY DEF TypeOK
    <3> QED
      BY <1>2, <3>1, TailFacts
  <2> QED
    BY <1>2, <2>1 DEF ChannelInv
<1>4. station' = [station EXCEPT ![s].state = state]
  BY <1>2, <1>3, BecomeIs
<1> QED
  BY <1>1, <1>2, <1>3, <1>4 DEF Update!Open, Update!Leave, Update!Become, Update!In, In

\* It writes the next chunk - which was sent, so that nobody who is waited for is
\* more than a group behind it - or fails.
LEMMA WritesRefines ==
  ASSUME TypeOK, ChannelInv, LagInv, NEW s \in Stations, StationWrites(s)
  PROVE  Update!Write(s) \/ Update!Leave(s)
<1> DEFINE written == station[s].written
<1>0. /\ In(s, "receiving") /\ down[s] # <<>> /\ written \in 0..Chunks /\ Chunks \in Nat
      /\ offset \in Nat /\ devices \subseteq Stations /\ Group \in Nat
      /\ \A m \in Stations : station[m].written \in Nat
  BY OtaAssumption DEF StationWrites, TypeOK, OtaAssumption
<1>1. CASE Head(down[s]).number = written + 1 /\ Take(s, "chunk", "receiving", written + 1, "chunk", 0)
  <2>1. /\ Head(down[s]).type = "chunk" /\ UNCHANGED <<devices, phase>>
        /\ station' = [station EXCEPT ![s] = [state |-> "receiving", written |-> written + 1]]
    BY <1>1 DEF Take, ctlVars
  <2>2. Head(down[s]) = down[s][1] /\ 1 \in DOMAIN down[s] /\ Head(down[s]) \in Messages
    <3>1. down[s] \in Seq(Messages)
      BY DEF TypeOK
    <3> QED
      BY <1>0, <3>1, TailFacts
  <2>3. written + 1 <= offset /\ written + 1 \in 1..Chunks
    BY <1>0, <1>1, <2>1, <2>2 DEF ChannelInv, Messages
  <2>4. ASSUME NEW m \in devices PROVE written + 1 <= station[m].written + Group
    <3>1. Width(offset) \in Nat /\ Width(offset) <= Group
      <4>1. offset \in Nat
        BY <1>0
      <4>2. Width(offset) \in 1..Group
        BY <4>1, WidthFacts
      <4> QED
        BY <1>0, <4>2
    <3>2. station[m].written + Width(offset) >= offset /\ station[m].written \in Nat
      BY <1>0 DEF LagInv
    <3> QED
      BY <1>0, <2>3, <3>1, <3>2
  <2>5. station' = [station EXCEPT ![s].written = written + 1]
    <3>1. [station[s] EXCEPT !.written = written + 1] = [state |-> "receiving", written |-> written + 1]
      <4>1. station[s] \in [state : {"idle", "receiving", "done", "failed"}, written : 0..Chunks]
        BY DEF TypeOK
      <4> QED
        BY <1>0, <4>1, RecordFacts DEF In
    <3> QED
      BY <2>1, <3>1
  <2>6. written + 1 \in station[s].written + 1 .. Chunks
    BY <1>0, <2>3
  <2> QED
    BY <1>0, <2>1, <2>4, <2>5, <2>6 DEF Update!Write, Update!In, In
<1>2. CASE \E status, cost : Take(s, "chunk", "failed", written, status, cost)
  <2>1. /\ UNCHANGED <<devices, phase>>
        /\ station' = [station EXCEPT ![s] = [state |-> "failed", written |-> written]]
    BY <1>2 DEF Take, ctlVars
  <2>2. station' = [station EXCEPT ![s].state = "failed"]
    BY <2>1, BecomeIs
  <2> QED
    BY <1>0, <2>1, <2>2 DEF Update!Leave, Update!Become, Update!In, In
<1> QED
  BY <1>1, <1>2 DEF StationWrites

\* It installs what it has when everybody has it, or fails.
LEMMA FinishesRefines ==
  ASSUME TypeOK, ChannelInv, NEW s \in Stations, StationFinishes(s)
  PROVE  Update!Install(s) \/ Update!Leave(s)
<1> DEFINE written == station[s].written
<1>1. PICK state \in {"done", "failed"},
           status \in {"done", "finish_failed", "bad_finish"}, cost \in {0, 1} :
        /\ Take(s, "finish", state, written, status, cost)
        /\ state = "done" => written = Chunks
  BY DEF StationFinishes
<1>2. /\ In(s, "receiving") /\ down[s] # <<>> /\ Head(down[s]).type = "finish"
      /\ UNCHANGED <<devices, phase>>
      /\ station' = [station EXCEPT ![s] = [state |-> state, written |-> written]]
  BY <1>1 DEF StationFinishes, Take, ctlVars
<1>3. \A d \in devices : Complete(d)
  <2>1. Head(down[s]) = down[s][1] /\ 1 \in DOMAIN down[s]
    <3>1. down[s] \in Seq(Messages)
      BY DEF TypeOK
    <3> QED
      BY <1>2, <3>1, TailFacts
  <2> QED
    BY <1>2, <2>1 DEF ChannelInv
<1>4. station' = [station EXCEPT ![s].state = state]
  BY <1>2, BecomeIs
<1> QED
  BY <1>1, <1>2, <1>3, <1>4 DEF Update!Install, Update!Leave, Update!Become, Update!Complete,
     Update!In, Complete, In

\* A session that is aborted; everything else is not for it.
LEMMA IgnoresRefines ==
  ASSUME TypeOK, NEW s \in Stations, StationIgnores(s)
  PROVE  Update!Leave(s) \/ UNCHANGED Update!vars
<1>1. /\ UNCHANGED <<devices, phase>>
      /\ station' = [station EXCEPT ![s].state =
                       IF Head(down[s]).type = "abort" /\ @ = "receiving" THEN "idle" ELSE @]
  BY DEF StationIgnores, ctlVars
<1>2. CASE Head(down[s]).type = "abort" /\ In(s, "receiving")
  <2>1. station' = [station EXCEPT ![s].state = "idle"]
    BY <1>1, <1>2 DEF In
  <2> QED
    BY <1>1, <1>2, <2>1 DEF Update!Leave, Update!Become, Update!In, In
<1>3. CASE ~(Head(down[s]).type = "abort" /\ In(s, "receiving"))
  <2>1. station' = station
    BY <1>1, <1>3 DEF In, TypeOK
  <2> QED
    BY <1>1, <2>1 DEF Update!vars
<1> QED
  BY <1>2, <1>3

\* Of what mobctl does, the update is the discovery of a station and the result.
LEMMA MobctlRefines ==
  ASSUME TypeOK, ChannelInv, SomeoneInv, OpenInv, WaitInv', MobctlStep
  PROVE  [Update!Next]_Update!vars
<1>1. station' = station /\ phase \notin {"ok", "failed"}
  <2>1. phase \notin {"ok", "failed"}
    BY DEF MobctlStep, PublishBegin, Discover, WindowCloses, PublishChunk, ReadEOF, PublishFinish,
       PublishFails, SkipReport, TakeAck, TakeFailure, Timeout, Interrupt, Waiting
  <2> QED
    BY <2>1, MobctlMoves
<1>2. CASE phase' = "failed"
  <2>1. devices' = devices
    <3>1. CASE Discover
      BY <1>2, <3>1 DEF Discover, Goto
    <3>2. CASE ~Discover
      BY <3>2 DEF MobctlStep, PublishBegin, WindowCloses, PublishChunk, ReadEOF, PublishFinish,
         PublishFails, SkipReport, TakeAck, TakeFailure, Timeout, Interrupt, GiveUp, Goto, ctlVars
    <3> QED
      BY <3>1, <3>2
  <2> QED
    BY <1>1, <1>2, <2>1 DEF Update!Next, Update!Fail
<1>3. CASE phase' = "ok"
  <2>1. TakeAck /\ phase = "finishing" /\ devices' = devices
    BY <1>1, <1>3 DEF MobctlStep, PublishBegin, Discover, WindowCloses, PublishChunk, ReadEOF,
       PublishFinish, PublishFails, SkipReport, TakeAck, TakeFailure, Timeout, Interrupt, GiveUp,
       Goto, ctlVars
  <2>2. devices # {} /\ \A d \in devices : In(d, "done")
    BY <1>1, <1>3, <2>1 DEF SomeoneInv, WaitInv, In
  <2> QED
    BY <1>1, <1>3, <2>1, <2>2 DEF Update!Next, Update!Succeed, Update!In, In
<1>4. CASE phase' \notin {"ok", "failed"} /\ devices' = devices
  BY <1>1, <1>4 DEF Update!vars
<1>5. CASE phase' \notin {"ok", "failed"} /\ devices' # devices
  <2>1. PICK report : report = Head(statusCh)
    OBVIOUS
  <2>2. /\ phase = "discovering" /\ statusCh # <<>> /\ report.status = "started"
        /\ devices' = devices \cup {report.device}
    BY <1>5, <2>1 DEF MobctlStep, PublishBegin, Discover, WindowCloses, PublishChunk, ReadEOF,
       PublishFinish, PublishFails, SkipReport, TakeAck, TakeFailure, Timeout, Interrupt, GiveUp,
       Goto, ctlVars
  <2>3. report \in Heard /\ report.device \in Stations
    <3>1. statusCh \in Seq(Reports)
      BY DEF TypeOK
    <3>2. report \in Reports /\ ToSet(statusCh) = {report} \cup ToSet(Tail(statusCh))
      BY <2>1, <2>2, <3>1, TailFacts
    <3> QED
      BY <3>2 DEF Heard, Reports
  <2>4. In(report.device, "receiving")
    BY <2>2, <2>3 DEF OpenInv
  <2>5. \A s \in Stations : station[s].written = 0
    BY <2>2 DEF ChannelInv, TypeOK
  <2> QED
    BY <1>1, <1>5, <2>2, <2>3, <2>4, <2>5 DEF Update!Next, Update!Join, Update!In, In
<1> QED
  BY <1>2, <1>3, <1>4, <1>5

LEMMA InitRefines == Init => Update!Init
  BY DEF Init, Update!Init

LEMMA NextRefines == IInv /\ IInv' /\ [Next]_vars => [Update!Next]_Update!vars
<1> SUFFICES ASSUME IInv, IInv', [Next]_vars PROVE [Update!Next]_Update!vars
  OBVIOUS
<1>1. CASE MobctlStep
  BY <1>1, MobctlRefines DEF IInv
<1>2. CASE \E s \in Stations : StationStep(s)
  <2>1. PICK s \in Stations : StationStep(s)
    BY <1>2
  <2>2. \/ Update!Open(s) \/ Update!Write(s) \/ Update!Install(s) \/ Update!Leave(s)
        \/ UNCHANGED Update!vars
    BY <2>1, BeginsRefines, WritesRefines, FinishesRefines, IgnoresRefines DEF StationStep, IInv
  <2> QED
    BY <2>2 DEF Update!Next
<1>3. CASE Callback \/ UNCHANGED vars
  BY <1>3 DEF Callback, vars, ctlVars, Update!vars
<1> QED
  BY <1>1, <1>2, <1>3 DEF Next, MobctlStep

\* barcode-ota keeps what FirmwareUpdate promises, for any fleet and firmware: the
\* stations write in step, none installs before all have everything, and a success
\* is everybody's.
THEOREM Refinement == Spec => ImplementsUpdate
<1>1. Init => Update!Init
  BY InitRefines
<1>2. IInv /\ IInv' /\ [Next]_vars => [Update!Next]_Update!vars
  BY NextRefines
<1> QED
  BY <1>1, <1>2, InvHolds, PTL DEF Spec, ImplementsUpdate, Update!Spec

=============================================================================

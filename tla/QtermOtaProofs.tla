--------------------------- MODULE QtermOtaProofs ---------------------------
(***************************************************************************)
(* Proofs about QtermOta, for firmwares, chunks and windows of any size,   *)
(* channels of any capacity, and any losses.                               *)
(*                                                                         *)
(* Offsets are whole chunks, or the end of the file (OnGrid), so that they *)
(* can be counted.  The messages on their way continue what the terminal   *)
(* has (DownInv), and the reports on their way are of different chunks     *)
(* that were not acknowledged yet, with nothing before "started" or with   *)
(* "done" (ReportInv): there are no more of them than of pending chunks.   *)
(***************************************************************************)
EXTENDS QtermOta, SequencesExt, FiniteSetTheorems, TLAPS

\* The reports on their way to runOTA.
Heard == ToSet(statusCh) \cup ToSet(up)

OfBegin == {"started", "begin_failed"}
OfBadChunk == {"bad_chunk", "chunk_failed"}
OfFinish == {"done", "bad_finish", "finish_failed"}

\* How many chunks this is.
Chunk(x) == (x + ChunkSize - 1) \div ChunkSize

OnGrid(x) == x = file \/ x = ChunkSize * Chunk(x)

UploadInv ==
  /\ acked <= terminal.written /\ terminal.written <= offset /\ offset <= file
  /\ OnGrid(acked) /\ OnGrid(offset) /\ OnGrid(terminal.written)
  /\ pending = Chunk(offset - acked)
  /\ phase \in {"begin", "starting"} => offset = 0
  /\ phase \in {"begin", "starting", "sending"} => ~eof
  /\ phase = "sending" => pending < Window
  /\ phase \in {"finishing", "ok"} => acked = Size
  /\ phase = "ok" => terminal.state = "done"

DownInv ==
  /\ phase = "begin" => down = <<>> /\ terminal.state = "idle" /\ Heard = {}
  /\ \A i \in DOMAIN down :
       /\ down[i].type = "begin" =>
            /\ i = 1 /\ terminal.state = "idle" /\ Heard = {}
            /\ offset = 0 /\ phase \in {"starting", "failed"}
       /\ down[i].type = "chunk" =>
            /\ terminal.written <= down[i].from /\ down[i].from + down[i].length <= offset
            /\ OnGrid(down[i].from + down[i].length)
       /\ down[i].type = "finish" => acked = Size
  /\ \A i, k \in DOMAIN down :
       i < k /\ down[i].type = "chunk" /\ down[k].type = "chunk" =>
         down[i].from + down[i].length <= down[k].from

\* One report is sent before another.
Precedes(a, b) ==
  /\ a.status = "chunk" /\ b.status \in {"chunk"} \cup OfBadChunk
  /\ a.written <= b.written
  /\ b.status = "chunk" => a.written < b.written

Ordered(q) == \A i, k \in DOMAIN q : i < k => Precedes(q[i], q[k])

ReportInv ==
  /\ \A r \in Heard :
       /\ r.status \in OfBegin => offset = 0 /\ phase \in {"starting", "failed"}
       /\ r.status = "chunk" =>
            acked < r.written /\ r.written <= terminal.written /\ OnGrid(r.written)
       /\ r.status \in OfBadChunk =>
            /\ acked <= r.written /\ r.written < offset /\ OnGrid(r.written)
            /\ terminal.state = "failed"
       /\ r.status \in OfFinish => acked = Size /\ terminal.state # "receiving"
       /\ r.status = "done" => terminal.state = "done"
  /\ Ordered(statusCh) /\ Ordered(up)
  /\ \A a \in ToSet(statusCh), b \in ToSet(up) : Precedes(a, b)

\* What ends the terminal's session is on its way.
SessionInv ==
  troubles = 0 /\ phase \in {"finishing", "ok", "failed"} /\ offset > 0
    /\ terminal.state = "receiving" => \E i \in DOMAIN down : down[i].type \in {"abort", "finish"}

\* What was written and not acknowledged is on its way, or its report was lost.
Accounted ==
  Chunk(terminal.written) <= Chunk(acked) + troubles + Len(up) + Len(statusCh)

LossInv ==
  Window <= StatusCap =>
    /\ phase \in {"sending", "waiting"} => Accounted
    /\ phase = "waiting" /\ ~eof => pending = Window
    /\ phase = "sending" /\ acked = file /\ file > 0 => Window <= troubles + 1
    /\ phase = "waiting" /\ pending = 0 /\ file > 0 => Window <= troubles + 1

IInv == TypeOK /\ UploadInv /\ DownInv /\ ReportInv /\ SessionInv /\ LossInv

-----------------------------------------------------------------------------
(* Sequences. *)

LEMMA AppendFacts ==
  ASSUME NEW S, NEW q \in Seq(S), NEW e \in S
  PROVE  /\ Append(q, e) \in Seq(S) /\ Len(Append(q, e)) = Len(q) + 1
         /\ DOMAIN Append(q, e) = DOMAIN q \cup {Len(q) + 1}
         /\ DOMAIN q = 1..Len(q) /\ Len(q) \in Nat
         /\ ToSet(Append(q, e)) = ToSet(q) \cup {e}
         /\ Append(q, e)[Len(q) + 1] = e
         /\ \A i \in DOMAIN q : Append(q, e)[i] = q[i]
<1>1. /\ Append(q, e) \in Seq(S) /\ DOMAIN Append(q, e) = DOMAIN q \cup {Len(q) + 1}
      /\ DOMAIN q = 1..Len(q) /\ Len(q) \in Nat
      /\ \A i \in DOMAIN q : Append(q, e)[i] = q[i]
      /\ Append(q, e)[Len(q) + 1] = e
      /\ Len(Append(q, e)) = Len(q) + 1
  OBVIOUS
<1> QED
  BY <1>1 DEF ToSet

LEMMA TailFacts ==
  ASSUME NEW S, NEW q \in Seq(S), q # <<>>
  PROVE  /\ Head(q) \in S /\ Head(q) = q[1] /\ 1 \in DOMAIN q
         /\ Tail(q) \in Seq(S) /\ Len(Tail(q)) = Len(q) - 1 /\ Len(q) \in Nat \ {0}
         /\ \A i \in DOMAIN Tail(q) :
              i \in Nat \ {0} /\ i + 1 \in DOMAIN q /\ Tail(q)[i] = q[i + 1]
         /\ ToSet(q) = {Head(q)} \cup ToSet(Tail(q))
<1>1. /\ Head(q) \in S /\ Tail(q) \in Seq(S) /\ Len(Tail(q)) = Len(q) - 1
      /\ Head(q) = q[1] /\ Len(q) \in Nat \ {0} /\ DOMAIN q = 1..Len(q)
      /\ \A i \in 1..Len(q) - 1 : Tail(q)[i] = q[i + 1]
      /\ DOMAIN Tail(q) = 1..Len(q) - 1
  OBVIOUS
<1>2. ASSUME NEW x \in ToSet(q) PROVE x \in {Head(q)} \cup ToSet(Tail(q))
  <2>1. PICK i \in 1..Len(q) : x = q[i]
    BY <1>1 DEF ToSet
  <2>2. CASE i = 1
    BY <1>1, <2>1, <2>2
  <2>3. CASE i # 1
    <3>1. i - 1 \in 1..Len(q) - 1 /\ Tail(q)[i - 1] = q[i]
      BY <1>1, <2>3
    <3> QED
      BY <1>1, <2>1, <3>1 DEF ToSet
  <2> QED
    BY <2>2, <2>3
<1>3. ASSUME NEW x \in {Head(q)} \cup ToSet(Tail(q)) PROVE x \in ToSet(q)
  BY <1>1 DEF ToSet
<1> QED
  BY <1>1, <1>2, <1>3

\* A report that all there are precede can be appended.
LEMMA OrderedAppend ==
  ASSUME NEW q \in Seq(Reports), NEW e \in Reports, Ordered(q),
         \A a \in ToSet(q) : Precedes(a, e)
  PROVE  Ordered(Append(q, e))
<1> SUFFICES ASSUME NEW i \in DOMAIN Append(q, e), NEW k \in DOMAIN Append(q, e), i < k
             PROVE  Precedes(Append(q, e)[i], Append(q, e)[k])
  BY DEF Ordered
<1>1. DOMAIN q = 1..Len(q) /\ Len(q) \in Nat /\ i \in DOMAIN q
  BY AppendFacts
<1>2. CASE k \in DOMAIN q
  BY <1>1, <1>2, AppendFacts DEF Ordered
<1>3. CASE k = Len(q) + 1
  <2>1. q[i] \in ToSet(q)
    BY <1>1 DEF ToSet
  <2> QED
    BY <1>1, <1>3, <2>1, AppendFacts
<1> QED
  BY <1>2, <1>3, AppendFacts

\* The head of a queue precedes the others.
LEMMA OrderedTail ==
  ASSUME NEW q \in Seq(Reports), q # <<>>, Ordered(q)
  PROVE  Ordered(Tail(q)) /\ \A b \in ToSet(Tail(q)) : Precedes(Head(q), b)
<1>1. Ordered(Tail(q))
  BY TailFacts DEF Ordered
<1>2. ASSUME NEW b \in ToSet(Tail(q)) PROVE Precedes(Head(q), b)
  <2>1. PICK i \in DOMAIN Tail(q) : b = Tail(q)[i]
    BY DEF ToSet
  <2>2. i \in Nat \ {0} /\ i + 1 \in DOMAIN q /\ b = q[i + 1] /\ Head(q) = q[1] /\ 1 \in DOMAIN q
    BY <2>1, TailFacts
  <2>3. 1 < i + 1
    BY <2>2
  <2> QED
    BY <2>2, <2>3 DEF Ordered
<1> QED
  BY <1>1, <1>2

-----------------------------------------------------------------------------
(* Counting chunks. *)

LEMMA Euclid ==
  ASSUME NEW n \in Nat, NEW g \in Nat \ {0}
  PROVE  /\ n \div g \in Nat /\ n % g \in 0..g - 1
         /\ n = g * (n \div g) + (n % g)
<1>1. n % g \in 0..g - 1
  OBVIOUS
<1>2. n \div g \in Nat
  OBVIOUS
<1>3. n = g * (n \div g) + (n % g)
  OBVIOUS
<1> QED
  BY <1>1, <1>2, <1>3

LEMMA NextMultiple ==
  ASSUME NEW a \in Nat, NEW b \in Nat, NEW g \in Nat, a > b
  PROVE  g * a >= g * b + g /\ g * a \in Nat /\ g * b \in Nat
<1>1. PICK c \in Nat : a = b + 1 + c
  <2>1. a - b - 1 \in Nat /\ a = b + 1 + (a - b - 1)
    OBVIOUS
  <2> QED
    BY <2>1
<1>2. g * a = g * b + g + g * c
  BY <1>1
<1>3. g * c \in Nat /\ g * b \in Nat /\ g * a \in Nat
  BY <1>1
<1> QED
  BY <1>2, <1>3

\* A number of chunks is enough, and not one too many.
LEMMA ChunkFacts ==
  ASSUME NEW x \in Nat
  PROVE  /\ Chunk(x) \in Nat /\ ChunkSize * Chunk(x) \in Nat
         /\ x <= ChunkSize * Chunk(x) /\ ChunkSize * Chunk(x) < x + ChunkSize
<1>1. ChunkSize \in Nat \ {0}
  BY OtaAssumption DEF OtaAssumption
<1>2. PICK n \in Nat : n = x + ChunkSize - 1
  BY <1>1
<1>3. /\ n \div ChunkSize \in Nat /\ n % ChunkSize \in 0..ChunkSize - 1
      /\ n = ChunkSize * (n \div ChunkSize) + (n % ChunkSize)
  BY <1>1, Euclid
<1>4. Chunk(x) = n \div ChunkSize
  BY <1>2 DEF Chunk
<1>5. PICK c \in Nat, r \in 0..ChunkSize - 1 : c = Chunk(x) /\ n = ChunkSize * c + r
  BY <1>3, <1>4
<1>6. ChunkSize * c \in Nat
  BY <1>1
<1>7. x <= ChunkSize * c /\ ChunkSize * c < x + ChunkSize
  BY <1>1, <1>2, <1>5, <1>6
<1> QED
  BY <1>5, <1>6, <1>7

LEMMA ChunkIs ==
  ASSUME NEW x \in Nat, NEW c \in Nat, x <= ChunkSize * c, ChunkSize * c < x + ChunkSize
  PROVE  Chunk(x) = c
<1>1. ChunkSize \in Nat
  BY OtaAssumption DEF OtaAssumption
<1>2. PICK b \in Nat : b = Chunk(x) /\ x <= ChunkSize * b /\ ChunkSize * b < x + ChunkSize
  BY ChunkFacts
<1>3. CASE b > c
  <2>1. ChunkSize * b >= ChunkSize * c + ChunkSize /\ ChunkSize * b \in Nat /\ ChunkSize * c \in Nat
    BY <1>1, <1>3, NextMultiple
  <2> QED
    BY <1>1, <1>2, <2>1
<1>4. CASE c > b
  <2>1. ChunkSize * c >= ChunkSize * b + ChunkSize /\ ChunkSize * b \in Nat /\ ChunkSize * c \in Nat
    BY <1>1, <1>4, NextMultiple
  <2> QED
    BY <1>1, <1>2, <2>1
<1> QED
  BY <1>2, <1>3, <1>4

LEMMA ChunkMonotone ==
  ASSUME NEW x \in Nat, NEW y \in Nat, x <= y
  PROVE  Chunk(x) <= Chunk(y)
<1>1. ChunkSize \in Nat
  BY OtaAssumption DEF OtaAssumption
<1>2. PICK a \in Nat : a = Chunk(x) /\ ChunkSize * a < x + ChunkSize
  BY ChunkFacts
<1>3. PICK b \in Nat : b = Chunk(y) /\ y <= ChunkSize * b
  BY ChunkFacts
<1>4. CASE a > b
  <2>1. ChunkSize * a >= ChunkSize * b + ChunkSize /\ ChunkSize * a \in Nat /\ ChunkSize * b \in Nat
    BY <1>1, <1>4, NextMultiple
  <2> QED
    BY <1>1, <1>2, <1>3, <2>1
<1> QED
  BY <1>2, <1>3, <1>4

LEMMA NoChunk == Chunk(0) = 0
<1>1. ChunkSize \in Nat \ {0}
  BY OtaAssumption DEF OtaAssumption
<1>2. ChunkSize * 0 = 0
  BY <1>1
<1> QED
  BY <1>1, <1>2, ChunkIs

\* What lies between two offsets is counted by the difference.
LEMMA ChunksBetween ==
  ASSUME NEW x \in Nat, NEW y \in Nat, y <= x, x <= file, OnGrid(y)
  PROVE  Chunk(x - y) = Chunk(x) - Chunk(y) /\ (y < x => Chunk(y) < Chunk(x))
<1>1. ChunkSize \in Nat \ {0}
  BY OtaAssumption DEF OtaAssumption
<1>2. CASE y = x
  <2>1. x - y = 0
    BY <1>2
  <2>2. Chunk(x) \in Nat
    BY ChunkFacts
  <2>3. Chunk(x) - Chunk(y) = 0
    BY <1>2, <2>2
  <2> QED
    BY <1>2, <2>1, <2>3, NoChunk
<1>3. CASE y < x
  <2>0. ~(y = file)
    <3> SUFFICES ASSUME y = file PROVE FALSE
      OBVIOUS
    <3>1. x <= y
      BY Zenon
    <3> QED
      BY <1>3, <3>1
  <2>1. y = ChunkSize * Chunk(y)
    BY <2>0 DEF OnGrid
  <2>2. PICK a \in Nat : a = Chunk(x) /\ x <= ChunkSize * a /\ ChunkSize * a < x + ChunkSize
    BY ChunkFacts
  <2>3. PICK b \in Nat : b = Chunk(y) /\ y = ChunkSize * b
    BY <2>1, ChunkFacts
  <2>4. b <= a
    BY <2>2, <2>3, ChunkMonotone
  <2>5. a # b
    BY <1>3, <2>2, <2>3
  <2>6. PICK c \in Nat : c = a - b
    BY <2>4
  <2>7. ChunkSize * a = ChunkSize * b + ChunkSize * c /\ ChunkSize * b \in Nat /\ ChunkSize * c \in Nat
    <3>1. a = b + c
      BY <2>6
    <3>2. ChunkSize * (b + c) = ChunkSize * b + ChunkSize * c
      BY <1>1
    <3> QED
      BY <1>1, <3>1, <3>2
  <2>8. PICK d \in Nat : d = x - y
    BY <1>3
  <2>9. d <= ChunkSize * c /\ ChunkSize * c < d + ChunkSize
    BY <1>1, <2>2, <2>3, <2>7, <2>8
  <2>10. Chunk(d) = c
    BY <2>9, ChunkIs
  <2>11. Chunk(x - y) = c
    BY <2>8, <2>10, Zenon
  <2>12. Chunk(x) = a /\ Chunk(y) = b /\ b < a
    BY <2>2, <2>3, <2>4, <2>5
  <2> QED
    BY <2>6, <2>11, <2>12, Zenon
<1> QED
  BY <1>2, <1>3

\* Where the next read ends.
LEMMA NextOffset ==
  ASSUME NEW x \in Nat, x < file, file \in Nat, OnGrid(x)
  PROVE  \E n \in Nat :
           /\ n = x + Least(ChunkSize, file - x)
           /\ x < n /\ n <= file /\ n - x \in 1..ChunkSize
           /\ OnGrid(n) /\ Chunk(n) = Chunk(x) + 1
<1>1. ChunkSize \in Nat \ {0}
  BY OtaAssumption DEF OtaAssumption
<1>2. x = ChunkSize * Chunk(x)
  BY DEF OnGrid
<1>3. PICK c \in Nat : c = Chunk(x) /\ x = ChunkSize * c
  BY <1>2, ChunkFacts
<1>4. ChunkSize * (c + 1) = x + ChunkSize
  BY <1>1, <1>3
<1>5. PICK n \in Nat : n = x + Least(ChunkSize, file - x)
  BY <1>1 DEF Least
<1>6. /\ x < n /\ n <= file /\ n - x \in 1..ChunkSize
      /\ n <= x + ChunkSize /\ (n = file \/ n = x + ChunkSize)
  BY <1>1, <1>5 DEF Least
<1>7. Chunk(n) = c + 1
  <2>1. n <= ChunkSize * (c + 1) /\ ChunkSize * (c + 1) < n + ChunkSize
    BY <1>1, <1>4, <1>6
  <2> QED
    BY <2>1, ChunkIs, c + 1 \in Nat
<1>8. OnGrid(n)
  BY <1>4, <1>6, <1>7 DEF OnGrid
<1> QED
  BY <1>3, <1>5, <1>6, <1>7, <1>8
-----------------------------------------------------------------------------
(* What the steps do. *)

MobctlStep == CtlStep \/ Interrupt

\* What mobctl sends arrives, or there is a trouble.
Sends(m) ==
  /\ troubles' \in 0..MaxTroubles /\ troubles <= troubles'
  /\ \/ down' = Append(down, m)
     \/ down' = down /\ troubles < troubles'

LEMMA ControlTypes ==
  \A type \in {"begin", "finish", "abort"} :
    Control(type) \in Messages /\ Control(type).type = type
BY DEF Control, Messages

LEMMA PublishEffect ==
  ASSUME TypeOK, NEW m, NEW cost \in {0, 1}, Carry(down, m, cost)
  PROVE  Sends(m)
<1>1. troubles \in Nat /\ MaxTroubles \in Nat
  BY OtaAssumption DEF TypeOK, OtaAssumption
<1>2. CASE troubles' = troubles + cost /\ down' = Append(down, m) /\ troubles + cost <= MaxTroubles
  BY <1>1, <1>2 DEF Sends
<1>3. CASE troubles' = troubles + cost + 1 /\ down' = down /\ troubles + cost < MaxTroubles
  BY <1>1, <1>3 DEF Sends
<1> QED
  BY <1>2, <1>3 DEF Carry

\* The run fails: its variables stay, one report may have been taken, and ota_abort is
\* sent unless the upload has not begun or is over.
Ends ==
  /\ phase \notin {"ok", "failed"} /\ phase' = "failed" /\ UNCHANGED <<uploadVars, up, terminal>>
  /\ statusCh' = statusCh \/ (statusCh # <<>> /\ statusCh' = Tail(statusCh))
  /\ troubles' \in 0..MaxTroubles /\ troubles <= troubles'
  /\ down' = down \/ down' = Append(down, Control("abort"))
  /\ troubles' = troubles =>
       \/ phase \in {"starting", "finishing"}
       \/ phase \in {"waiting", "uploaded"} /\ down' = Append(down, Control("abort"))

LEMMA GiveUpEffect ==
  ASSUME TypeOK, GiveUp, phase \in {"starting", "waiting", "finishing"},
         statusCh' = statusCh \/ (statusCh # <<>> /\ statusCh' = Tail(statusCh))
  PROVE  Ends
<1>1. CASE phase = "waiting"
  <2>1. Carry(down, Control("abort"), 0) /\ UNCHANGED <<up, terminal>>
    BY <1>1 DEF GiveUp, Publish
  <2>2. Sends(Control("abort"))
    BY <2>1, PublishEffect
  <2> QED
    BY <1>1, <2>1, <2>2 DEF Ends, GiveUp, Sends, TypeOK
<1>2. CASE phase # "waiting"
  <2>1. UNCHANGED netVars /\ troubles \in 0..MaxTroubles /\ MaxTroubles \in Nat
    BY <1>2, OtaAssumption DEF GiveUp, TypeOK, OtaAssumption
  <2> QED
    BY <1>2, <2>1 DEF Ends, GiveUp, netVars
<1> QED
  BY <1>1, <1>2

LEMMA EndEffect ==
  ASSUME TypeOK, \/ PublishFails \/ TakeFailure \/ Timeout \/ Interrupt
                 \/ PublishFinish /\ acked # Size
  PROVE  Ends
<1>1. CASE PublishFails
  <2>1. CASE phase = "sending"
    <3>1. Sends(Control("abort"))
      BY <1>1, <2>1, PublishEffect DEF PublishFails
    <3>2. troubles' # troubles
      BY <1>1, <2>1, OtaAssumption DEF PublishFails, Carry, TypeOK, OtaAssumption
    <3> QED
      BY <1>1, <2>1, <3>1, <3>2 DEF PublishFails, Ends, Sends
  <2>2. CASE phase # "sending"
    <3>1. troubles' \in 0..MaxTroubles /\ troubles < troubles' /\ troubles \in Nat /\ UNCHANGED down
      BY <1>1, <2>2, OtaAssumption DEF PublishFails, TypeOK, OtaAssumption
    <3> QED
      BY <1>1, <2>2, <3>1 DEF PublishFails, Ends
  <2> QED
    BY <2>1, <2>2
<1>2. CASE TakeFailure
  BY <1>2, GiveUpEffect DEF TakeFailure, Waiting
<1>3. CASE Timeout
  BY <1>3, GiveUpEffect DEF Timeout
<1>4. CASE Interrupt
  <2>1. troubles' \in 0..MaxTroubles /\ troubles < troubles' /\ troubles \in Nat
    BY <1>4, OtaAssumption DEF Interrupt, TypeOK, OtaAssumption
  <2> QED
    BY <1>4, <2>1 DEF Interrupt, Ends
<1>5. CASE PublishFinish /\ acked # Size
  <2>1. Carry(down, Control("abort"), 0) /\ UNCHANGED <<up, terminal>>
    BY <1>5 DEF PublishFinish, Publish
  <2>2. Sends(Control("abort"))
    BY <2>1, PublishEffect
  <2> QED
    BY <1>5, <2>1, <2>2 DEF Ends, PublishFinish, Sends, TypeOK
<1> QED
  BY <1>1, <1>2, <1>3, <1>4, <1>5

\* What is sent in the other steps.
Begins ==
  /\ phase = "begin" /\ phase' = "starting" /\ UNCHANGED <<uploadVars, statusCh, up, terminal>>
  /\ Sends(Control("begin"))

Finishes ==
  /\ phase = "uploaded" /\ phase' = "finishing" /\ acked = Size
  /\ UNCHANGED <<uploadVars, statusCh, up, terminal>>
  /\ Sends(Control("finish"))

SendsChunk(n) ==
  /\ phase = "sending" /\ offset < n /\ n <= file /\ offset' = n
  /\ OnGrid(n) /\ Chunk(n) = Chunk(offset) + 1
  /\ pending' = pending + 1 /\ phase' = IF pending' < Window THEN "sending" ELSE "waiting"
  /\ UNCHANGED <<file, acked, eof, statusCh, up, terminal>>
  /\ \E m \in Messages : /\ m.type = "chunk" /\ m.from = offset /\ m.from + m.length = n
                         /\ Sends(m)

LEMMA FileFacts ==
  ASSUME TypeOK
  PROVE  file \in 0..Size /\ Size \in Nat \ {0}
BY OtaAssumption DEF TypeOK, OtaAssumption

LEMMA ChunkEffect ==
  ASSUME TypeOK, UploadInv, PublishChunk
  PROVE  \E n \in Nat : SendsChunk(n)
<1>1. file \in Nat /\ file <= Size /\ Size \in Nat /\ offset \in Nat /\ offset < file
  BY FileFacts DEF TypeOK, PublishChunk
<1>2. OnGrid(offset)
  BY DEF UploadInv
<1>3. PICK n \in Nat :
        /\ n = offset + Least(ChunkSize, file - offset)
        /\ offset < n /\ n <= file /\ n - offset \in 1..ChunkSize
        /\ OnGrid(n) /\ Chunk(n) = Chunk(offset) + 1
  BY <1>1, <1>2, NextOffset
<1>4. PICK m : m = [type |-> "chunk", from |-> offset, length |-> offset' - offset]
  OBVIOUS
<1>5. offset' = n
  BY <1>3 DEF PublishChunk
<1>6. m \in Messages /\ m.type = "chunk" /\ m.from = offset /\ m.length = n - offset
  BY <1>1, <1>3, <1>4, <1>5 DEF Messages
<1>7. m.from + m.length = n
  BY <1>1, <1>6
<1>8. Carry(down, m, 0)
  BY <1>4 DEF PublishChunk, Publish
<1>9. Sends(m)
  BY <1>8, PublishEffect
<1>10. \E e \in Messages : e.type = "chunk" /\ e.from = offset /\ e.from + e.length = n /\ Sends(e)
  BY <1>6, <1>7, <1>9
<1> QED
  BY <1>3, <1>5, <1>10 DEF SendsChunk, PublishChunk, Publish

LEMMA SendEffect ==
  ASSUME TypeOK, PublishBegin \/ (PublishFinish /\ acked = Size)
  PROVE  Begins \/ Finishes
<1>1. CASE PublishBegin
  <2>1. Carry(down, Control("begin"), 0) /\ UNCHANGED <<up, terminal>>
    BY <1>1 DEF PublishBegin, Publish
  <2>2. Sends(Control("begin"))
    BY <2>1, PublishEffect
  <2> QED
    BY <1>1, <2>1, <2>2 DEF PublishBegin, Begins
<1>2. CASE PublishFinish /\ acked = Size
  <2>1. Carry(down, Control("finish"), 0) /\ UNCHANGED <<up, terminal>>
    BY <1>2 DEF PublishFinish, Publish
  <2>2. Sends(Control("finish"))
    BY <2>1, PublishEffect
  <2> QED
    BY <1>2, <2>1, <2>2 DEF PublishFinish, Finishes
<1> QED
  BY <1>1, <1>2

\* The report at the head of the channel.
LEMMA HeadFacts ==
  ASSUME TypeOK, statusCh # <<>>
  PROVE  /\ Head(statusCh) \in Reports /\ Head(statusCh) \in Heard
         /\ Tail(statusCh) \in Seq(Reports) /\ Len(Tail(statusCh)) = Len(statusCh) - 1
         /\ ToSet(statusCh) = {Head(statusCh)} \cup ToSet(Tail(statusCh))
<1>1. statusCh \in Seq(Reports)
  BY DEF TypeOK
<1>2. /\ Head(statusCh) \in Reports
      /\ Tail(statusCh) \in Seq(Reports) /\ Len(Tail(statusCh)) = Len(statusCh) - 1
      /\ ToSet(statusCh) = {Head(statusCh)} \cup ToSet(Tail(statusCh))
  BY <1>1, TailFacts
<1> QED
  BY <1>2 DEF Heard

\* A report is taken: it is newer than what is acknowledged.
Acks(n) ==
  /\ phase = "waiting" /\ statusCh # <<>> /\ statusCh' = Tail(statusCh)
  /\ Head(statusCh).status = "chunk" /\ Head(statusCh).written = n
  /\ acked < n /\ n <= terminal.written /\ OnGrid(n)
  /\ acked' = n /\ pending' = Chunk(offset - n) /\ phase' = LoopHead(eof, pending')
  /\ UNCHANGED <<file, offset, eof, netVars>>

LEMMA AckEffect ==
  ASSUME TypeOK, ReportInv, TakeAck
  PROVE  \E n \in 0..Size : Acks(n)
<1>1. PICK h \in Reports : h = Head(statusCh) /\ h \in Heard
  BY HeadFacts DEF TakeAck, Waiting
<1>2. h.status = "chunk"
  BY <1>1 DEF TakeAck
<1>3. PICK n \in 0..Size : n = h.written
  BY DEF Reports
<1>4. acked < n /\ n <= terminal.written /\ OnGrid(n)
  BY <1>1, <1>2, <1>3 DEF ReportInv
<1>5. ~(n < acked)
  BY <1>4, FileFacts DEF TypeOK
<1>6. acked' = n /\ pending' = (offset - acked' + ChunkSize - 1) \div ChunkSize
  BY <1>1, <1>3, <1>5 DEF TakeAck
<1>7. pending' = Chunk(offset - n)
  BY <1>6 DEF Chunk
<1> QED
  BY <1>1, <1>2, <1>3, <1>4, <1>6, <1>7 DEF TakeAck, Waiting, Acks

TerminalStates == {"idle", "receiving", "done", "failed"}

\* The terminal takes the first message, becomes something, and reports, or the report is lost.
Takes ==
  /\ UNCHANGED <<phase, uploadVars, statusCh>>
  /\ down # <<>> /\ down' = Tail(down)
  /\ terminal' \in [state : TerminalStates, written : 0..Size]
  /\ troubles' \in 0..MaxTroubles /\ troubles <= troubles'

Reported(status, written) ==
  \/ up' = up /\ troubles < troubles'
  \/ \E r \in Reports : up' = Append(up, r) /\ r.status = status /\ r.written = written

Took(type, state, written, status) ==
  /\ Takes /\ Head(down).type = type
  /\ terminal'.state = state /\ terminal'.written = written
  /\ Reported(status, written)

LEMMA TakeEffect ==
  ASSUME TypeOK, NEW type, NEW state \in TerminalStates, NEW written \in 0..Size,
         NEW status \in {"chunk"} \cup OfBegin \cup OfBadChunk \cup OfFinish, NEW cost \in {0, 1},
         Take(type, state, written, status, cost)
  PROVE  Took(type, state, written, status)
<1>1. PICK r : r = [status |-> status, written |-> written]
  OBVIOUS
<1>2. r \in Reports /\ r.status = status /\ r.written = written
  BY <1>1 DEF Reports, OfBegin, OfBadChunk, OfFinish
<1>3. troubles \in Nat /\ MaxTroubles \in Nat
  BY OtaAssumption DEF TypeOK, OtaAssumption
<1>4. /\ troubles' \in 0..MaxTroubles /\ troubles <= troubles'
      /\ up' = Append(up, r) \/ (up' = up /\ troubles < troubles')
  <2>1. CASE troubles' = troubles + cost /\ up' = Append(up, r) /\ troubles + cost <= MaxTroubles
    BY <1>3, <2>1
  <2>2. CASE troubles' = troubles + cost + 1 /\ up' = up /\ troubles + cost < MaxTroubles
    BY <1>3, <2>2
  <2> QED
    BY <1>1, <2>1, <2>2 DEF Take, Carry
<1>5. Reported(status, written)
  BY <1>2, <1>4 DEF Reported
<1>6. /\ down # <<>> /\ Head(down).type = type /\ down' = Tail(down)
      /\ terminal' = [state |-> state, written |-> written]
      /\ UNCHANGED <<phase, uploadVars, statusCh>>
  BY DEF Take
<1> QED
  BY <1>4, <1>5, <1>6 DEF Took, Takes, TerminalStates

\* The four things that the terminal does.
Opens ==
  /\ terminal.state = "idle"
  /\ \E state \in {"receiving", "failed"}, status \in OfBegin : Took("begin", state, 0, status)

Writes(n) ==
  /\ terminal.state = "receiving" /\ Head(down).from = terminal.written
  /\ n = terminal.written + Head(down).length /\ Took("chunk", "receiving", n, "chunk")

Rejects ==
  /\ terminal.state = "receiving"
  /\ \E status \in OfBadChunk : Took("chunk", "failed", terminal.written, status)

Closes ==
  /\ terminal.state = "receiving"
  /\ \E state \in {"done", "failed"}, status \in OfFinish :
       /\ Took("finish", state, terminal.written, status)
       /\ status = "done" => state = "done"

Ignores ==
  /\ Takes /\ UNCHANGED <<up, troubles>> /\ terminal'.written = terminal.written
  /\ \/ terminal'.state = terminal.state
     \/ terminal.state = "receiving" /\ terminal'.state = "idle"
  /\ terminal'.state = "receiving" => Head(down).type = "begin"

\* The first message, and those that follow it.
LEMMA DownFacts ==
  ASSUME TypeOK, down # <<>>
  PROVE  /\ Head(down) \in Messages /\ Head(down) = down[1] /\ 1 \in DOMAIN down
         /\ Tail(down) \in Seq(Messages)
         /\ \A i \in DOMAIN Tail(down) :
              i \in Nat \ {0} /\ i + 1 \in DOMAIN down /\ Tail(down)[i] = down[i + 1]
<1>1. down \in Seq(Messages)
  BY DEF TypeOK
<1> QED
  BY <1>1, TailFacts

LEMMA TerminalTypes ==
  ASSUME TypeOK
  PROVE  /\ terminal.written \in 0..Size /\ terminal.state \in TerminalStates
         /\ \A e \in Messages : e.type = "chunk" => e.from \in 0..Size /\ e.length \in 1..ChunkSize
<1>1. terminal.written \in 0..Size /\ terminal.state \in TerminalStates
  BY DEF TypeOK, TerminalStates
<1>2. ASSUME NEW e \in Messages, e.type = "chunk" PROVE e.from \in 0..Size /\ e.length \in 1..ChunkSize
  BY <1>2 DEF Messages
<1> QED
  BY <1>1, <1>2

LEMMA OpenEffect ==
  ASSUME TypeOK, TerminalBegins
  PROVE  Opens
<1>1. PICK state \in {"receiving", "failed"}, status \in OfBegin, cost \in {0, 1} :
        Take("begin", state, 0, status, cost)
  BY DEF TerminalBegins, OfBegin
<1>2. 0 \in 0..Size /\ state \in TerminalStates
  BY FileFacts DEF TerminalStates
<1>3. Took("begin", state, 0, status)
  BY <1>1, <1>2, TakeEffect
<1> QED
  BY <1>3 DEF Opens, TerminalBegins

LEMMA WriteEffect ==
  ASSUME TypeOK, UploadInv, DownInv, TerminalWrites
  PROVE  Rejects \/ \E n \in 0..Size : Writes(n)
<1>1. PICK w \in 0..Size : w = terminal.written
  BY TerminalTypes
<1>2. /\ down # <<>> /\ terminal.state = "receiving"
      /\ "receiving" \in TerminalStates /\ "failed" \in TerminalStates
  BY DEF TerminalWrites, TerminalStates
<1>3. PICK h \in Messages : h = Head(down) /\ h = down[1] /\ 1 \in DOMAIN down
  BY <1>2, DownFacts
<1>4. CASE h.from = w /\ Take("chunk", "receiving", w + h.length, "chunk", 0)
  <2>1. h.type = "chunk"
    BY <1>3, <1>4 DEF Take
  <2>2. h.length \in Nat /\ h.from \in Nat /\ h.from + h.length <= offset
    BY <1>3, <2>1, TerminalTypes, OtaAssumption DEF DownInv, OtaAssumption
  <2>3. offset \in 0..Size
    BY DEF TypeOK
  <2>4. PICK n \in Nat : n = w + h.length
    BY <2>2
  <2>5. n \in 0..Size
    BY <1>4, <2>2, <2>3, <2>4, FileFacts
  <2>6. Took("chunk", "receiving", n, "chunk")
    BY <1>2, <1>4, <2>4, <2>5, TakeEffect
  <2> QED
    BY <1>1, <1>2, <1>3, <1>4, <2>4, <2>5, <2>6 DEF Writes
<1>5. CASE \E status \in OfBadChunk, cost \in {0, 1} : Take("chunk", "failed", w, status, cost)
  <2>1. PICK status \in OfBadChunk, cost \in {0, 1} : Take("chunk", "failed", w, status, cost)
    BY <1>5
  <2>2. Took("chunk", "failed", w, status)
    BY <1>2, <2>1, TakeEffect
  <2> QED
    BY <1>1, <1>2, <2>2 DEF Rejects
<1> QED
  BY <1>1, <1>3, <1>4, <1>5 DEF TerminalWrites, OfBadChunk

LEMMA CloseEffect ==
  ASSUME TypeOK, TerminalFinishes
  PROVE  Closes
<1>1. PICK w \in 0..Size : w = terminal.written
  BY TerminalTypes
<1>2. PICK state \in {"done", "failed"}, status \in OfFinish, cost \in {0, 1} :
        Take("finish", state, w, status, cost) /\ (status = "done" => state = "done")
  BY <1>1 DEF TerminalFinishes, OfFinish
<1>3. state \in TerminalStates
  BY DEF TerminalStates
<1>4. Took("finish", state, w, status)
  BY <1>2, <1>3, TakeEffect
<1> QED
  BY <1>1, <1>2, <1>4 DEF Closes, TerminalFinishes

LEMMA IgnoreEffect ==
  ASSUME TypeOK, TerminalIgnores
  PROVE  Ignores
<1>1. /\ down # <<>> /\ down' = Tail(down) /\ UNCHANGED <<phase, uploadVars, statusCh, up, troubles>>
      /\ terminal' = [terminal EXCEPT !.state =
                        IF Head(down).type = "abort" /\ @ = "receiving" THEN "idle" ELSE @]
      /\ \/ Head(down).type = "abort"
         \/ terminal.state # IF Head(down).type = "begin" THEN "idle" ELSE "receiving"
  BY DEF TerminalIgnores
<1>2. terminal \in [state : TerminalStates, written : 0..Size]
  BY DEF TypeOK, TerminalStates
<1>3. /\ terminal' \in [state : TerminalStates, written : 0..Size]
      /\ terminal'.written = terminal.written
      /\ terminal'.state = IF Head(down).type = "abort" /\ terminal.state = "receiving"
                             THEN "idle" ELSE terminal.state
  BY <1>1, <1>2 DEF TerminalStates
<1>4. troubles' \in 0..MaxTroubles /\ troubles <= troubles'
  BY <1>1, OtaAssumption DEF TypeOK, OtaAssumption
<1> QED
  BY <1>1, <1>3, <1>4 DEF Ignores, Takes

\* Every step is one of these.
LEMMA Steps ==
  ASSUME TypeOK, UploadInv, DownInv, ReportInv, [Next]_vars
  PROVE  \/ Begins \/ Finishes \/ Ends \/ (\E n \in Nat : SendsChunk(n)) \/ ReadEOF
         \/ TakeStarted \/ TakeDone \/ (\E n \in 0..Size : Acks(n))
         \/ Opens \/ (\E n \in 0..Size : Writes(n)) \/ Rejects \/ Closes \/ Ignores
         \/ Callback \/ UNCHANGED vars
<1>1. CASE PublishFails \/ TakeFailure \/ Timeout \/ Interrupt \/ (PublishFinish /\ acked # Size)
  BY <1>1, EndEffect
<1>2. CASE PublishBegin \/ (PublishFinish /\ acked = Size)
  BY <1>2, SendEffect
<1>3. CASE PublishChunk
  BY <1>3, ChunkEffect
<1>4. CASE TakeAck
  BY <1>4, AckEffect
<1>5. CASE TerminalBegins \/ TerminalFinishes \/ TerminalIgnores
  BY <1>5, OpenEffect, CloseEffect, IgnoreEffect
<1>6. CASE TerminalWrites
  BY <1>6, WriteEffect
<1> QED
  BY <1>1, <1>2, <1>3, <1>4, <1>5, <1>6 DEF Next, CtlStep

-----------------------------------------------------------------------------
(* Each part of the invariant is kept. *)

\* The offsets are numbers that grow in this order.
LEMMA Offsets ==
  ASSUME TypeOK, UploadInv
  PROVE  /\ acked \in 0..Size /\ terminal.written \in 0..Size /\ offset \in 0..Size /\ file \in 0..Size
         /\ Size \in Nat \ {0} /\ Window \in Nat \ {0} /\ pending \in 0..Window
         /\ acked <= terminal.written /\ terminal.written <= offset /\ acked <= offset /\ offset <= file
<1>1. /\ acked \in 0..Size /\ terminal.written \in 0..Size /\ offset \in 0..Size /\ file \in 0..Size
      /\ Size \in Nat \ {0} /\ Window \in Nat \ {0} /\ pending \in 0..Window
  <2>1. terminal.written \in 0..Size /\ file \in 0..Size /\ Size \in Nat \ {0}
    BY TerminalTypes, FileFacts
  <2>2. Window \in Nat \ {0}
    BY OtaAssumption DEF OtaAssumption
  <2> QED
    BY <2>1, <2>2 DEF TypeOK
<1>2. acked <= terminal.written /\ terminal.written <= offset /\ offset <= file
  BY DEF UploadInv
<1>3. acked <= offset
  <2>1. PICK w \in 0..Size : w = terminal.written
    BY <1>1
  <2> QED
    BY <1>1, <1>2, <2>1
<1> QED
  BY <1>1, <1>2, <1>3

LEMMA CallbackEffect ==
  ASSUME TypeOK, Callback
  PROVE  /\ UNCHANGED <<phase, uploadVars, down, terminal, troubles>>
         /\ up # <<>> /\ Head(up) \in Reports /\ up' = Tail(up) /\ up' \in Seq(Reports)
         /\ ToSet(up) = {Head(up)} \cup ToSet(up') /\ Len(up') = Len(up) - 1
         /\ \/ statusCh' = statusCh /\ Len(statusCh) >= StatusCap
            \/ /\ statusCh' = Append(statusCh, Head(up))
               /\ ToSet(statusCh') = ToSet(statusCh) \cup {Head(up)}
               /\ Len(statusCh') = Len(statusCh) + 1
         /\ statusCh' \in Seq(Reports) /\ Len(statusCh') <= StatusCap
<1>1. up \in Seq(Reports) /\ up # <<>> /\ statusCh \in Seq(Reports) /\ StatusCap \in Nat
      /\ Len(statusCh) <= StatusCap
  BY OtaAssumption DEF TypeOK, Callback, OtaAssumption
<1>2. /\ Head(up) \in Reports /\ Tail(up) \in Seq(Reports) /\ Len(Tail(up)) = Len(up) - 1
      /\ ToSet(up) = {Head(up)} \cup ToSet(Tail(up))
  BY <1>1, TailFacts
<1>3. /\ Append(statusCh, Head(up)) \in Seq(Reports) /\ Len(statusCh) \in Nat
      /\ Len(Append(statusCh, Head(up))) = Len(statusCh) + 1
      /\ ToSet(Append(statusCh, Head(up))) = ToSet(statusCh) \cup {Head(up)}
  BY <1>1, <1>2, AppendFacts
<1>4. /\ UNCHANGED <<phase, uploadVars, down, terminal, troubles>> /\ up' = Tail(up)
      /\ statusCh' = IF Len(statusCh) < StatusCap THEN Append(statusCh, Head(up)) ELSE statusCh
  BY DEF Callback
<1>5. CASE Len(statusCh) < StatusCap
  <2>1. statusCh' = Append(statusCh, Head(up))
    BY <1>4, <1>5
  <2>2. Len(statusCh') <= StatusCap
    BY <1>1, <1>3, <1>5, <2>1
  <2> QED
    BY <1>1, <1>2, <1>3, <1>4, <2>1, <2>2
<1>6. CASE ~(Len(statusCh) < StatusCap)
  <2>1. statusCh' = statusCh /\ Len(statusCh) >= StatusCap
    BY <1>1, <1>3, <1>4, <1>6
  <2> QED
    BY <1>1, <1>2, <1>4, <2>1
<1> QED
  BY <1>5, <1>6

\* Sequences that a step appends to or takes from keep their type.
LEMMA SendTypes ==
  ASSUME TypeOK, NEW m \in Messages, Sends(m)
  PROVE  down' \in Seq(Messages) /\ troubles' \in 0..MaxTroubles
<1>1. down \in Seq(Messages)
  BY DEF TypeOK
<1> QED
  BY <1>1, AppendFacts DEF Sends

LEMMA TailTypes ==
  ASSUME TypeOK, statusCh' = statusCh \/ (statusCh # <<>> /\ statusCh' = Tail(statusCh))
  PROVE  statusCh' \in Seq(Reports) /\ Len(statusCh') <= StatusCap
<1>1. statusCh \in Seq(Reports) /\ Len(statusCh) <= StatusCap /\ StatusCap \in Nat
  BY OtaAssumption DEF TypeOK, OtaAssumption
<1>2. Len(statusCh) \in Nat
  BY <1>1
<1>3. statusCh # <<>> => Tail(statusCh) \in Seq(Reports) /\ Len(Tail(statusCh)) = Len(statusCh) - 1
  BY HeadFacts
<1> QED
  BY <1>1, <1>2, <1>3

LEMMA TakeTypes ==
  ASSUME TypeOK, Takes, UNCHANGED up \/ (\E status, written : Reported(status, written))
  PROVE  TypeOK'
<1>1. down' \in Seq(Messages)
  BY DownFacts DEF Takes
<1>2. up' \in Seq(Reports)
  <2>1. up \in Seq(Reports)
    BY DEF TypeOK
  <2>2. up' = up \/ \E r \in Reports : up' = Append(up, r)
    BY DEF Reported
  <2> QED
    BY <2>1, <2>2, AppendFacts
<1>3. UNCHANGED <<phase, uploadVars, statusCh>>
  BY DEF Takes
<1> QED
  BY <1>1, <1>2, <1>3 DEF TypeOK, Takes, uploadVars, TerminalStates

Phases == {"begin", "starting", "sending", "waiting", "uploaded", "finishing", "ok", "failed"}

LEMMA TypeStep ==
  ASSUME TypeOK, UploadInv, DownInv, ReportInv, [Next]_vars
  PROVE  TypeOK'
<1>1. CASE Begins \/ Finishes
  <2>1. PICK m \in Messages : Sends(m)
    BY <1>1, ControlTypes DEF Begins, Finishes
  <2>2. down' \in Seq(Messages) /\ troubles' \in 0..MaxTroubles
    BY <2>1, SendTypes
  <2>3. UNCHANGED <<uploadVars, statusCh, up, terminal>> /\ phase' \in Phases
    BY <1>1 DEF Begins, Finishes, Phases
  <2> QED
    BY <2>2, <2>3 DEF TypeOK, uploadVars, Phases
<1>2. CASE Ends
  <2>1. statusCh' \in Seq(Reports) /\ Len(statusCh') <= StatusCap
    BY <1>2, TailTypes DEF Ends
  <2>2. down' \in Seq(Messages)
    <3>1. down \in Seq(Messages) /\ Control("abort") \in Messages
      BY ControlTypes DEF TypeOK
    <3> QED
      BY <1>2, <3>1, AppendFacts DEF Ends
  <2>3. UNCHANGED <<uploadVars, up, terminal>> /\ phase' \in Phases /\ troubles' \in 0..MaxTroubles
    BY <1>2 DEF Ends, Phases
  <2> QED
    BY <2>1, <2>2, <2>3 DEF TypeOK, uploadVars, Phases
<1>3. CASE \E n \in Nat : SendsChunk(n)
  <2>1. PICK n \in Nat : SendsChunk(n)
    BY <1>3
  <2>2. PICK m \in Messages : Sends(m)
    BY <2>1 DEF SendsChunk
  <2>3. down' \in Seq(Messages) /\ troubles' \in 0..MaxTroubles
    BY <2>2, SendTypes
  <2>4. offset' \in 0..Size
    BY <2>1, Offsets DEF SendsChunk
  <2>5. pending' \in 0..Window
    <3>1. pending < Window
      BY <2>1 DEF SendsChunk, UploadInv
    <3> QED
      BY <2>1, <3>1, Offsets DEF SendsChunk
  <2>6. UNCHANGED <<file, acked, eof, statusCh, up, terminal>> /\ phase' \in Phases
    BY <2>1 DEF SendsChunk, Phases
  <2> QED
    BY <2>3, <2>4, <2>5, <2>6 DEF TypeOK, Phases
<1>4. CASE ReadEOF
  <2>1. eof' \in BOOLEAN /\ phase' \in Phases /\ UNCHANGED <<file, offset, acked, pending, statusCh, netVars>>
    BY <1>4 DEF ReadEOF, Phases
  <2> QED
    BY <2>1 DEF TypeOK, netVars, Phases
<1>5. CASE TakeStarted \/ TakeDone
  <2>1. /\ statusCh # <<>> /\ statusCh' = Tail(statusCh) /\ phase' \in Phases
        /\ UNCHANGED <<uploadVars, netVars>>
    BY <1>5 DEF TakeStarted, TakeDone, Waiting, Phases
  <2>2. statusCh' \in Seq(Reports) /\ Len(statusCh') <= StatusCap
    BY <2>1, TailTypes
  <2> QED
    BY <2>1, <2>2 DEF TypeOK, uploadVars, netVars, Phases
<1>6. CASE \E n \in 0..Size : Acks(n)
  <2>1. PICK n \in 0..Size : Acks(n)
    BY <1>6
  <2>2. statusCh' \in Seq(Reports) /\ Len(statusCh') <= StatusCap
    BY <2>1, TailTypes DEF Acks
  <2>3. pending' \in 0..Window
    <3>1. PICK w \in 0..Size : w = terminal.written
      BY Offsets
    <3>2. acked < n /\ n <= w /\ w <= offset /\ pending' = Chunk(offset - n)
      BY <2>1, <3>1, Offsets DEF Acks
    <3>3. pending = Chunk(offset - acked)
      BY DEF UploadInv
    <3>4. offset - n \in Nat /\ offset - acked \in Nat /\ offset - n <= offset - acked
      BY <3>1, <3>2, Offsets
    <3>5. Chunk(offset - n) <= Chunk(offset - acked) /\ Chunk(offset - n) \in Nat
      BY <3>4, ChunkMonotone, ChunkFacts
    <3> QED
      BY <3>2, <3>3, <3>5, Offsets
  <2>4. phase' \in Phases /\ acked' \in 0..Size /\ UNCHANGED <<file, offset, eof, netVars>>
    BY <2>1 DEF Acks, LoopHead, Phases
  <2> QED
    BY <2>2, <2>3, <2>4 DEF TypeOK, netVars, Phases
<1>7. CASE Opens \/ (\E n \in 0..Size : Writes(n)) \/ Rejects \/ Closes \/ Ignores
  <2>1. Takes /\ (UNCHANGED up \/ (\E status, written : Reported(status, written)))
    BY <1>7 DEF Opens, Writes, Rejects, Closes, Ignores, Took
  <2> QED
    BY <2>1, TakeTypes
<1>8. CASE Callback
  BY <1>8, CallbackEffect DEF TypeOK, uploadVars
<1>9. CASE UNCHANGED vars
  BY <1>9 DEF TypeOK, vars, uploadVars, netVars
<1> QED
  BY <1>1, <1>2, <1>3, <1>4, <1>5, <1>6, <1>7, <1>8, <1>9, Steps

\* Nothing is pending before the first chunk.
LEMMA NothingPending ==
  ASSUME TypeOK, UploadInv, offset = 0
  PROVE  acked = 0 /\ terminal.written = 0 /\ pending = 0 /\ OnGrid(0)
<1>1. PICK w \in 0..Size : w = terminal.written /\ acked <= w /\ w <= offset
  BY Offsets
<1>2. acked = 0 /\ w = 0
  BY <1>1, Offsets
<1>3. offset - acked = 0
  BY <1>2
<1>4. pending = Chunk(offset - acked)
  BY DEF UploadInv
<1>5. pending = 0
  BY <1>3, <1>4, NoChunk
<1>6. OnGrid(0)
  BY <1>2 DEF UploadInv
<1> QED
  BY <1>1, <1>2, <1>5, <1>6

\* The upload's numbers do not change.
LEMMA SameUpload ==
  ASSUME UploadInv, UNCHANGED <<file, offset, acked, pending, terminal>>,
         phase' \in {"begin", "starting"} => offset = 0,
         phase' \in {"begin", "starting", "sending"} => ~eof',
         phase' = "sending" => pending < Window,
         phase' \in {"finishing", "ok"} => acked = Size,
         phase' = "ok" => terminal.state = "done"
  PROVE  UploadInv'
BY DEF UploadInv, OnGrid

LEMMA UploadWrites ==
  ASSUME TypeOK, UploadInv, DownInv, NEW n \in 0..Size, Writes(n)
  PROVE  UploadInv' /\ n > terminal.written
<1>1. PICK h \in Messages : h = Head(down) /\ h = down[1] /\ 1 \in DOMAIN down
  BY DownFacts DEF Writes, Took, Takes
<1>2. h.type = "chunk" /\ h.from = terminal.written /\ n = terminal.written + h.length
  BY <1>1 DEF Writes, Took
<1>3. /\ h.from + h.length <= offset /\ OnGrid(h.from + h.length)
      /\ h.length \in Nat \ {0} /\ h.from \in 0..Size
  BY <1>1, <1>2, TerminalTypes, OtaAssumption DEF DownInv, OtaAssumption
<1>4. n = h.from + h.length
  BY <1>2
<1>5. n <= offset /\ OnGrid(n)
  BY <1>3, <1>4
<1>6. PICK w \in 0..Size : w = terminal.written /\ acked <= w
  BY Offsets
<1>7. acked <= n /\ n > w
  BY <1>2, <1>3, <1>6, Offsets
<1>8. terminal'.written = n /\ UNCHANGED <<file, offset, acked, pending, eof, phase>>
  BY DEF Writes, Took, Takes, uploadVars
<1>9. phase = "ok" => terminal.state = "done"
  BY DEF UploadInv
<1>10. phase # "ok"
  BY <1>9 DEF Writes
<1>11. UploadInv'
  BY <1>5, <1>7, <1>8, <1>10 DEF UploadInv, OnGrid
<1> QED
  BY <1>6, <1>7, <1>11

LEMMA UploadSends ==
  ASSUME TypeOK, UploadInv, NEW n \in Nat, SendsChunk(n)
  PROVE  UploadInv'
<1>1. /\ offset < n /\ n <= file /\ offset' = n /\ OnGrid(n) /\ Chunk(n) = Chunk(offset) + 1
      /\ UNCHANGED <<file, acked, eof, terminal>> /\ pending' = pending + 1
      /\ phase = "sending" /\ phase' = IF pending' < Window THEN "sending" ELSE "waiting"
  BY DEF SendsChunk
<1>2. terminal.written <= n /\ acked <= n
  BY <1>1, Offsets
<1>3. pending' = Chunk(n - acked)
  <2>1. OnGrid(acked) /\ pending = Chunk(offset - acked)
    BY DEF UploadInv
  <2>2. Chunk(n - acked) = Chunk(n) - Chunk(acked)
    BY <1>1, <1>2, <2>1, Offsets, ChunksBetween
  <2>3. Chunk(offset - acked) = Chunk(offset) - Chunk(acked)
    BY <2>1, Offsets, ChunksBetween
  <2>4. PICK a \in Nat, b \in Nat : a = Chunk(acked) /\ b = Chunk(offset)
    BY Offsets, ChunkFacts
  <2>5. pending = b - a /\ Chunk(n - acked) = b + 1 - a
    BY <1>1, <2>1, <2>2, <2>3, <2>4
  <2> QED
    BY <1>1, <2>4, <2>5
<1>4. offset' - acked' = n - acked
  BY <1>1
<1>5. (pending = Chunk(offset - acked))'
  BY <1>3, <1>4
<1>6. (/\ acked <= terminal.written /\ terminal.written <= offset /\ offset <= file
       /\ OnGrid(acked) /\ OnGrid(offset) /\ OnGrid(terminal.written))'
  BY <1>1, <1>2 DEF UploadInv, OnGrid
<1> QED
  BY <1>1, <1>5, <1>6 DEF UploadInv

LEMMA UploadAcks ==
  ASSUME TypeOK, UploadInv, NEW n \in 0..Size, Acks(n)
  PROVE  UploadInv'
<1>1. /\ n <= terminal.written /\ OnGrid(n) /\ acked' = n /\ pending' = Chunk(offset - n)
      /\ UNCHANGED <<file, offset, eof, terminal>>
      /\ phase' = LoopHead(eof, pending')
  BY DEF Acks, netVars
<1>2. pending' = Chunk(offset' - acked')
  BY <1>1
<1>3. /\ phase' \in {"sending", "waiting", "uploaded"}
      /\ phase' = "sending" => ~eof' /\ pending' < Window
  BY <1>1 DEF LoopHead
<1> QED
  BY <1>1, <1>2, <1>3 DEF UploadInv, OnGrid

LEMMA UploadStep ==
  ASSUME TypeOK, UploadInv, DownInv, ReportInv, [Next]_vars
  PROVE  UploadInv'
<1>1. CASE Begins \/ Finishes
  BY <1>1, SameUpload DEF Begins, Finishes, uploadVars, UploadInv
<1>2. CASE Ends
  BY <1>2, SameUpload DEF Ends, uploadVars
<1>3. CASE \E n \in Nat : SendsChunk(n)
  BY <1>3, UploadSends
<1>4. CASE ReadEOF
  BY <1>4, SameUpload DEF ReadEOF, netVars
<1>5. CASE TakeStarted
  <2>1. offset = 0 /\ ~eof
    BY <1>5 DEF UploadInv, TakeStarted
  <2>2. pending < Window
    BY <2>1, NothingPending, Offsets
  <2> QED
    BY <1>5, <2>1, <2>2, SameUpload DEF TakeStarted, uploadVars, netVars
<1>6. CASE TakeDone
  <2>1. acked = Size
    BY <1>6 DEF UploadInv, TakeDone
  <2>2. terminal.state = "done"
    BY <1>6, HeadFacts DEF ReportInv, TakeDone, Waiting
  <2> QED
    BY <1>6, <2>1, <2>2, SameUpload DEF TakeDone, uploadVars, netVars
<1>7. CASE \E n \in 0..Size : Acks(n)
  BY <1>7, UploadAcks
<1>8. CASE Opens
  <2>1. Head(down).type = "begin" /\ terminal'.written = 0 /\ Takes
    BY <1>8 DEF Opens, Took
  <2>2. Head(down) = down[1] /\ 1 \in DOMAIN down
    BY <2>1, DownFacts DEF Takes
  <2>3. offset = 0 /\ phase \in {"starting", "failed"}
    BY <2>1, <2>2 DEF DownInv
  <2>4. acked = 0 /\ terminal.written = 0
    BY <2>3, NothingPending
  <2>5. UNCHANGED <<file, offset, acked, pending, eof, phase>>
    BY <2>1 DEF Takes, uploadVars
  <2> QED
    BY <2>1, <2>3, <2>4, <2>5 DEF UploadInv, OnGrid
<1>9. CASE \E n \in 0..Size : Writes(n)
  BY <1>9, UploadWrites
<1>10. CASE Rejects \/ Closes \/ Ignores
  <2>1. /\ terminal'.written = terminal.written /\ Takes
        /\ terminal.state = "done" => terminal'.state = "done"
    BY <1>10 DEF Rejects, Closes, Ignores, Took
  <2>2. UNCHANGED <<file, offset, acked, pending, eof, phase>>
    BY <2>1 DEF Takes, uploadVars
  <2> QED
    BY <2>1, <2>2 DEF UploadInv, OnGrid
<1>11. CASE Callback
  BY <1>11, CallbackEffect, SameUpload DEF uploadVars, UploadInv
<1>12. CASE UNCHANGED vars
  BY <1>12, SameUpload DEF vars, uploadVars, netVars, UploadInv
<1> QED
  BY <1>1, <1>2, <1>3, <1>4, <1>5, <1>6, <1>7, <1>8, <1>9, <1>10, <1>11, <1>12, Steps

\* A report is taken from the channel, or none.
LEMMA ReportsLeft ==
  ASSUME TypeOK, statusCh' = statusCh \/ (statusCh # <<>> /\ statusCh' = Tail(statusCh)), up' = up
  PROVE  /\ ToSet(statusCh') \subseteq ToSet(statusCh) /\ Heard' \subseteq Heard
         /\ Ordered(statusCh) => Ordered(statusCh')
<1>1. statusCh \in Seq(Reports)
  BY DEF TypeOK
<1>2. CASE statusCh' = statusCh
  BY <1>2 DEF Heard
<1>3. CASE statusCh # <<>> /\ statusCh' = Tail(statusCh)
  <2>1. ToSet(statusCh) = {Head(statusCh)} \cup ToSet(statusCh')
    BY <1>3, HeadFacts
  <2>2. Ordered(statusCh) => Ordered(statusCh')
    BY <1>1, <1>3, OrderedTail
  <2> QED
    BY <2>1, <2>2 DEF Heard
<1> QED
  BY <1>2, <1>3

\* What mobctl's steps do to the messages on their way.
Advances(m) ==
  /\ UNCHANGED <<file, terminal>> /\ Heard' \subseteq Heard
  /\ down' = down \/ down' = Append(down, m)
  /\ offset <= offset' /\ phase' # "begin" /\ (acked = Size => acked' = Size)
  /\ phase \in {"starting", "failed"} /\ Heard = {} =>
       phase' \in {"starting", "failed"} /\ offset' = offset
  /\ m.type = "begin" => phase = "begin" /\ phase' = "starting" /\ offset' = offset
  /\ m.type = "chunk" => m.from = offset /\ m.from + m.length = offset' /\ OnGrid(offset')
  /\ m.type = "finish" => acked' = Size

LEMMA MobctlAdvances ==
  ASSUME TypeOK, UploadInv,
         \/ Begins \/ Finishes \/ Ends \/ (\E n \in Nat : SendsChunk(n)) \/ ReadEOF
         \/ TakeStarted \/ TakeDone \/ (\E n \in 0..Size : Acks(n))
  PROVE  \E m \in Messages : Advances(m)
<1>1. offset \in Nat /\ offset <= offset /\ acked \in 0..Size /\ acked <= terminal.written
      /\ terminal.written \in 0..Size /\ Size \in Nat
  BY Offsets
<1>2. CASE Begins
  <2>1. PICK m \in Messages : m.type = "begin" /\ Sends(m)
    BY <1>2, ControlTypes DEF Begins
  <2>2. Heard' \subseteq Heard
    BY <1>2, ReportsLeft DEF Begins
  <2> QED
    BY <1>1, <1>2, <2>1, <2>2 DEF Begins, Sends, Advances, uploadVars
<1>3. CASE Finishes
  <2>1. PICK m \in Messages : m.type = "finish" /\ Sends(m)
    BY <1>3, ControlTypes DEF Finishes
  <2>2. Heard' \subseteq Heard
    BY <1>3, ReportsLeft DEF Finishes
  <2> QED
    BY <1>1, <1>3, <2>1, <2>2 DEF Finishes, Sends, Advances, uploadVars
<1>4. CASE Ends
  <2>1. PICK m \in Messages : m.type = "abort" /\ (down' = down \/ down' = Append(down, m))
    BY <1>4, ControlTypes DEF Ends
  <2>2. Heard' \subseteq Heard
    BY <1>4, ReportsLeft DEF Ends
  <2> QED
    BY <1>1, <1>4, <2>1, <2>2 DEF Ends, Advances, uploadVars
<1>5. CASE \E n \in Nat : SendsChunk(n)
  <2>1. PICK n \in Nat : SendsChunk(n)
    BY <1>5
  <2>2. PICK m \in Messages : m.type = "chunk" /\ m.from = offset /\ m.from + m.length = n /\ Sends(m)
    BY <2>1 DEF SendsChunk
  <2>3. Heard' \subseteq Heard
    BY <2>1, ReportsLeft DEF SendsChunk
  <2>4. offset <= offset' /\ offset' = n /\ OnGrid(offset')
    BY <1>1, <2>1 DEF SendsChunk
  <2>5. phase = "sending" /\ phase' # "begin" /\ UNCHANGED <<file, terminal, acked>>
    BY <2>1 DEF SendsChunk
  <2> QED
    BY <2>2, <2>3, <2>4, <2>5 DEF Sends, Advances
<1>6. CASE ReadEOF \/ TakeStarted \/ TakeDone
  <2>1. Control("abort") \in Messages /\ Control("abort").type = "abort"
    BY ControlTypes
  <2>2. statusCh' = statusCh \/ (statusCh # <<>> /\ statusCh' = Tail(statusCh))
    BY <1>6 DEF ReadEOF, TakeStarted, TakeDone, Waiting
  <2>3. UNCHANGED <<file, offset, acked, down, up, terminal>>
    BY <1>6 DEF ReadEOF, TakeStarted, TakeDone, uploadVars, netVars
  <2>4. Heard' \subseteq Heard
    BY <2>2, <2>3, ReportsLeft
  <2>5. phase' # "begin" /\ ~(phase \in {"starting", "failed"} /\ Heard = {})
    BY <1>6, HeadFacts DEF ReadEOF, TakeStarted, TakeDone, Waiting
  <2> QED
    BY <1>1, <2>1, <2>3, <2>4, <2>5 DEF Advances
<1>7. CASE \E n \in 0..Size : Acks(n)
  <2>1. PICK n \in 0..Size : Acks(n)
    BY <1>7
  <2>2. Control("abort") \in Messages /\ Control("abort").type = "abort"
    BY ControlTypes
  <2>3. /\ statusCh # <<>> /\ statusCh' = Tail(statusCh) /\ UNCHANGED <<file, offset, down, up, terminal>>
        /\ phase = "waiting" /\ phase' # "begin"
    BY <2>1 DEF Acks, netVars, LoopHead
  <2>4. Heard' \subseteq Heard
    BY <2>3, ReportsLeft
  <2>5. acked = Size => acked' = Size
    BY <1>1, <2>1 DEF Acks
  <2> QED
    BY <1>1, <2>2, <2>3, <2>4, <2>5 DEF Advances
<1> QED
  BY <1>2, <1>3, <1>4, <1>5, <1>6, <1>7

\* A message on its way was so before, or is the one that is sent.
LEMMA SentMessage ==
  ASSUME TypeOK, NEW m \in Messages, down' = down \/ down' = Append(down, m),
         NEW i \in DOMAIN down'
  PROVE  \/ i \in DOMAIN down /\ down'[i] = down[i] /\ i < Len(down) + 1
         \/ i = Len(down) + 1 /\ down'[i] = m
<1>1. down \in Seq(Messages)
  BY DEF TypeOK
<1>2. CASE down' = down
  BY <1>1, <1>2
<1>3. CASE down' = Append(down, m)
  BY <1>1, <1>3, AppendFacts
<1> QED
  BY <1>2, <1>3

\* A chunk on its way is of the firmware that was sent.
LEMMA ChunkOnItsWay ==
  ASSUME TypeOK, DownInv, NEW i \in DOMAIN down, down[i].type = "chunk"
  PROVE  /\ down[i].from \in Nat /\ down[i].length \in Nat \ {0}
         /\ terminal.written <= down[i].from /\ down[i].from + down[i].length <= offset
         /\ OnGrid(down[i].from + down[i].length)
<1>1. down[i] \in Messages
  BY DEF TypeOK
<1>2. down[i].from \in Nat /\ down[i].length \in Nat \ {0}
  BY <1>1, TerminalTypes, OtaAssumption DEF OtaAssumption
<1> QED
  BY <1>2 DEF DownInv

LEMMA DownAdvances ==
  ASSUME TypeOK, UploadInv, DownInv, NEW m \in Messages, Advances(m), offset' \in Nat
  PROVE  DownInv'
<1>1. PICK w \in 0..Size : w = terminal.written /\ w <= offset /\ offset \in Nat /\ Size \in Nat
  BY Offsets
<1>2. /\ UNCHANGED <<file, terminal>> /\ Heard' \subseteq Heard
      /\ down' = down \/ down' = Append(down, m)
      /\ offset <= offset' /\ phase' # "begin"
  BY DEF Advances
<1>3. ASSUME NEW i \in DOMAIN down'
      PROVE  /\ down'[i].type = "begin" =>
                  /\ i = 1 /\ terminal'.state = "idle" /\ Heard' = {}
                  /\ offset' = 0 /\ phase' \in {"starting", "failed"}
             /\ down'[i].type = "chunk" =>
                  /\ terminal'.written <= down'[i].from /\ down'[i].from + down'[i].length <= offset'
                  /\ OnGrid(down'[i].from + down'[i].length)
             /\ down'[i].type = "finish" => acked' = Size
  <2>1. CASE i \in DOMAIN down /\ down'[i] = down[i]
    <3>1. ASSUME down[i].type = "begin"
          PROVE  /\ i = 1 /\ terminal'.state = "idle" /\ Heard' = {}
                 /\ offset' = 0 /\ phase' \in {"starting", "failed"}
      <4>1. i = 1 /\ terminal.state = "idle" /\ Heard = {} /\ offset = 0 /\ phase \in {"starting", "failed"}
        BY <2>1, <3>1 DEF DownInv
      <4> QED
        BY <1>2, <4>1 DEF Advances
    <3>2. ASSUME down[i].type = "chunk"
          PROVE  /\ terminal'.written <= down[i].from /\ down[i].from + down[i].length <= offset'
                 /\ OnGrid(down[i].from + down[i].length)
      <4>1. PICK n \in Nat : n = down[i].from + down[i].length
        BY <2>1, <3>2, ChunkOnItsWay
      <4>2. terminal.written <= down[i].from /\ n <= offset /\ OnGrid(n)
        BY <2>1, <3>2, <4>1, ChunkOnItsWay
      <4>3. n <= offset'
        BY <1>1, <1>2, <4>2
      <4> QED
        BY <1>2, <4>1, <4>2, <4>3
    <3>3. down[i].type = "finish" => acked' = Size
      BY <2>1 DEF DownInv, Advances
    <3> QED
      BY <2>1, <3>1, <3>2, <3>3
  <2>2. CASE i = Len(down) + 1 /\ down'[i] = m
    <3>1. ASSUME m.type = "begin"
          PROVE  /\ i = 1 /\ terminal'.state = "idle" /\ Heard' = {}
                 /\ offset' = 0 /\ phase' \in {"starting", "failed"}
      <4>1. phase = "begin" /\ phase' = "starting" /\ offset' = offset
        BY <3>1 DEF Advances
      <4>2. down = <<>> /\ terminal.state = "idle" /\ Heard = {} /\ offset = 0
        BY <4>1 DEF DownInv, UploadInv
      <4> QED
        BY <1>2, <2>2, <4>1, <4>2
    <3>2. ASSUME m.type = "chunk"
          PROVE  /\ terminal'.written <= m.from /\ m.from + m.length <= offset'
                 /\ OnGrid(m.from + m.length)
      BY <1>1, <1>2, <3>2 DEF Advances
    <3>3. m.type = "finish" => acked' = Size
      BY DEF Advances
    <3> QED
      BY <2>2, <3>1, <3>2, <3>3
  <2> QED
    BY <1>2, <2>1, <2>2, SentMessage
<1>4. ASSUME NEW i \in DOMAIN down', NEW k \in DOMAIN down', i < k,
             down'[i].type = "chunk", down'[k].type = "chunk"
      PROVE  down'[i].from + down'[i].length <= down'[k].from
  <2>0. Len(down) \in Nat /\ DOMAIN down = 1..Len(down)
    BY DEF TypeOK
  <2>1. CASE i \in DOMAIN down /\ down'[i] = down[i] /\ k \in DOMAIN down /\ down'[k] = down[k]
    BY <1>4, <2>1 DEF DownInv
  <2>2. CASE i \in DOMAIN down /\ down'[i] = down[i] /\ k = Len(down) + 1 /\ down'[k] = m
    BY <1>4, <2>2, ChunkOnItsWay DEF Advances
  <2>3. CASE i = Len(down) + 1 /\ (k = Len(down) + 1 \/ k < Len(down) + 1)
    BY <1>4, <2>0, <2>3
  <2> QED
    BY <1>2, <2>1, <2>2, <2>3, SentMessage
<1>5. (\A i \in DOMAIN down :
         /\ down[i].type = "begin" =>
              /\ i = 1 /\ terminal.state = "idle" /\ Heard = {}
              /\ offset = 0 /\ phase \in {"starting", "failed"}
         /\ down[i].type = "chunk" =>
              /\ terminal.written <= down[i].from /\ down[i].from + down[i].length <= offset
              /\ OnGrid(down[i].from + down[i].length)
         /\ down[i].type = "finish" => acked = Size)'
  BY <1>2, <1>3 DEF OnGrid
<1>6. (\A i, k \in DOMAIN down :
         i < k /\ down[i].type = "chunk" /\ down[k].type = "chunk" =>
           down[i].from + down[i].length <= down[k].from)'
  BY <1>4
<1> QED
  BY <1>2, <1>5, <1>6 DEF DownInv

\* The terminal has written up to the messages that are left.
LEMMA DownTakes ==
  ASSUME TypeOK, DownInv, Takes, NEW n \in 0..Size, terminal'.written = n,
         \/ n <= terminal.written
         \/ Head(down).type = "chunk" /\ n <= Head(down).from + Head(down).length
  PROVE  DownInv'
<1>1. /\ UNCHANGED <<file, offset, acked, phase, statusCh>>
      /\ down # <<>> /\ down' = Tail(down)
  BY DEF Takes, uploadVars
<1>2. /\ Head(down) = down[1] /\ 1 \in DOMAIN down
      /\ \A i \in DOMAIN down' : i \in Nat \ {0} /\ i + 1 \in DOMAIN down /\ down'[i] = down[i + 1]
  BY <1>1, DownFacts
<1>3. phase # "begin"
  BY <1>1 DEF DownInv
<1>4. ASSUME NEW i \in DOMAIN down'
      PROVE  /\ down'[i].type # "begin"
             /\ down'[i].type = "chunk" =>
                  /\ n <= down'[i].from /\ down'[i].from + down'[i].length <= offset
                  /\ OnGrid(down'[i].from + down'[i].length)
             /\ down'[i].type = "finish" => acked = Size
  <2>1. PICK k \in DOMAIN down : k = i + 1 /\ down'[i] = down[k] /\ 1 < k /\ k # 1
    BY <1>2
  <2>2. down[k].type # "begin" /\ (down[k].type = "finish" => acked = Size)
    BY <2>1 DEF DownInv
  <2>3. ASSUME down[k].type = "chunk"
        PROVE  n <= down[k].from
    <3>1. PICK f \in Nat : f = down[k].from /\ terminal.written <= f
      BY <2>3, ChunkOnItsWay
    <3>2. CASE n <= terminal.written
      BY <3>1, <3>2, TerminalTypes
    <3>3. CASE Head(down).type = "chunk" /\ n <= Head(down).from + Head(down).length
      <4>1. down[1].from \in Nat /\ down[1].length \in Nat
        BY <1>2, <3>3, ChunkOnItsWay
      <4>2. down[1].from + down[1].length <= down[k].from
        BY <1>2, <2>1, <2>3, <3>3 DEF DownInv
      <4>3. PICK e \in Nat : e = down[1].from + down[1].length
        BY <4>1
      <4>4. n <= e /\ e <= f
        BY <1>2, <3>1, <3>3, <4>2, <4>3
      <4> QED
        BY <3>1, <4>4
    <3> QED
      BY <3>2, <3>3
  <2> QED
    BY <2>1, <2>2, <2>3, ChunkOnItsWay
<1>5. ASSUME NEW i \in DOMAIN down', NEW k \in DOMAIN down', i < k,
             down'[i].type = "chunk", down'[k].type = "chunk"
      PROVE  down'[i].from + down'[i].length <= down'[k].from
  <2>1. i + 1 \in DOMAIN down /\ k + 1 \in DOMAIN down /\ i + 1 < k + 1
        /\ down'[i] = down[i + 1] /\ down'[k] = down[k + 1]
    BY <1>2, <1>5
  <2> QED
    BY <1>5, <2>1 DEF DownInv
<1>6. (\A i \in DOMAIN down :
         /\ down[i].type = "begin" =>
              /\ i = 1 /\ terminal.state = "idle" /\ Heard = {}
              /\ offset = 0 /\ phase \in {"starting", "failed"}
         /\ down[i].type = "chunk" =>
              /\ terminal.written <= down[i].from /\ down[i].from + down[i].length <= offset
              /\ OnGrid(down[i].from + down[i].length)
         /\ down[i].type = "finish" => acked = Size)'
  BY <1>1, <1>4 DEF OnGrid
<1>7. (\A i, k \in DOMAIN down :
         i < k /\ down[i].type = "chunk" /\ down[k].type = "chunk" =>
           down[i].from + down[i].length <= down[k].from)'
  BY <1>5
<1> QED
  BY <1>1, <1>3, <1>6, <1>7 DEF DownInv

LEMMA DownStep ==
  ASSUME TypeOK, UploadInv, DownInv, ReportInv, TypeOK', [Next]_vars
  PROVE  DownInv'
<1>0. offset' \in Nat
  BY FileFacts DEF TypeOK
<1>1. CASE \/ Begins \/ Finishes \/ Ends \/ (\E n \in Nat : SendsChunk(n)) \/ ReadEOF
           \/ TakeStarted \/ TakeDone \/ (\E n \in 0..Size : Acks(n))
  BY <1>0, <1>1, MobctlAdvances, DownAdvances
<1>2. CASE Opens
  <2>1. Takes /\ terminal'.written = 0 /\ 0 \in 0..Size /\ 0 <= terminal.written
    BY <1>2, Offsets DEF Opens, Took
  <2> QED
    BY <2>1, DownTakes
<1>3. CASE \E n \in 0..Size : Writes(n)
  <2>1. PICK n \in 0..Size : Writes(n)
    BY <1>3
  <2>2. /\ Takes /\ terminal'.written = n /\ Head(down).type = "chunk"
        /\ n = Head(down).from + Head(down).length
    BY <2>1 DEF Writes, Took
  <2>3. n <= Head(down).from + Head(down).length
    BY <2>2
  <2> QED
    BY <2>2, <2>3, DownTakes
<1>4. CASE Rejects \/ Closes \/ Ignores
  <2>1. PICK w \in 0..Size : w = terminal.written
    BY Offsets
  <2>2. Takes /\ terminal'.written = w /\ w <= terminal.written
    BY <1>4, <2>1 DEF Rejects, Closes, Ignores, Took
  <2> QED
    BY <2>2, DownTakes
<1>5. CASE Callback
  <2>1. UNCHANGED <<phase, uploadVars, down, terminal>>
    BY <1>5, CallbackEffect
  <2>2. Heard # {}
    BY <1>5, CallbackEffect DEF Heard
  <2> QED
    BY <2>1, <2>2 DEF DownInv, OnGrid, uploadVars
<1>6. CASE UNCHANGED vars
  BY <1>6 DEF DownInv, OnGrid, Heard, vars, uploadVars, netVars
<1> QED
  BY <1>1, <1>2, <1>3, <1>4, <1>5, <1>6, Steps

LEMMA ReportTypes ==
  ASSUME TypeOK
  PROVE  \A r \in Heard : r \in Reports /\ r.written \in 0..Size
<1>1. ToSet(statusCh) \subseteq Reports /\ ToSet(up) \subseteq Reports
  BY DEF TypeOK, ToSet
<1> QED
  BY <1>1 DEF Heard, Reports

\* What mobctl's steps do to the reports that it has not taken.
Hears ==
  /\ UNCHANGED <<file, terminal, up>>
  /\ statusCh' = statusCh \/ (statusCh # <<>> /\ statusCh' = Tail(statusCh))
  /\ offset <= offset' /\ (acked = Size => acked' = Size)
  /\ \A r \in Heard' :
       /\ r.status \in OfBegin => offset' = offset /\ phase' \in {"starting", "failed"}
       /\ r.status = "chunk" => acked' < r.written
       /\ r.status \in OfBadChunk => acked' <= r.written

LEMMA ReportHears ==
  ASSUME TypeOK, UploadInv, ReportInv, Hears, offset' \in Nat
  PROVE  ReportInv'
<1>1. /\ UNCHANGED <<file, terminal, up>> /\ offset <= offset'
      /\ statusCh' = statusCh \/ (statusCh # <<>> /\ statusCh' = Tail(statusCh))
  BY DEF Hears
<1>2. /\ ToSet(statusCh') \subseteq ToSet(statusCh) /\ Heard' \subseteq Heard
      /\ Ordered(statusCh) => Ordered(statusCh')
  BY <1>1, ReportsLeft
<1>3. ASSUME NEW r \in Heard'
      PROVE  /\ r.status \in OfBegin => offset' = 0 /\ phase' \in {"starting", "failed"}
             /\ r.status = "chunk" =>
                  acked' < r.written /\ r.written <= terminal'.written /\ OnGrid(r.written)
             /\ r.status \in OfBadChunk =>
                  /\ acked' <= r.written /\ r.written < offset' /\ OnGrid(r.written)
                  /\ terminal'.state = "failed"
             /\ r.status \in OfFinish => acked' = Size /\ terminal'.state # "receiving"
             /\ r.status = "done" => terminal'.state = "done"
  <2>1. r \in Heard
    BY <1>2
  <2>2. PICK n \in 0..Size : n = r.written
    BY <2>1, ReportTypes
  <2>3. n < offset => n < offset'
    BY <1>1, Offsets
  <2> QED
    BY <1>1, <2>1, <2>2, <2>3 DEF ReportInv, Hears
<1>4. \A a \in ToSet(statusCh'), b \in ToSet(up') : Precedes(a, b)
  BY <1>1, <1>2 DEF ReportInv
<1>5. Ordered(statusCh') /\ Ordered(up')
  BY <1>1, <1>2 DEF ReportInv
<1> QED
  BY <1>1, <1>3, <1>4, <1>5 DEF ReportInv, OnGrid

\* What is taken precedes what is left.
LEMMA HeadPrecedes ==
  ASSUME TypeOK, ReportInv, statusCh # <<>>, statusCh' = Tail(statusCh), up' = up
  PROVE  \A r \in Heard' : Precedes(Head(statusCh), r)
<1>1. statusCh \in Seq(Reports)
  BY DEF TypeOK
<1>2. \A r \in ToSet(statusCh') : Precedes(Head(statusCh), r)
  BY <1>1, OrderedTail DEF ReportInv
<1>3. Head(statusCh) \in ToSet(statusCh)
  BY HeadFacts
<1>4. \A r \in ToSet(up') : Precedes(Head(statusCh), r)
  BY <1>3 DEF ReportInv
<1> QED
  BY <1>2, <1>4 DEF Heard

LEMMA ReportMobctl ==
  ASSUME TypeOK, UploadInv, DownInv, ReportInv, TypeOK',
         \/ Begins \/ Finishes \/ Ends \/ (\E n \in Nat : SendsChunk(n)) \/ ReadEOF
         \/ TakeStarted \/ TakeDone \/ (\E n \in 0..Size : Acks(n))
  PROVE  ReportInv'
<1>1. offset \in Nat /\ offset <= offset /\ acked \in 0..Size /\ acked <= terminal.written
      /\ terminal.written \in 0..Size /\ Size \in Nat
  BY Offsets
<1>2. offset' \in Nat
  BY FileFacts DEF TypeOK
<1>3. CASE Begins
  <2>1. Heard' \subseteq Heard
    BY <1>3, ReportsLeft DEF Begins
  <2>2. Heard = {}
    BY <1>3 DEF Begins, DownInv
  <2>3. Hears
    BY <1>1, <1>3, <2>1, <2>2 DEF Begins, Hears, uploadVars
  <2> QED
    BY <1>2, <2>3, ReportHears
<1>4. CASE Finishes \/ ReadEOF
  <2>1. /\ UNCHANGED <<file, offset, acked, statusCh, up, terminal>>
        /\ phase \in {"uploaded", "sending"}
    BY <1>4 DEF Finishes, ReadEOF, uploadVars, netVars
  <2>2. Heard' \subseteq Heard
    BY <2>1, ReportsLeft
  <2>3. Hears
    BY <1>1, <2>1, <2>2 DEF Hears, ReportInv
  <2> QED
    BY <1>2, <2>3, ReportHears
<1>5. CASE Ends
  <2>1. Heard' \subseteq Heard
    BY <1>5, ReportsLeft DEF Ends
  <2>2. Hears
    BY <1>1, <1>5, <2>1 DEF Ends, Hears, ReportInv, uploadVars
  <2> QED
    BY <1>2, <2>2, ReportHears
<1>6. CASE \E n \in Nat : SendsChunk(n)
  <2>1. PICK n \in Nat : SendsChunk(n)
    BY <1>6
  <2>2. /\ UNCHANGED <<file, acked, statusCh, up, terminal>>
        /\ phase = "sending" /\ offset < offset'
    BY <2>1 DEF SendsChunk
  <2>3. Heard' \subseteq Heard
    BY <2>2, ReportsLeft
  <2>4. offset <= offset'
    BY <1>1, <1>2, <2>2
  <2>5. Hears
    BY <2>2, <2>3, <2>4 DEF Hears, ReportInv
  <2> QED
    BY <1>2, <2>5, ReportHears
<1>7. CASE TakeStarted \/ TakeDone
  <2>1. /\ UNCHANGED <<file, offset, acked, up, terminal>>
        /\ statusCh # <<>> /\ statusCh' = Tail(statusCh) /\ Head(statusCh).status # "chunk"
    BY <1>7 DEF TakeStarted, TakeDone, Waiting, uploadVars, netVars
  <2>2. Heard' = {}
    BY <2>1, HeadPrecedes DEF Precedes
  <2>3. Hears
    BY <1>1, <2>1, <2>2 DEF Hears
  <2> QED
    BY <1>2, <2>3, ReportHears
<1>8. CASE \E n \in 0..Size : Acks(n)
  <2>1. PICK n \in 0..Size : Acks(n)
    BY <1>8
  <2>2. /\ UNCHANGED <<file, offset, up, terminal>> /\ acked' = n /\ acked < n /\ Head(statusCh).written = n
        /\ statusCh # <<>> /\ statusCh' = Tail(statusCh)
    BY <2>1 DEF Acks, netVars
  <2>3. ASSUME NEW r \in Heard'
        PROVE  /\ r.status \in {"chunk"} \cup OfBadChunk /\ n <= r.written
               /\ r.status = "chunk" => n < r.written
    BY <2>2, HeadPrecedes DEF Precedes
  <2>4. acked # Size
    BY <1>1, <2>2
  <2>5. \A r \in Heard' : r.status \notin OfBegin
    BY <2>3 DEF OfBegin, OfBadChunk
  <2>6. Hears
    BY <1>1, <2>2, <2>3, <2>4, <2>5 DEF Hears
  <2> QED
    BY <1>2, <2>6, ReportHears
<1> QED
  BY <1>3, <1>4, <1>5, <1>6, <1>7, <1>8

LEMMA ReportCallback ==
  ASSUME TypeOK, ReportInv, Callback
  PROVE  ReportInv'
<1>1. /\ UNCHANGED <<phase, file, offset, acked, terminal>>
      /\ up # <<>> /\ up' = Tail(up) /\ up \in Seq(Reports) /\ statusCh \in Seq(Reports)
      /\ Head(up) \in Reports /\ ToSet(up) = {Head(up)} \cup ToSet(up')
      /\ \/ statusCh' = statusCh
         \/ /\ statusCh' = Append(statusCh, Head(up))
            /\ ToSet(statusCh') = ToSet(statusCh) \cup {Head(up)}
  BY CallbackEffect DEF uploadVars, TypeOK
<1>2. Heard' \subseteq Heard
  BY <1>1 DEF Heard
<1>3. Ordered(up') /\ \A b \in ToSet(up') : Precedes(Head(up), b)
  BY <1>1, OrderedTail DEF ReportInv
<1>4. \A a \in ToSet(statusCh) : Precedes(a, Head(up))
  BY <1>1 DEF ReportInv
<1>5. Ordered(statusCh')
  <2>1. CASE statusCh' = statusCh
    BY <2>1 DEF ReportInv
  <2>2. CASE statusCh' = Append(statusCh, Head(up))
    BY <1>1, <1>4, <2>2, OrderedAppend DEF ReportInv
  <2> QED
    BY <1>1, <2>1, <2>2
<1>6. \A a \in ToSet(statusCh'), b \in ToSet(up') : Precedes(a, b)
  BY <1>1, <1>3 DEF ReportInv
<1> QED
  BY <1>1, <1>2, <1>3, <1>5, <1>6 DEF ReportInv, OnGrid

\* The reports on their way stay true when the terminal moves on.
Stays ==
  /\ Takes /\ terminal.written <= terminal'.written
  /\ \A r \in Heard : /\ r.status \in OfBadChunk => terminal'.state = "failed"
                      /\ r.status \in OfFinish => terminal'.state # "receiving"
                      /\ r.status = "done" => terminal'.state = "done"

\* A report that the terminal adds is true, and comes after the others.
Adds(status, n) ==
  /\ status \in OfBegin => offset = 0 /\ phase \in {"starting", "failed"}
  /\ status = "chunk" => acked < n /\ n <= terminal'.written /\ OnGrid(n)
  /\ status \in OfBadChunk =>
       acked <= n /\ n < offset /\ OnGrid(n) /\ terminal'.state = "failed"
  /\ status \in OfFinish => acked = Size /\ terminal'.state # "receiving"
  /\ status = "done" => terminal'.state = "done"
  /\ \A a \in Heard : /\ a.status = "chunk" /\ status \in {"chunk"} \cup OfBadChunk
                      /\ a.written <= n /\ (status = "chunk" => a.written < n)

LEMMA ReportTrue ==
  ASSUME TypeOK, ReportInv, Stays, NEW r \in Heard
  PROVE  /\ r.status \in OfBegin => offset' = 0 /\ phase' \in {"starting", "failed"}
         /\ r.status = "chunk" =>
              acked' < r.written /\ r.written <= terminal'.written /\ OnGrid(r.written)
         /\ r.status \in OfBadChunk =>
              /\ acked' <= r.written /\ r.written < offset' /\ OnGrid(r.written)
              /\ terminal'.state = "failed"
         /\ r.status \in OfFinish => acked' = Size /\ terminal'.state # "receiving"
         /\ r.status = "done" => terminal'.state = "done"
<1>1. UNCHANGED <<offset, acked, phase>> /\ terminal.written <= terminal'.written
  BY DEF Stays, Takes, uploadVars
<1>2. PICK n \in 0..Size : n = r.written
  BY ReportTypes
<1>3. terminal.written \in 0..Size /\ terminal'.written \in 0..Size /\ Size \in Nat
  BY TerminalTypes, FileFacts DEF Stays, Takes
<1>4. n <= terminal.written => n <= terminal'.written
  BY <1>1, <1>3
<1> QED
  BY <1>1, <1>2, <1>4 DEF ReportInv, Stays

LEMMA ReportStays ==
  ASSUME TypeOK, ReportInv, Stays, up' = up
  PROVE  ReportInv'
<1>1. UNCHANGED <<file, statusCh>> /\ Heard' = Heard
  BY DEF Stays, Takes, uploadVars, Heard
<1> QED
  BY <1>1, ReportTrue DEF ReportInv, OnGrid

LEMMA ReportAdds ==
  ASSUME TypeOK, ReportInv, Stays, NEW status, NEW n \in 0..Size, Reported(status, n), Adds(status, n)
  PROVE  ReportInv'
<1>1. CASE up' = up
  BY <1>1, ReportStays
<1>2. CASE \E r \in Reports : up' = Append(up, r) /\ r.status = status /\ r.written = n
  <2>1. PICK e \in Reports : up' = Append(up, e) /\ e.status = status /\ e.written = n
    BY <1>2
  <2>2. up \in Seq(Reports) /\ UNCHANGED <<file, offset, acked, phase, statusCh>>
    BY DEF Stays, Takes, uploadVars, TypeOK
  <2>3. ToSet(up') = ToSet(up) \cup {e}
    BY <2>1, <2>2, AppendFacts
  <2>4. Heard' = Heard \cup {e}
    BY <2>2, <2>3 DEF Heard
  <2>5. \A a \in Heard : Precedes(a, e)
    BY <2>1 DEF Adds, Precedes
  <2>6. Ordered(up')
    <3>1. Ordered(up) /\ \A a \in ToSet(up) : Precedes(a, e)
      BY <2>5 DEF ReportInv, Heard
    <3> QED
      BY <2>1, <2>2, <3>1, OrderedAppend
  <2>7. \A a \in ToSet(statusCh'), b \in ToSet(up') : Precedes(a, b)
    BY <2>2, <2>3, <2>5 DEF ReportInv, Heard
  <2>8. /\ e.status \in OfBegin => offset' = 0 /\ phase' \in {"starting", "failed"}
        /\ e.status = "chunk" =>
             acked' < e.written /\ e.written <= terminal'.written /\ OnGrid(e.written)
        /\ e.status \in OfBadChunk =>
             /\ acked' <= e.written /\ e.written < offset' /\ OnGrid(e.written)
             /\ terminal'.state = "failed"
        /\ e.status \in OfFinish => acked' = Size /\ terminal'.state # "receiving"
        /\ e.status = "done" => terminal'.state = "done"
    BY <2>1, <2>2 DEF Adds
  <2>9. ASSUME NEW r \in Heard'
        PROVE  /\ r.status \in OfBegin => offset' = 0 /\ phase' \in {"starting", "failed"}
               /\ r.status = "chunk" =>
                    acked' < r.written /\ r.written <= terminal'.written /\ OnGrid(r.written)
               /\ r.status \in OfBadChunk =>
                    /\ acked' <= r.written /\ r.written < offset' /\ OnGrid(r.written)
                    /\ terminal'.state = "failed"
               /\ r.status \in OfFinish => acked' = Size /\ terminal'.state # "receiving"
               /\ r.status = "done" => terminal'.state = "done"
    BY <2>4, <2>8, ReportTrue
  <2> QED
    BY <2>2, <2>6, <2>7, <2>9 DEF ReportInv, OnGrid
<1> QED
  BY <1>1, <1>2 DEF Reported

\* While the terminal receives, the reports on their way are of chunks, or of ota_begin.
LEMMA WhileReceiving ==
  ASSUME TypeOK, UploadInv, ReportInv, terminal.state = "receiving", NEW r \in Heard
  PROVE  /\ r.status \in {"chunk"} \cup OfBegin
         /\ r.status = "chunk" => acked < r.written /\ r.written <= terminal.written
<1>1. r.status \notin OfBadChunk /\ r.status \notin OfFinish
  BY DEF ReportInv
<1>2. r \in Reports
  BY ReportTypes
<1>3. r.status \in {"chunk"} \cup OfBegin \cup OfBadChunk \cup OfFinish
  BY <1>2 DEF Reports, OfBegin, OfBadChunk, OfFinish
<1> QED
  BY <1>1, <1>3 DEF ReportInv

\* A chunk comes after the reports of ota_begin were taken.
LEMMA WhileWriting ==
  ASSUME TypeOK, UploadInv, DownInv, ReportInv, terminal.state = "receiving",
         down # <<>>, Head(down).type = "chunk"
  PROVE  /\ \A r \in Heard : r.status = "chunk" /\ r.written <= terminal.written
         /\ terminal.written < offset
<1>1. Head(down) = down[1] /\ 1 \in DOMAIN down
  BY DownFacts
<1>2. /\ down[1].from \in Nat /\ down[1].length \in Nat \ {0}
      /\ terminal.written <= down[1].from /\ down[1].from + down[1].length <= offset
  BY <1>1, ChunkOnItsWay
<1>3. PICK f \in Nat, n \in Nat \ {0} : f = down[1].from /\ n = down[1].length
  BY <1>2
<1>4. terminal.written < offset /\ offset # 0
  BY <1>2, <1>3, Offsets
<1>5. \A r \in Heard : r.status \notin OfBegin
  BY <1>4 DEF ReportInv
<1> QED
  BY <1>4, <1>5, WhileReceiving

LEMMA ReportTerminal ==
  ASSUME TypeOK, UploadInv, DownInv, ReportInv,
         Opens \/ (\E n \in 0..Size : Writes(n)) \/ Rejects \/ Closes \/ Ignores
  PROVE  ReportInv'
<1>0. PICK w \in 0..Size : w = terminal.written /\ acked <= w /\ OnGrid(w) /\ w <= w
  BY Offsets DEF UploadInv
<1>1. CASE Opens
  <2>1. PICK state \in {"receiving", "failed"}, status \in OfBegin : Took("begin", state, 0, status)
    BY <1>1 DEF Opens
  <2>2. Takes /\ Head(down).type = "begin" /\ terminal'.written = 0 /\ Reported(status, 0)
    BY <2>1 DEF Took
  <2>3. Head(down) = down[1] /\ 1 \in DOMAIN down
    BY <2>2, DownFacts DEF Takes
  <2>4. offset = 0 /\ phase \in {"starting", "failed"} /\ Heard = {}
    BY <2>2, <2>3 DEF DownInv
  <2>5. terminal.written <= terminal'.written
    BY <2>2, <2>4, NothingPending
  <2>6. Stays
    BY <2>2, <2>4, <2>5 DEF Stays
  <2>7. Adds(status, 0)
    BY <2>4 DEF Adds, OfBegin, OfBadChunk, OfFinish
  <2>8. 0 \in 0..Size
    BY Offsets
  <2> QED
    BY <2>2, <2>6, <2>7, <2>8, ReportAdds
<1>2. CASE \E n \in 0..Size : Writes(n)
  <2>1. PICK n \in 0..Size : Writes(n)
    BY <1>2
  <2>2. /\ Takes /\ Head(down).type = "chunk" /\ down # <<>> /\ Reported("chunk", n)
        /\ terminal.state = "receiving" /\ terminal'.written = n
    BY <2>1 DEF Writes, Took, Takes
  <2>3. \A r \in Heard : r.status = "chunk" /\ r.written <= terminal.written /\ r.written \in 0..Size
    BY <2>2, WhileWriting, ReportTypes
  <2>4. n > terminal.written /\ OnGrid(n)
    <3>1. UploadInv' /\ n > terminal.written
      BY <2>1, UploadWrites
    <3> QED
      BY <2>2, <3>1 DEF UploadInv, OnGrid, Takes, uploadVars
  <2>5. w < n /\ acked < n
    BY <1>0, <2>4, Offsets
  <2>6. \A r \in Heard : r.written <= n /\ r.written < n
    <3> SUFFICES ASSUME NEW r \in Heard PROVE r.written <= n /\ r.written < n
      OBVIOUS
    <3>1. PICK x \in 0..Size : x = r.written /\ x <= w
      BY <1>0, <2>3
    <3> QED
      BY <2>5, <3>1, FileFacts
  <2>7. terminal.written <= terminal'.written /\ n <= terminal'.written
    BY <1>0, <2>2, <2>5
  <2>8. Stays
    BY <2>2, <2>3, <2>7 DEF Stays, OfBadChunk, OfFinish
  <2>9. Adds("chunk", n)
    BY <2>3, <2>4, <2>5, <2>6, <2>7 DEF Adds, OfBegin, OfBadChunk, OfFinish
  <2> QED
    BY <2>2, <2>8, <2>9, ReportAdds
<1>3. CASE Rejects
  <2>1. PICK status \in OfBadChunk : Took("chunk", "failed", terminal.written, status)
    BY <1>3 DEF Rejects
  <2>2. /\ Takes /\ Head(down).type = "chunk" /\ down # <<>> /\ Reported(status, w)
        /\ terminal.state = "receiving" /\ terminal'.written = w /\ terminal'.state = "failed"
    BY <1>0, <1>3, <2>1 DEF Rejects, Took, Takes
  <2>3. (\A r \in Heard : r.status = "chunk" /\ r.written <= w) /\ w < offset
    BY <1>0, <2>2, WhileWriting
  <2>4. Stays
    BY <1>0, <2>2, <2>3 DEF Stays, OfBadChunk, OfFinish
  <2>5. Adds(status, w)
    BY <1>0, <2>2, <2>3 DEF Adds, OfBegin, OfBadChunk, OfFinish
  <2> QED
    BY <2>2, <2>4, <2>5, ReportAdds
<1>4. CASE Closes
  <2>1. PICK state \in {"done", "failed"}, status \in OfFinish :
          /\ Took("finish", state, terminal.written, status)
          /\ status = "done" => state = "done"
    BY <1>4 DEF Closes
  <2>2. /\ Takes /\ Head(down).type = "finish" /\ Reported(status, w)
        /\ terminal.state = "receiving" /\ terminal'.written = w /\ terminal'.state = state
    BY <1>0, <1>4, <2>1 DEF Closes, Took
  <2>3. Head(down) = down[1] /\ 1 \in DOMAIN down
    BY <2>2, DownFacts DEF Takes
  <2>4. acked = Size /\ offset # 0
    BY <2>2, <2>3, Offsets DEF DownInv
  <2>5. Heard = {}
    <3> SUFFICES ASSUME NEW r \in Heard PROVE FALSE
      OBVIOUS
    <3>1. r.status # "chunk"
      <4> SUFFICES ASSUME r.status = "chunk" PROVE FALSE
        OBVIOUS
      <4>1. PICK x \in 0..Size : x = r.written
        BY ReportTypes
      <4>2. acked < x
        BY <2>2, <4>1, WhileReceiving
      <4> QED
        BY <2>4, <4>1, <4>2, Offsets
    <3>2. r.status \notin OfBegin
      BY <2>4 DEF ReportInv
    <3> QED
      BY <2>2, <3>1, <3>2, WhileReceiving
  <2>6. Stays
    BY <1>0, <2>2, <2>5 DEF Stays
  <2>7. Adds(status, w)
    BY <2>1, <2>2, <2>4, <2>5 DEF Adds, OfBegin, OfBadChunk, OfFinish
  <2> QED
    BY <2>2, <2>6, <2>7, ReportAdds
<1>5. CASE Ignores
  <2>1. /\ Takes /\ up' = up /\ terminal'.written = terminal.written
        /\ \/ terminal'.state = terminal.state
           \/ terminal.state = "receiving" /\ terminal'.state = "idle"
    BY <1>5 DEF Ignores
  <2>2. \A r \in Heard : /\ r.status \in OfBadChunk => terminal.state = "failed"
                         /\ r.status \in OfFinish => terminal.state # "receiving"
                         /\ r.status = "done" => terminal.state = "done"
    BY DEF ReportInv
  <2>3. Stays
    BY <1>0, <2>1, <2>2 DEF Stays
  <2> QED
    BY <2>1, <2>3, ReportStays
<1> QED
  BY <1>1, <1>2, <1>3, <1>4, <1>5

LEMMA ReportStep ==
  ASSUME TypeOK, UploadInv, DownInv, ReportInv, TypeOK', [Next]_vars
  PROVE  ReportInv'
<1>1. CASE UNCHANGED vars
  BY <1>1 DEF ReportInv, OnGrid, Heard, vars, uploadVars, netVars
<1> QED
  BY <1>1, Steps, ReportMobctl, ReportTerminal, ReportCallback

-----------------------------------------------------------------------------
(* The end of the session. *)

Ending(i) == i \in DOMAIN down /\ down[i].type \in {"abort", "finish"}

\* What was on its way still is, and what is sent now is too.
LEMMA EndingSent ==
  ASSUME TypeOK, NEW m \in Messages, down' = Append(down, m), m.type \in {"abort", "finish"}
  PROVE  \E i \in DOMAIN down' : down'[i].type \in {"abort", "finish"}
<1>1. down \in Seq(Messages)
  BY DEF TypeOK
<1>2. Len(down) + 1 \in DOMAIN down' /\ down'[Len(down) + 1] = m
  BY <1>1, AppendFacts
<1> QED
  BY <1>2

\* The terminal leaves its session when it takes such a message.
LEMMA EndingLeft ==
  ASSUME TypeOK, Takes, NEW i, Ending(i), Head(down).type \notin {"abort", "finish"}
  PROVE  \E k \in DOMAIN down' : down'[k].type \in {"abort", "finish"}
<1>1. down \in Seq(Messages) /\ down # <<>> /\ down' = Tail(down)
  BY DEF TypeOK, Takes
<1>2. DOMAIN down = 1..Len(down) /\ Len(down) \in Nat /\ Head(down) = down[1]
      /\ DOMAIN down' = 1..Len(down) - 1 /\ \A k \in 1..Len(down) - 1 : down'[k] = down[k + 1]
  BY <1>1
<1>3. i \in 1..Len(down) /\ i # 1
  BY <1>2 DEF Ending
<1>4. i - 1 \in DOMAIN down' /\ down'[i - 1] = down[i]
  BY <1>2, <1>3
<1> QED
  BY <1>4 DEF Ending

LEMMA SessionStep ==
  ASSUME TypeOK, UploadInv, DownInv, ReportInv, SessionInv, TypeOK', [Next]_vars
  PROVE  SessionInv'
<1> SUFFICES ASSUME troubles' = 0, phase' \in {"finishing", "ok", "failed"}, offset' > 0,
                    terminal'.state = "receiving"
             PROVE  \E i \in DOMAIN down' : down'[i].type \in {"abort", "finish"}
  BY DEF SessionInv
<1>0. troubles \in Nat /\ troubles' \in Nat
  BY OtaAssumption DEF TypeOK, OtaAssumption
<1>1. CASE Begins \/ (\E n \in Nat : SendsChunk(n)) \/ ReadEOF \/ TakeStarted \/ (\E n \in 0..Size : Acks(n))
  BY <1>1 DEF Begins, SendsChunk, ReadEOF, TakeStarted, Acks, LoopHead
<1>2. CASE Finishes
  <2>1. down' = Append(down, Control("finish"))
    BY <1>0, <1>2 DEF Finishes, Sends
  <2>2. Control("finish") \in Messages /\ Control("finish").type = "finish"
    BY ControlTypes
  <2> QED
    BY <2>1, <2>2, EndingSent
<1>3. CASE Ends
  <2>1. troubles' = troubles /\ troubles = 0 /\ UNCHANGED <<offset, terminal>>
    BY <1>0, <1>3 DEF Ends, uploadVars
  <2>2. CASE phase \in {"waiting", "uploaded"} /\ down' = Append(down, Control("abort"))
    <3>1. Control("abort") \in Messages /\ Control("abort").type = "abort"
      BY ControlTypes
    <3> QED
      BY <2>2, <3>1, EndingSent
  <2>3. CASE phase = "starting"
    <3>1. offset = 0
      BY <2>3 DEF UploadInv
    <3> QED
      BY <2>1, <3>1
  <2>4. CASE phase = "finishing"
    <3>1. PICK i \in DOMAIN down : down[i].type \in {"abort", "finish"}
      BY <2>1, <2>4 DEF SessionInv
    <3>2. CASE down' = down
      BY <3>1, <3>2
    <3>3. CASE down' = Append(down, Control("abort"))
      <4>1. Control("abort") \in Messages /\ Control("abort").type = "abort"
        BY ControlTypes
      <4> QED
        BY <3>3, <4>1, EndingSent
    <3> QED
      BY <1>3, <3>2, <3>3 DEF Ends
  <2> QED
    BY <1>3, <2>1, <2>2, <2>3, <2>4 DEF Ends
<1>4. CASE TakeDone
  <2>1. UNCHANGED <<offset, down, terminal, troubles>> /\ phase = "finishing"
    BY <1>4 DEF TakeDone, uploadVars, netVars
  <2> QED
    BY <2>1 DEF SessionInv
<1>5. CASE Opens \/ (\E n \in 0..Size : Writes(n)) \/ Rejects \/ Closes \/ Ignores
  <2>1. Takes
    BY <1>5 DEF Opens, Writes, Rejects, Closes, Ignores, Took
  <2>2. troubles = 0 /\ UNCHANGED <<offset, phase>>
    BY <1>0, <2>1 DEF Takes, uploadVars
  <2>3. CASE Head(down).type = "begin"
    <3>1. Head(down) = down[1] /\ 1 \in DOMAIN down
      BY <2>1, DownFacts DEF Takes
    <3>2. offset = 0
      BY <2>3, <3>1 DEF DownInv
    <3> QED
      BY <2>2, <3>2
  <2>4. CASE \E n \in 0..Size : Writes(n)
    <3>1. terminal.state = "receiving" /\ Head(down).type = "chunk"
      BY <2>4 DEF Writes, Took
    <3>2. PICK i : Ending(i)
      BY <2>2, <3>1 DEF SessionInv, Ending
    <3> QED
      BY <2>1, <3>1, <3>2, EndingLeft
  <2>5. CASE Rejects \/ Closes
    BY <2>5 DEF Rejects, Closes, Took
  <2> QED
    BY <1>5, <2>3, <2>4, <2>5 DEF Opens, Ignores, Took
<1>6. CASE Callback
  <2>1. UNCHANGED <<phase, offset, down, terminal, troubles>>
    BY <1>6, CallbackEffect DEF uploadVars
  <2> QED
    BY <2>1 DEF SessionInv
<1>7. CASE UNCHANGED vars
  BY <1>7 DEF SessionInv, vars, uploadVars, netVars
<1> QED
  BY <1>1, <1>2, <1>3, <1>4, <1>5, <1>6, <1>7, Steps

-----------------------------------------------------------------------------
(* No more reports than pending chunks. *)

\* The reports on their way, in the order in which they were sent.
LEMMA InOneQueue ==
  ASSUME TypeOK, ReportInv
  PROVE  \E q \in Seq(Reports) : /\ Len(q) = Len(up) + Len(statusCh) /\ Ordered(q)
                                 /\ \A i \in DOMAIN q : q[i] \in Heard
<1>1. PICK q : q = statusCh \o up
  OBVIOUS
<1>2. statusCh \in Seq(Reports) /\ up \in Seq(Reports)
  BY DEF TypeOK
<1>3. PICK n \in Nat, m \in Nat : n = Len(statusCh) /\ m = Len(up)
  BY <1>2
<1>4. DOMAIN statusCh = 1..n /\ DOMAIN up = 1..m
  BY <1>2, <1>3
<1>5. q \in Seq(Reports) /\ Len(q) = n + m /\ DOMAIN q = 1..n + m
  BY <1>1, <1>2, <1>3
<1>6. \A i \in 1..n : q[i] = statusCh[i] /\ q[i] \in ToSet(statusCh)
  <2>1. \A i \in 1..n : q[i] = statusCh[i]
    BY <1>1, <1>2, <1>3
  <2>2. \A i \in 1..n : statusCh[i] \in ToSet(statusCh)
    BY <1>4 DEF ToSet
  <2> QED
    BY <2>1, <2>2
<1>7. \A i \in 1..n + m : i > n => i - n \in 1..m /\ q[i] = up[i - n]
  BY <1>1, <1>2, <1>3
<1>8. \A i \in 1..n + m : i > n => q[i] \in ToSet(up)
  BY <1>4, <1>7 DEF ToSet
<1>9. \A i \in DOMAIN q : q[i] \in Heard
  <2> SUFFICES ASSUME NEW i \in 1..n + m PROVE q[i] \in Heard
    BY <1>5
  <2>1. i \in 1..n \/ i > n
    OBVIOUS
  <2> QED
    BY <1>6, <1>8, <2>1 DEF Heard
<1>10. Ordered(q)
  <2> SUFFICES ASSUME NEW i \in 1..n + m, NEW k \in 1..n + m, i < k PROVE Precedes(q[i], q[k])
    BY <1>5 DEF Ordered
  <2>1. CASE k <= n
    <3>1. i \in 1..n /\ k \in 1..n
      BY <2>1
    <3>2. Precedes(statusCh[i], statusCh[k])
      BY <1>4, <3>1 DEF ReportInv, Ordered
    <3> QED
      BY <1>6, <3>1, <3>2
  <2>2. CASE i > n
    <3>1. i - n \in 1..m /\ k - n \in 1..m /\ i - n < k - n /\ k > n
      BY <2>2
    <3>2. Precedes(up[i - n], up[k - n])
      BY <1>4, <3>1 DEF ReportInv, Ordered
    <3>3. q[i] = up[i - n] /\ q[k] = up[k - n]
      BY <1>7, <2>2, <3>1
    <3> QED
      BY <3>2, <3>3
  <2>3. CASE i <= n /\ k > n
    <3>1. i \in 1..n
      BY <2>3
    <3> QED
      BY <1>6, <1>8, <2>3, <3>1 DEF ReportInv
  <2> QED
    BY <2>1, <2>2, <2>3
<1>11. Len(q) = Len(up) + Len(statusCh)
  BY <1>3, <1>5
<1> QED
  BY <1>5, <1>9, <1>10, <1>11

\* Which of the pending chunks a report is of; the others come alone.
Place(r) ==
  IF r.status = "chunk" THEN Chunk(r.written) - Chunk(acked)
  ELSE IF r.status \in OfBadChunk THEN Chunk(r.written) + 1 - Chunk(acked)
  ELSE 1

LEMMA PlaceOfReport ==
  ASSUME TypeOK, UploadInv, ReportInv, NEW r \in Heard
  PROVE  /\ Place(r) \in 1..Window
         /\ r.status \in {"chunk"} \cup OfBadChunk => Place(r) \in 1..pending
<1>1. PICK n \in 0..Size, w \in 0..Size : n = r.written /\ w = terminal.written
  BY ReportTypes, Offsets
<1>2. pending = Chunk(offset - acked) /\ OnGrid(acked) /\ acked <= offset
  BY Offsets DEF UploadInv
<1>3. Chunk(offset - acked) = Chunk(offset) - Chunk(acked)
  BY <1>2, Offsets, ChunksBetween
<1>4. PICK a \in Nat, b \in Nat, c \in Nat : a = Chunk(acked) /\ b = Chunk(offset) /\ c = Chunk(n)
  BY Offsets, ChunkFacts
<1>5. pending = b - a /\ pending <= Window
  BY <1>2, <1>3, <1>4, Offsets
<1>6. CASE r.status = "chunk"
  <2>1. acked < n /\ n <= w
    BY <1>1, <1>6 DEF ReportInv
  <2>2. n <= offset
    BY <1>1, <2>1, Offsets
  <2>3. c <= b
    BY <1>4, <2>2, ChunkMonotone, Offsets
  <2>4. a < c
    <3>1. n <= file /\ acked <= n
      BY <2>1, <2>2, Offsets
    <3>2. Chunk(acked) < Chunk(n)
      BY <1>2, <2>1, <3>1, ChunksBetween, Offsets
    <3> QED
      BY <1>4, <3>2
  <2>5. Place(r) = c - a
    BY <1>1, <1>4, <1>6 DEF Place
  <2>6. c - a \in 1..pending /\ c - a \in 1..Window
    BY <1>5, <2>3, <2>4, Offsets
  <2> QED
    BY <2>5, <2>6
<1>7. CASE r.status \in OfBadChunk
  <2>1. acked <= n /\ n < offset /\ OnGrid(n)
    BY <1>1, <1>7 DEF ReportInv
  <2>2. a <= c
    <3>1. Chunk(acked) <= Chunk(n)
      BY <2>1, ChunkMonotone, Offsets
    <3> QED
      BY <1>4, <3>1
  <2>3. c < b
    <3>1. Chunk(n) < Chunk(offset)
      BY <2>1, ChunksBetween, Offsets
    <3> QED
      BY <1>4, <3>1
  <2>4. Place(r) = c + 1 - a
    BY <1>1, <1>4, <1>7 DEF Place, OfBadChunk
  <2>5. c + 1 - a \in 1..pending /\ c + 1 - a \in 1..Window
    BY <1>5, <2>2, <2>3, Offsets
  <2> QED
    BY <2>4, <2>5
<1>8. CASE r.status \notin {"chunk"} \cup OfBadChunk
  <2>1. Place(r) = 1
    BY <1>8 DEF Place
  <2>2. 1 \in 1..Window
    BY Offsets
  <2> QED
    BY <1>8, <2>1, <2>2
<1> QED
  BY <1>6, <1>7, <1>8

LEMMA OtherPlace ==
  ASSUME TypeOK, UploadInv, ReportInv, NEW r \in Heard, NEW s \in Heard, Precedes(r, s)
  PROVE  Place(r) # Place(s)
<1>1. PICK n \in 0..Size, m \in 0..Size : n = r.written /\ m = s.written
  BY ReportTypes
<1>2. /\ r.status = "chunk" /\ s.status \in {"chunk"} \cup OfBadChunk /\ n <= m
      /\ s.status = "chunk" => n < m
  BY <1>1 DEF Precedes
<1>3. PICK a \in Nat, b \in Nat, c \in Nat : a = Chunk(acked) /\ b = Chunk(n) /\ c = Chunk(m)
  BY Offsets, ChunkFacts
<1>4. Place(r) = b - a
  BY <1>1, <1>2, <1>3 DEF Place
<1>5. CASE s.status = "chunk"
  <2>1. n < m /\ OnGrid(n) /\ s.written <= terminal.written
    BY <1>1, <1>2, <1>5 DEF ReportInv
  <2>2. m <= file
    <3>1. PICK w \in 0..Size : w = terminal.written /\ m <= w
      BY <1>1, <2>1, Offsets
    <3> QED
      BY <3>1, Offsets
  <2>3. Chunk(n) < Chunk(m)
    BY <1>2, <2>1, <2>2, ChunksBetween
  <2>4. Place(s) = c - a
    BY <1>1, <1>3, <1>5 DEF Place
  <2> QED
    BY <1>3, <1>4, <2>3, <2>4
<1>6. CASE s.status \in OfBadChunk
  <2>1. Chunk(n) <= Chunk(m)
    BY <1>2, ChunkMonotone
  <2>2. Place(s) = c + 1 - a
    BY <1>1, <1>3, <1>6 DEF Place, OfBadChunk
  <2> QED
    BY <1>3, <1>4, <2>1, <2>2
<1> QED
  BY <1>2, <1>5, <1>6

LEMMA ReportsFit ==
  ASSUME TypeOK, UploadInv, ReportInv
  PROVE  Len(up) + Len(statusCh) <= Window
<1>1. PICK q \in Seq(Reports) : /\ Len(q) = Len(up) + Len(statusCh) /\ Ordered(q)
                                /\ \A i \in DOMAIN q : q[i] \in Heard
  BY InOneQueue
<1>2. DOMAIN q = 1..Len(q) /\ Len(q) \in Nat
  OBVIOUS
<1> DEFINE f == [i \in 1..Len(q) |-> Place(q[i])]
<1>3. f \in [1..Len(q) -> 1..Window]
  BY <1>1, <1>2, PlaceOfReport
<1>4. \A i, k \in 1..Len(q) : i < k => f[i] # f[k]
  <2> SUFFICES ASSUME NEW i \in 1..Len(q), NEW k \in 1..Len(q), i < k PROVE Place(q[i]) # Place(q[k])
    OBVIOUS
  <2>1. Precedes(q[i], q[k])
    BY <1>1, <1>2 DEF Ordered
  <2> QED
    BY <1>1, <1>2, <2>1, OtherPlace
<1>5. f \in Injection(1..Len(q), 1..Window)
  <2>1. \A i, k \in 1..Len(q) : f[i] = f[k] => i = k
    <3> HIDE DEF f
    <3> QED
      BY <1>2, <1>4
  <2> HIDE DEF f
  <2> QED
    BY <1>3, <2>1 DEF Injection, IsInjective
<1> HIDE DEF f
<1>6. IsFiniteSet(1..Window) /\ Cardinality(1..Window) = Window
  <2>1. Window \in Nat \ {0}
    BY Offsets
  <2> QED
    BY <2>1, FS_Interval
<1>7. Cardinality(1..Len(q)) <= Window
  BY <1>5, <1>6, FS_Injection
<1>8. Cardinality(1..Len(q)) = Len(q)
  BY <1>2, FS_Interval
<1> QED
  BY <1>1, <1>7, <1>8

-----------------------------------------------------------------------------
(* Lost reports are counted. *)

LEMMA OneMoreChunk ==
  ASSUME NEW x \in Nat, NEW y \in Nat, y <= x + ChunkSize
  PROVE  Chunk(y) <= Chunk(x) + 1
<1>1. ChunkSize \in Nat
  BY OtaAssumption DEF OtaAssumption
<1>2. PICK a \in Nat : a = Chunk(x) /\ x <= ChunkSize * a
  BY ChunkFacts
<1>3. PICK b \in Nat : b = Chunk(y) /\ ChunkSize * b < y + ChunkSize
  BY ChunkFacts
<1>4. ChunkSize * (a + 1) = ChunkSize * a + ChunkSize /\ ChunkSize * a \in Nat /\ a + 1 \in Nat
  BY <1>1
<1>5. CASE b > a + 1
  <2>1. ChunkSize * b >= ChunkSize * (a + 1) + ChunkSize /\ ChunkSize * b \in Nat
    BY <1>1, <1>4, <1>5, NextMultiple
  <2> QED
    BY <1>1, <1>2, <1>3, <1>4, <2>1
<1> QED
  BY <1>2, <1>3, <1>5

\* The numbers that are compared.
LEMMA LossTypes ==
  ASSUME TypeOK
  PROVE  /\ Chunk(terminal.written) \in Nat /\ Chunk(acked) \in Nat /\ troubles \in Nat
         /\ Len(up) \in Nat /\ Len(statusCh) \in Nat
<1>1. terminal.written \in Nat /\ acked \in Nat
  BY TerminalTypes, FileFacts DEF TypeOK
<1>2. troubles \in Nat
  BY OtaAssumption DEF TypeOK, OtaAssumption
<1>3. Len(up) \in Nat /\ Len(statusCh) \in Nat
  BY DEF TypeOK
<1> QED
  BY <1>1, <1>2, <1>3, ChunkFacts

\* An acknowledgement of a whole upload is the last report.
LEMMA LastReport ==
  ASSUME TypeOK, UploadInv, ReportInv, statusCh # <<>>,
         Head(statusCh).status = "chunk", Head(statusCh).written = file
  PROVE  Len(up) + Len(statusCh) = 1
<1>1. PICK h \in Reports : h = Head(statusCh) /\ h \in Heard /\ h \in ToSet(statusCh)
  BY HeadFacts
<1>2. ASSUME NEW r \in Heard, Precedes(h, r) PROVE FALSE
  <2>1. PICK n \in 0..Size : n = r.written
    BY ReportTypes
  <2>2. /\ r.status \in {"chunk"} \cup OfBadChunk /\ file <= n
        /\ r.status = "chunk" => file < n
    BY <1>1, <1>2, <2>1 DEF Precedes
  <2>3. r.status = "chunk" => n <= terminal.written
    BY <2>1 DEF ReportInv
  <2>4. r.status \in OfBadChunk => n < offset
    BY <2>1 DEF ReportInv
  <2>5. PICK w \in 0..Size : w = terminal.written /\ w <= offset
    BY Offsets
  <2>6. CASE r.status = "chunk"
    BY <2>2, <2>3, <2>5, <2>6, Offsets
  <2>7. CASE r.status \in OfBadChunk
    BY <2>2, <2>4, <2>7, Offsets
  <2> QED
    BY <2>2, <2>6, <2>7
<1>3. up = <<>>
  <2> SUFFICES ASSUME up # <<>> PROVE FALSE
    OBVIOUS
  <2>1. up \in Seq(Reports)
    BY DEF TypeOK
  <2>2. Head(up) \in ToSet(up)
    BY <2>1, TailFacts
  <2>3. Precedes(h, Head(up)) /\ Head(up) \in Heard
    BY <1>1, <2>2 DEF ReportInv, Heard
  <2> QED
    BY <1>2, <2>3
<1>t. PICK t \in Seq(Reports) :
        /\ t = Tail(statusCh) /\ Len(t) = Len(statusCh) - 1 /\ ToSet(statusCh) = {h} \cup ToSet(t)
  BY <1>1, HeadFacts
<1>4. t = <<>>
  <2> SUFFICES ASSUME t # <<>> PROVE FALSE
    OBVIOUS
  <2>1. Head(t) \in ToSet(t)
    BY TailFacts
  <2>2. statusCh \in Seq(Reports) /\ Ordered(statusCh)
    BY DEF TypeOK, ReportInv
  <2>3. \A b \in ToSet(t) : Precedes(h, b)
    BY <1>1, <1>t, <2>2, OrderedTail
  <2>4. Precedes(h, Head(t)) /\ Head(t) \in Heard
    BY <1>t, <2>1, <2>3 DEF Heard
  <2> QED
    BY <1>2, <2>4
<1>5. Len(statusCh) = 1
  <2>1. Len(statusCh) \in Nat
    BY LossTypes
  <2>2. Len(t) = 0
    BY <1>4
  <2>3. Len(t) = Len(statusCh) - 1
    BY <1>t
  <2> QED
    BY <2>1, <2>2, <2>3
<1>6. Len(up) = 0
  BY <1>3
<1> QED
  BY <1>5, <1>6

LEMMA LossAcks ==
  ASSUME TypeOK, UploadInv, ReportInv, LossInv, TypeOK', NEW n \in 0..Size, Acks(n), Window <= StatusCap
  PROVE  /\ Accounted'
         /\ phase' = "waiting" /\ ~eof' => pending' = Window
         /\ phase' = "sending" /\ acked' = file' /\ file' > 0 => Window <= troubles' + 1
         /\ ~(phase' = "waiting" /\ pending' = 0)
<1>1. /\ phase = "waiting" /\ statusCh # <<>> /\ statusCh' = Tail(statusCh)
      /\ acked < n /\ n <= terminal.written /\ OnGrid(n) /\ acked' = n
      /\ phase' = LoopHead(eof, pending')
      /\ UNCHANGED <<file, offset, eof, down, up, terminal, troubles>>
      /\ Head(statusCh).status = "chunk" /\ Head(statusCh).written = n
  BY DEF Acks, netVars
<1>2. PICK w \in 0..Size : w = terminal.written /\ w <= offset /\ n <= w
  BY <1>1, Offsets
<1>3. OnGrid(acked) /\ pending = Chunk(offset - acked)
  BY DEF UploadInv
<1>4. Accounted /\ (~eof => pending = Window)
  BY <1>1 DEF LossInv
<1>5. PICK a \in Nat, c \in Nat, t \in Nat, l \in Nat, s \in Nat, d \in Nat :
        /\ a = Chunk(acked) /\ c = Chunk(n) /\ t = troubles /\ l = Len(up) /\ s = Len(statusCh)
        /\ d = Chunk(w)
  <2>1. Chunk(acked) \in Nat /\ troubles \in Nat /\ Len(up) \in Nat /\ Len(statusCh) \in Nat
    BY LossTypes
  <2>2. Chunk(n) \in Nat /\ Chunk(w) \in Nat
    <3>1. n \in Nat /\ w \in Nat
      OBVIOUS
    <3> QED
      BY <3>1, ChunkFacts
  <2> QED
    BY <2>1, <2>2
<1>6. d <= a + t + l + s
  BY <1>2, <1>4, <1>5 DEF Accounted
<1>7. Len(statusCh') = s - 1 /\ Len(up') = l /\ troubles' = t
  BY <1>1, <1>5, HeadFacts
<1>8. a < c
  <2>1. n <= file /\ acked <= n
    BY <1>1, <1>2, Offsets
  <2>2. Chunk(acked) < Chunk(n)
    BY <1>1, <1>3, <2>1, ChunksBetween, Offsets
  <2> QED
    BY <1>5, <2>2
<1>9. d <= c + t + l + (s - 1)
  BY <1>6, <1>8
<1>10. Accounted'
  <2>1. terminal' = terminal /\ acked' = n
    BY <1>1
  <2>2. Chunk(terminal'.written) = d /\ Chunk(acked') = c
    BY <1>2, <1>5, <2>1
  <2>3. (Chunk(terminal.written) <= Chunk(acked) + troubles + Len(up) + Len(statusCh))'
    BY <1>7, <1>9, <2>2
  <2> QED
    BY <2>3 DEF Accounted
<1>11. pending' \in 0..Window /\ Window \in Nat \ {0}
  BY Offsets DEF TypeOK
<1>12. phase' = "waiting" /\ ~eof' => pending' = Window
  BY <1>1, <1>11 DEF LoopHead
<1>13. ~(phase' = "waiting" /\ pending' = 0)
  BY <1>1, <1>11 DEF LoopHead
<1>14. ASSUME phase' = "sending", acked' = file' PROVE Window <= troubles' + 1
  <2>1. ~eof
    BY <1>1, <1>14 DEF LoopHead
  <2>2. n = file /\ Head(statusCh).written = file
    BY <1>1, <1>14
  <2>3. w = offset
    BY <1>2, <2>2, Offsets
  <2>4. l + s = 1
    BY <1>1, <1>5, <2>2, LastReport
  <2>5. Chunk(offset - acked) = Chunk(offset) - Chunk(acked)
    BY <1>3, Offsets, ChunksBetween
  <2>6. Window = d - a
    BY <1>3, <1>4, <1>5, <2>1, <2>3, <2>5
  <2>7. Window <= t + 1
    BY <1>6, <1>11, <2>4, <2>6
  <2> QED
    BY <1>7, <2>7
<1> QED
  BY <1>10, <1>12, <1>13, <1>14

\* The terminal's reports, and those that the callback moves.
LEMMA LossTerminal ==
  ASSUME TypeOK, UploadInv, DownInv, LossInv, TypeOK', Window <= StatusCap,
         phase \in {"sending", "waiting"},
         Opens \/ (\E n \in 0..Size : Writes(n)) \/ Rejects \/ Closes \/ Ignores
  PROVE  Accounted'
<1>1. Accounted
  BY DEF LossInv
<1>2. Takes
  BY DEF Opens, Writes, Rejects, Closes, Ignores, Took
<1>3. UNCHANGED <<acked, phase, statusCh>> /\ troubles <= troubles'
  BY <1>2 DEF Takes, uploadVars
<1>4. PICK a \in Nat, t \in Nat, l \in Nat, s \in Nat, d \in Nat :
        /\ a = Chunk(acked) /\ t = troubles /\ l = Len(up) /\ s = Len(statusCh)
        /\ d = Chunk(terminal.written)
  BY LossTypes
<1>5. d <= a + t + l + s
  BY <1>1, <1>4 DEF Accounted
<1>6. troubles' \in Nat /\ t <= troubles'
  BY <1>3, <1>4, OtaAssumption DEF TypeOK, OtaAssumption
<1>7. Chunk(acked') = a /\ Len(statusCh') = s
  BY <1>3, <1>4
<1>8. CASE Opens
  <2>1. Head(down).type = "begin" /\ Head(down) = down[1] /\ 1 \in DOMAIN down
    BY <1>8, DownFacts DEF Opens, Took, Takes
  <2> QED
    BY <2>1 DEF DownInv
<1>9. CASE \E n \in 0..Size : Writes(n)
  <2>1. PICK n \in 0..Size : Writes(n)
    BY <1>9
  <2>2. /\ terminal'.written = n /\ Head(down).type = "chunk" /\ down # <<>>
        /\ n = terminal.written + Head(down).length /\ Reported("chunk", n)
    BY <2>1 DEF Writes, Took, Takes
  <2>3. PICK w \in 0..Size : w = terminal.written
    BY Offsets
  <2>4. Head(down).length \in 1..ChunkSize
    BY <2>2, DownFacts, TerminalTypes
  <2>5. n <= w + ChunkSize
    BY <2>2, <2>3, <2>4, OtaAssumption DEF OtaAssumption
  <2>6. Chunk(n) <= d + 1 /\ Chunk(n) \in Nat
    <3>1. Chunk(n) <= Chunk(w) + 1 /\ Chunk(n) \in Nat
      BY <2>5, OneMoreChunk, ChunkFacts
    <3> QED
      BY <1>4, <2>3, <3>1
  <2>7. \/ Len(up') = l /\ t < troubles'
        \/ Len(up') = l + 1
    <3>1. up \in Seq(Reports)
      BY DEF TypeOK
    <3>2. CASE \E r \in Reports : up' = Append(up, r)
      BY <1>4, <3>1, <3>2, AppendFacts
    <3>3. CASE up' = up /\ troubles < troubles'
      BY <1>4, <3>3
    <3> QED
      BY <2>2, <3>2, <3>3 DEF Reported
  <2>8. Chunk(n) <= a + troubles' + Len(up') + s
    BY <1>5, <1>6, <2>6, <2>7
  <2>9. (Chunk(terminal.written) <= Chunk(acked) + troubles + Len(up) + Len(statusCh))'
    BY <1>7, <2>2, <2>8
  <2> QED
    BY <2>9 DEF Accounted
<1>10. CASE Rejects \/ Closes \/ Ignores
  <2>1. terminal'.written = terminal.written
    BY <1>10 DEF Rejects, Closes, Ignores, Took
  <2>2. Len(up') \in Nat /\ l <= Len(up')
    <3>1. up \in Seq(Reports)
      BY DEF TypeOK
    <3>2. CASE \E r \in Reports : up' = Append(up, r)
      <4>1. Len(up') = l + 1
        BY <1>4, <3>1, <3>2, AppendFacts
      <4> QED
        BY <4>1
    <3>3. CASE up' = up
      BY <1>4, <3>3
    <3> QED
      BY <1>10, <3>2, <3>3 DEF Rejects, Closes, Ignores, Took, Reported
  <2>3. d <= a + troubles' + Len(up') + s
    BY <1>5, <1>6, <2>2
  <2>4. Chunk(terminal'.written) = d
    BY <1>4, <2>1
  <2>5. (Chunk(terminal.written) <= Chunk(acked) + troubles + Len(up) + Len(statusCh))'
    BY <1>7, <2>3, <2>4
  <2> QED
    BY <2>5 DEF Accounted
<1> QED
  BY <1>8, <1>9, <1>10

\* As there are no more reports than the channel holds, none is thrown away.
LEMMA LossCallback ==
  ASSUME TypeOK, UploadInv, ReportInv, Accounted, Callback, Window <= StatusCap
  PROVE  Accounted'
<1>1. PICK a \in Nat, t \in Nat, l \in Nat, s \in Nat, d \in Nat :
        /\ a = Chunk(acked) /\ t = troubles /\ l = Len(up) /\ s = Len(statusCh)
        /\ d = Chunk(terminal.written)
  BY LossTypes
<1>2. d <= a + t + l + s
  BY <1>1 DEF Accounted
<1>3. /\ UNCHANGED <<acked, terminal, troubles>> /\ Len(up') = l - 1
      /\ Len(statusCh) >= StatusCap \/ Len(statusCh') = s + 1
  BY <1>1, CallbackEffect DEF uploadVars
<1>4. up # <<>> /\ l # 0
  BY <1>1 DEF Callback, TypeOK
<1>5. l + s <= Window
  BY <1>1, ReportsFit
<1>6. ~(Len(statusCh) >= StatusCap)
  BY <1>1, <1>4, <1>5, OtaAssumption DEF OtaAssumption
<1>7. d <= a + t + (l - 1) + (s + 1)
  BY <1>2
<1>8. (Chunk(terminal.written) <= Chunk(acked) + troubles + Len(up) + Len(statusCh))'
  BY <1>1, <1>3, <1>6, <1>7
<1> QED
  BY <1>8 DEF Accounted

LEMMA LossStep ==
  ASSUME TypeOK, UploadInv, DownInv, ReportInv, LossInv, TypeOK', [Next]_vars
  PROVE  LossInv'
<1> SUFFICES ASSUME Window <= StatusCap
             PROVE  /\ phase' \in {"sending", "waiting"} => Accounted'
                    /\ phase' = "waiting" /\ ~eof' => pending' = Window
                    /\ phase' = "sending" /\ acked' = file' /\ file' > 0 => Window <= troubles' + 1
                    /\ phase' = "waiting" /\ pending' = 0 /\ file' > 0 => Window <= troubles' + 1
  BY DEF LossInv
<1>0. troubles \in Nat /\ troubles' \in Nat /\ Window \in Nat \ {0} /\ pending \in Nat /\ pending' \in 0..Window
  BY Offsets, OtaAssumption DEF TypeOK, OtaAssumption
<1>1. CASE Begins \/ Finishes \/ Ends \/ TakeDone
  BY <1>1 DEF Begins, Finishes, Ends, TakeDone
<1>2. CASE \E n \in Nat : SendsChunk(n)
  <2>1. PICK n \in Nat : SendsChunk(n)
    BY <1>2
  <2>2. /\ phase = "sending" /\ offset < n /\ n <= file
        /\ pending' = pending + 1 /\ phase' = IF pending' < Window THEN "sending" ELSE "waiting"
        /\ UNCHANGED <<file, acked, eof, statusCh, up, terminal>>
    BY <2>1 DEF SendsChunk
  <2>t. PICK t \in Nat, u \in Nat : t = troubles /\ u = troubles' /\ t <= u
    BY <1>0, <2>1 DEF SendsChunk, Sends
  <2>u. t <= u
    BY <2>t
  <2>3. Accounted'
    <3>1. Accounted
      BY <2>2 DEF LossInv
    <3>2. PICK a \in Nat, l \in Nat, s \in Nat, d \in Nat :
            /\ a = Chunk(acked) /\ l = Len(up) /\ s = Len(statusCh)
            /\ d = Chunk(terminal.written)
      BY LossTypes
    <3>3. d <= a + t + l + s
      BY <2>t, <3>1, <3>2 DEF Accounted
    <3>4. d <= a + u + l + s
      BY <2>u, <3>3
    <3>5. (Chunk(terminal.written) <= Chunk(acked) + troubles + Len(up) + Len(statusCh))'
      BY <2>2, <2>t, <3>2, <3>4
    <3> QED
      BY <3>5 DEF Accounted
  <2>4. acked' # file'
    BY <2>2, Offsets
  <2>5. phase' = "waiting" => pending' = Window
    BY <1>0, <2>2
  <2>6. pending' # 0
    BY <1>0, <2>2
  <2> QED
    BY <2>3, <2>4, <2>5, <2>6
<1>3. CASE ReadEOF
  <2>1. /\ phase = "sending" /\ phase' = "waiting" /\ offset = file /\ eof'
        /\ UNCHANGED <<file, offset, acked, pending, statusCh, up, terminal, troubles>>
    BY <1>3 DEF ReadEOF, netVars
  <2>2. Accounted'
    BY <2>1 DEF LossInv, Accounted
  <2>3. ASSUME pending = 0 PROVE acked = file
    <3>1. PICK x \in Nat : x = offset - acked
      BY Offsets
    <3>2. Chunk(x) = 0
      BY <2>3, <3>1 DEF UploadInv
    <3>3. ChunkSize * 0 = 0
      BY OtaAssumption DEF OtaAssumption
    <3>4. x <= ChunkSize * Chunk(x)
      BY ChunkFacts
    <3>5. x = 0
      BY <3>2, <3>3, <3>4
    <3> QED
      BY <2>1, <3>1, <3>5, Offsets
  <2>4. acked = file /\ file > 0 => Window <= troubles + 1
    BY <2>1 DEF LossInv
  <2> QED
    BY <2>1, <2>2, <2>3, <2>4
<1>4. CASE TakeStarted
  <2>1. /\ UNCHANGED <<file, acked, terminal>> /\ phase = "starting" /\ phase' = "sending"
    BY <1>4 DEF TakeStarted, uploadVars, netVars
  <2>2. offset = 0
    BY <2>1 DEF UploadInv
  <2>3. acked = 0 /\ terminal.written = 0
    BY <2>2, NothingPending
  <2>4. Len(up') \in Nat /\ Len(statusCh') \in Nat
    BY DEF TypeOK
  <2>5. 0 <= 0 + troubles' + Len(up') + Len(statusCh')
    BY <1>0, <2>4
  <2>6. Chunk(terminal'.written) = 0 /\ Chunk(acked') = 0
    BY <2>1, <2>3, NoChunk
  <2>7. (Chunk(terminal.written) <= Chunk(acked) + troubles + Len(up) + Len(statusCh))'
    BY <2>5, <2>6
  <2>8. Accounted'
    BY <2>7 DEF Accounted
  <2>9. ~(acked' = file' /\ file' > 0)
    BY <2>1, <2>3, FileFacts
  <2> QED
    BY <2>1, <2>8, <2>9
<1>5. CASE \E n \in 0..Size : Acks(n)
  BY <1>5, LossAcks
<1>6. CASE Opens \/ (\E n \in 0..Size : Writes(n)) \/ Rejects \/ Closes \/ Ignores
  <2>1. Takes
    BY <1>6 DEF Opens, Writes, Rejects, Closes, Ignores, Took
  <2>2. UNCHANGED <<file, phase, acked, pending, eof>>
    BY <2>1 DEF Takes, uploadVars
  <2>t. PICK t \in Nat, u \in Nat : t = troubles /\ u = troubles' /\ t <= u
    BY <1>0, <2>1 DEF Takes
  <2>u. t <= u
    BY <2>t
  <2>w. Window \in Nat /\ (Window <= t + 1 => Window <= u + 1)
    BY <1>0, <2>u
  <2>3. phase' \in {"sending", "waiting"} => Accounted'
    BY <1>6, <2>2, LossTerminal
  <2>4. Window <= troubles + 1 => Window <= troubles' + 1
    BY <2>t, <2>w
  <2> QED
    BY <2>2, <2>3, <2>4 DEF LossInv
<1>7. CASE Callback
  <2>1. UNCHANGED <<file, phase, acked, pending, eof, troubles>>
    BY <1>7, CallbackEffect DEF uploadVars
  <2>2. phase' \in {"sending", "waiting"} => Accounted'
    BY <1>7, <2>1, LossCallback DEF LossInv
  <2> QED
    BY <2>1, <2>2 DEF LossInv
<1>8. CASE UNCHANGED vars
  BY <1>8 DEF LossInv, Accounted, vars, uploadVars, netVars
<1> QED
  BY <1>1, <1>2, <1>3, <1>4, <1>5, <1>6, <1>7, <1>8, Steps

-----------------------------------------------------------------------------
LEMMA InvHolds == Spec => []IInv
<1>1. Init => IInv
  <2> SUFFICES ASSUME Init PROVE IInv
    OBVIOUS
  <2>1. TypeOK
    <3>1. eof \in BOOLEAN
      BY Zenon DEF Init
    <3>2. file \in Files /\ Files \subseteq 0..Size /\ Window \in Nat \ {0} /\ StatusCap \in Nat \ {0}
          /\ MaxTroubles \in Nat /\ Size \in Nat
      BY OtaAssumption DEF Init, OtaAssumption
    <3> QED
      BY <3>1, <3>2 DEF Init, TypeOK
  <2>2. ToSet(statusCh) = {} /\ ToSet(up) = {} /\ Heard = {}
        /\ DOMAIN statusCh = {} /\ DOMAIN up = {} /\ DOMAIN down = {}
    BY DEF Init, ToSet, Heard
  <2>3. file \in 0..Size /\ Window \in Nat \ {0}
    BY <2>1, FileFacts, OtaAssumption DEF OtaAssumption
  <2>4. ChunkSize * 0 = 0
    BY OtaAssumption DEF OtaAssumption
  <2>5. OnGrid(0)
    BY <2>4, NoChunk DEF OnGrid
  <2>6. UploadInv
    <3>1. offset - acked = 0
      BY DEF Init
    <3>2. pending = Chunk(offset - acked)
      BY <3>1, NoChunk DEF Init
    <3> QED
      BY <2>3, <2>5, <3>2 DEF Init, UploadInv
  <2>7. DownInv
    BY <2>2 DEF Init, DownInv
  <2>8. ReportInv
    BY <2>2 DEF ReportInv, Ordered
  <2>9. SessionInv /\ LossInv
    BY DEF Init, SessionInv, LossInv
  <2> QED
    BY <2>1, <2>6, <2>7, <2>8, <2>9 DEF IInv
<1>2. IInv /\ [Next]_vars => IInv'
  BY TypeStep, UploadStep, DownStep, ReportStep, SessionStep, LossStep DEF IInv
<1> QED
  BY <1>1, <1>2, PTL DEF Spec

\* The variables of uploadOTAChunks, the terminal's state and the messages on their way
\* keep their type; no more than otaWindowSize chunks are pending, and the offsets never
\* leave the announced firmware.
THEOREM TypeCorrect == Spec => []TypeOK
<1>1. IInv => TypeOK
  BY DEF IInv
<1> QED
  BY <1>1, InvHolds, PTL

\* What uploadOTAChunks computes from a report, pendingChunks, is the number of chunks
\* that were sent and not acknowledged, for every firmware and every window; and so the
\* terminal is never more than a window behind, and no more than a window of reports is
\* ever on its way or in statusCh, whatever is lost or comes late.
THEOREM WindowSuffices == Spec => []WindowIsEnough
<1>1. IInv => WindowIsEnough
  <2> SUFFICES ASSUME IInv PROVE WindowIsEnough
    OBVIOUS
  <2>1. TypeOK /\ UploadInv /\ ReportInv
    BY DEF IInv
  <2>2. acked <= terminal.written /\ terminal.written <= offset
    BY <2>1, Offsets
  <2>3. pending = Chunk(offset - acked)
    BY <2>1 DEF UploadInv
  <2>4. pending = (offset - acked + ChunkSize - 1) \div ChunkSize
    BY <2>3 DEF Chunk
  <2>5. offset - terminal.written <= Window * ChunkSize
    <3>1. PICK x \in Nat, y \in Nat : x = offset - acked /\ y = offset - terminal.written /\ y <= x
      BY <2>1, Offsets
    <3>2. PICK p \in Nat : p = pending /\ p <= Window
      BY <2>1, Offsets
    <3>3. x <= ChunkSize * p
      BY <2>3, <3>1, <3>2, ChunkFacts
    <3>4. PICK k \in Nat : k = Window - p
      BY <2>1, <3>2, Offsets
    <3>5. Window = p + k
      BY <2>1, <3>2, <3>4, Offsets
    <3>6. ChunkSize \in Nat
      BY OtaAssumption DEF OtaAssumption
    <3>7. (p + k) * ChunkSize = ChunkSize * p + ChunkSize * k /\ ChunkSize * p \in Nat /\ ChunkSize * k \in Nat
      BY <3>6
    <3>8. Window * ChunkSize = ChunkSize * p + ChunkSize * k
      BY <3>5, <3>7
    <3>9. y <= ChunkSize * p + ChunkSize * k
      BY <3>1, <3>3, <3>7
    <3> QED
      BY <3>1, <3>8, <3>9
  <2>6. Len(up) + Len(statusCh) <= Window
    BY <2>1, ReportsFit
  <2> QED
    BY <2>2, <2>4, <2>5, <2>6 DEF WindowIsEnough
<1> QED
  BY <1>1, InvHolds, PTL

\* ota_finish is published, and success printed, only for a firmware that the terminal
\* has as a whole, also when the file was cut short after its digest was taken; success
\* means that the terminal said "done" and is.
THEOREM SuccessIsInstalled == Spec => []SuccessInstalls
<1>1. IInv => SuccessInstalls
  <2> SUFFICES ASSUME IInv PROVE SuccessInstalls
    OBVIOUS
  <2>1. TypeOK /\ UploadInv
    BY DEF IInv
  <2>2. ASSUME phase \in {"finishing", "ok"} PROVE terminal.written = Size
    <3>1. acked = Size
      BY <2>1, <2>2 DEF UploadInv
    <3>2. PICK w \in 0..Size : w = terminal.written /\ acked <= w
      BY <2>1, Offsets
    <3> QED
      BY <2>1, <3>1, <3>2, Offsets
  <2>3. phase = "ok" => terminal.state = "done"
    BY <2>1 DEF UploadInv
  <2> QED
    BY <2>2, <2>3 DEF SuccessInstalls
<1> QED
  BY <1>1, InvHolds, PTL

\* The ota_abort that uploadOTAChunks' callers send is enough: as long as nothing was
\* lost and nobody interrupted mobctl, the only session that a failed run leaves open
\* is one before the first chunk, whose "started" came too late.
THEOREM OrphansOnlyAtStart == Spec => []OrphanedOnlyAtStart
<1>1. IInv => OrphanedOnlyAtStart
  <2> SUFFICES ASSUME IInv, phase = "failed", terminal.state = "receiving", down = <<>>, troubles = 0,
                      offset # 0
               PROVE  FALSE
    BY DEF OrphanedOnlyAtStart
  <2>1. offset > 0
    BY FileFacts DEF IInv, TypeOK
  <2>2. PICK i \in DOMAIN down : down[i].type \in {"abort", "finish"}
    BY <2>1 DEF IInv, SessionInv
  <2>3. DOMAIN down = {}
    OBVIOUS
  <2> QED
    BY <2>2, <2>3
<1> QED
  BY <1>1, InvHolds, PTL

\* uploadOTAChunks waits with nothing pending, and so in vain, only when the reports of
\* a window of chunks but one were lost, or the file is empty.  The channel must hold a
\* window, as it does in ota.go (128 and 8): otherwise the callback itself loses reports.
THEOREM WaitsOnlyAfterLosses ==
  ASSUME Window <= StatusCap
  PROVE  Spec => []WaitsForNothingOnlyAfterLosses
<1>1. IInv => WaitsForNothingOnlyAfterLosses
  <2> SUFFICES ASSUME IInv, phase = "waiting", pending = 0, file > 0
               PROVE  troubles >= Window - 1
    BY DEF WaitsForNothingOnlyAfterLosses
  <2>1. Window <= troubles + 1
    BY DEF IInv, LossInv
  <2>2. PICK t \in Nat, w \in Nat : t = troubles /\ w = Window
    BY OtaAssumption DEF IInv, TypeOK, OtaAssumption
  <2>3. w <= t + 1
    BY <2>1, <2>2
  <2>4. t >= w - 1
    BY <2>3
  <2> QED
    BY <2>2, <2>4
<1> QED
  BY <1>1, InvHolds, PTL

-----------------------------------------------------------------------------
(* QtermOta implements FirmwareUpdate. *)

\* A change of one field of the terminal, as FirmwareUpdate sees it.
LEMMA ShownFacts ==
  ASSUME NEW A, NEW B, NEW r \in [state : A, written : B], NEW q \in [state : A, written : B]
  PROVE  /\ q.written = r.written =>
              [d \in {"terminal"} |-> q]
                = [[d \in {"terminal"} |-> r] EXCEPT !["terminal"].state = q.state]
         /\ q.state = r.state =>
              [d \in {"terminal"} |-> q]
                = [[d \in {"terminal"} |-> r] EXCEPT !["terminal"].written = q.written]
<1>1. q.written = r.written => [r EXCEPT !.state = q.state] = q
  OBVIOUS
<1>2. q.state = r.state => [r EXCEPT !.written = q.written] = q
  OBVIOUS
<1> QED
  BY <1>1, <1>2

\* The terminal's state changes and what it has written does not.
LEMMA BecomeRefines ==
  ASSUME TypeOK, Takes, terminal'.written = terminal.written
  PROVE  Update!Become("terminal", terminal'.state) /\ UNCHANGED phase
<1>1. terminal \in [state : TerminalStates, written : 0..Size]
  BY DEF TypeOK, TerminalStates
<1>2. terminal' \in [state : TerminalStates, written : 0..Size] /\ phase' = phase
  BY DEF Takes
<1> QED
  BY <1>1, <1>2, ShownFacts DEF Update!Become

\* The first message in the channel is the one that the terminal takes.
LEMMA HeadOfDown ==
  ASSUME TypeOK, UploadInv, DownInv, down # <<>>
  PROVE  /\ Head(down).type = "begin" => terminal.written = 0
         /\ Head(down).type = "finish" => terminal.written = Size
<1>1. Head(down) = down[1] /\ 1 \in DOMAIN down
  BY DownFacts
<1>2. PICK w \in 0..Size : w = terminal.written /\ acked <= w /\ w <= offset
  BY Offsets
<1>3. Head(down).type = "begin" => offset = 0
  BY <1>1 DEF DownInv
<1>4. Head(down).type = "finish" => acked = Size
  BY <1>1 DEF DownInv
<1> QED
  BY <1>2, <1>3, <1>4, FileFacts

LEMMA WritesRefines ==
  ASSUME TypeOK, UploadInv, DownInv, NEW n \in 0..Size, Writes(n)
  PROVE  Update!Write("terminal")
<1>1. PICK w \in 0..Size : w = terminal.written
  BY TerminalTypes
<1>2. PICK h \in Messages : h = Head(down) /\ h.type = "chunk"
  BY DownFacts DEF Writes, Took, Takes
<1>3. PICK k \in Nat : k = h.length /\ k \in 1..ChunkSize /\ ChunkSize \in Nat
  BY <1>2, TerminalTypes, OtaAssumption DEF OtaAssumption
<1>4. n = w + k /\ n \in w + 1 .. Size /\ n <= w + ChunkSize
  <2>1. n = w + k
    BY <1>1, <1>2, <1>3 DEF Writes
  <2> QED
    BY <1>3, <2>1, FileFacts
<1>5. /\ terminal'.state = "receiving" /\ terminal.state = "receiving" /\ terminal'.written = n
      /\ phase' = phase
  BY DEF Writes, Took, Takes
<1>6. /\ terminal \in [state : TerminalStates, written : 0..Size]
      /\ terminal' \in [state : TerminalStates, written : 0..Size]
  BY DEF TypeOK, TerminalStates, Writes, Took, Takes
<1>7. [d \in {"terminal"} |-> terminal']
        = [[d \in {"terminal"} |-> terminal] EXCEPT !["terminal"].written = n]
  BY <1>5, <1>6, ShownFacts
<1> QED
  BY <1>1, <1>4, <1>5, <1>7 DEF Update!Write, Update!In

LEMMA TerminalRefines ==
  ASSUME TypeOK, UploadInv, DownInv, Opens \/ Rejects \/ Closes \/ Ignores
  PROVE  \/ Update!Open("terminal") \/ Update!Install("terminal") \/ Update!Leave("terminal")
         \/ UNCHANGED Update!vars
<1>1. CASE Opens
  <2>1. /\ Takes /\ Head(down).type = "begin" /\ terminal.state = "idle" /\ terminal'.written = 0
        /\ terminal'.state \in {"receiving", "failed"}
    BY <1>1 DEF Opens, Took
  <2>2. terminal.written = 0
    BY <2>1, HeadOfDown DEF Takes
  <2>3. Update!Become("terminal", terminal'.state) /\ UNCHANGED phase
    BY <2>1, <2>2, BecomeRefines
  <2> QED
    BY <2>1, <2>2, <2>3 DEF Update!Open, Update!Leave, Update!In
<1>2. CASE Rejects
  <2>1. /\ Takes /\ terminal.state = "receiving" /\ terminal'.written = terminal.written
        /\ terminal'.state = "failed"
    BY <1>2 DEF Rejects, Took
  <2>2. Update!Become("terminal", terminal'.state) /\ UNCHANGED phase
    BY <2>1, BecomeRefines
  <2> QED
    BY <2>1, <2>2 DEF Update!Leave, Update!In
<1>3. CASE Closes
  <2>1. /\ Takes /\ Head(down).type = "finish" /\ terminal.state = "receiving"
        /\ terminal'.written = terminal.written /\ terminal'.state \in {"done", "failed"}
    BY <1>3 DEF Closes, Took
  <2>2. terminal.written = Size
    BY <2>1, HeadOfDown DEF Takes
  <2>3. Update!Become("terminal", terminal'.state) /\ UNCHANGED phase
    BY <2>1, BecomeRefines
  <2> QED
    BY <2>1, <2>2, <2>3 DEF Update!Install, Update!Leave, Update!Complete, Update!In
<1>4. CASE Ignores
  <2>1. Takes /\ terminal'.written = terminal.written
    BY <1>4 DEF Ignores
  <2>2. Update!Become("terminal", terminal'.state) /\ UNCHANGED phase
    BY <2>1, BecomeRefines
  <2>3. CASE terminal.state = "receiving" /\ terminal'.state = "idle"
    BY <2>2, <2>3 DEF Update!Leave, Update!In
  <2>4. CASE terminal'.state = terminal.state
    <3>1. terminal' = terminal
      <4>1. /\ terminal \in [state : TerminalStates, written : 0..Size]
            /\ terminal' \in [state : TerminalStates, written : 0..Size]
        BY <2>1 DEF TypeOK, TerminalStates, Takes
      <4> QED
        BY <2>1, <2>4, <4>1
    <3> QED
      BY <2>2, <3>1 DEF Update!vars
  <2> QED
    BY <1>4, <2>3, <2>4 DEF Ignores
<1> QED
  BY <1>1, <1>2, <1>3, <1>4

\* The upload goes on, or ends with a result.
LEMMA MobctlRefines ==
  ASSUME TypeOK, UploadInv,
         \/ Begins \/ Finishes \/ Ends \/ (\E n \in Nat : SendsChunk(n)) \/ ReadEOF
         \/ TakeStarted \/ (\E n \in 0..Size : Acks(n)) \/ Callback \/ UNCHANGED vars
  PROVE  Update!Fail \/ UNCHANGED Update!vars
<1>1. CASE Ends
  BY <1>1 DEF Ends, Update!Fail
<1>2. CASE \/ Begins \/ Finishes \/ (\E n \in Nat : SendsChunk(n)) \/ ReadEOF
           \/ TakeStarted \/ (\E n \in 0..Size : Acks(n))
  <2>1. terminal' = terminal /\ phase \notin {"ok", "failed"} /\ phase' \notin {"ok", "failed"}
    BY <1>2 DEF Begins, Finishes, SendsChunk, ReadEOF, TakeStarted, Acks, LoopHead, netVars
  <2> QED
    BY <2>1 DEF Update!vars
<1>3. CASE Callback \/ UNCHANGED vars
  BY <1>3 DEF Callback, vars, netVars, Update!vars
<1> QED
  BY <1>1, <1>2, <1>3

LEMMA InitRefines == Init => Update!Init
  BY DEF Init, Update!Init

LEMMA NextRefines == IInv /\ IInv' /\ [Next]_vars => [Update!Next]_Update!vars
<1> SUFFICES ASSUME IInv, IInv', [Next]_vars PROVE [Update!Next]_Update!vars
  OBVIOUS
<1>1. TypeOK /\ UploadInv /\ DownInv /\ ReportInv
  BY DEF IInv
<1>2. CASE TakeDone
  <2>1. phase = "finishing" /\ phase' = "ok" /\ terminal' = terminal
    BY <1>2 DEF TakeDone, netVars
  <2>2. terminal.state = "done"
    BY <2>1 DEF IInv, UploadInv
  <2> QED
    BY <2>1, <2>2 DEF Update!Next, Update!Succeed, Update!In
<1>3. CASE \E n \in 0..Size : Writes(n)
  BY <1>1, <1>3, WritesRefines DEF Update!Next
<1>4. CASE Opens \/ Rejects \/ Closes \/ Ignores
  BY <1>1, <1>4, TerminalRefines DEF Update!Next
<1>5. CASE \/ Begins \/ Finishes \/ Ends \/ (\E n \in Nat : SendsChunk(n)) \/ ReadEOF
           \/ TakeStarted \/ (\E n \in 0..Size : Acks(n)) \/ Callback \/ UNCHANGED vars
  BY <1>1, <1>5, MobctlRefines DEF Update!Next
<1> QED
  BY <1>1, <1>2, <1>3, <1>4, <1>5, Steps

\* qterm-ota keeps the same promise as barcode-ota, for any firmware and window: the
\* terminal installs all of what was announced or nothing, and a success means that it has.
THEOREM Refinement == Spec => ImplementsUpdate
<1>1. Init => Update!Init
  BY InitRefines
<1>2. IInv /\ IInv' /\ [Next]_vars => [Update!Next]_Update!vars
  BY NextRefines
<1> QED
  BY <1>1, <1>2, InvHolds, PTL DEF Spec, ImplementsUpdate, Update!Spec

=============================================================================

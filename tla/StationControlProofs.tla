------------------------ MODULE StationControlProofs ------------------------
(***************************************************************************)
(* Proofs about StationControl, for any commands, stations and outages:    *)
(* types, and that messages arrive once and in the order of their commands.*)
(*                                                                         *)
(* The order rests on the client id that all commands share: once a        *)
(* command's connection is accepted no earlier command has a connection    *)
(* with an unread message, and none can get one again, since a command     *)
(* that is over publishes nothing.                                         *)
(***************************************************************************)
EXTENDS StationControl, TLAPS

Reading(d) == conn[d] \in {"open", "closing"} /\ message[d] = "sent"

Accepted(c) == conn[c] \in {"open", "closing"} \/ message[c] # "none"

\* Where a command can be with its message and its connection.
Progress ==
  \A c \in Commands :
    /\ cmd[c] = "idle" => conn[c] = "none" /\ earlier[c] = {}
    /\ cmd[c] \in {"idle", "connecting"} => message[c] = "none"
    /\ cmd[c] = "sent" => message[c] = "arrived"
    /\ message[c] # "none" => conn[c] \in {"open", "closing", "closed"}
    /\ \A d \in earlier[c] : Over(d)

\* The history of arrivals: what has arrived, and each message once.
History ==
  /\ \A c \in Commands : message[c] = "arrived" <=> Arrived(c)
  /\ \A i, j \in DOMAIN arrivals : arrivals[i] = arrivals[j] => i = j

\* Nothing is read any more of a command that was over before an accepted one.
Shut == \A c \in Commands : Accepted(c) => \A d \in earlier[c] : ~Reading(d)

IInv == TypeOK /\ Progress /\ History /\ Shut /\ LaterCommandWins

-----------------------------------------------------------------------------
LEMMA InitInv == ASSUME Init PROVE IInv
BY ControlAssumption
   DEF Init, IInv, TypeOK, Progress, History, Shut, LaterCommandWins, Accepted, Arrived

\* What an append does to a sequence.
LEMMA Appended ==
  ASSUME NEW S, NEW q \in Seq(S), NEW e \in S
  PROVE  /\ Append(q, e) \in Seq(S)
         /\ DOMAIN Append(q, e) = DOMAIN q \cup {Len(q) + 1}
         /\ \A i \in DOMAIN q : Append(q, e)[i] = q[i] /\ i < Len(q) + 1
         /\ Append(q, e)[Len(q) + 1] = e
OBVIOUS

LEMMA TypeStep == ASSUME TypeOK, [Next]_vars PROVE TypeOK'
<1>1. ASSUME NEW c \in Commands, Connect(c) PROVE TypeOK'
  <2>1. {d \in Commands : Over(d)} \in SUBSET Commands
    OBVIOUS
  <2>. QED  BY <1>1, <2>1 DEF TypeOK, Connect, topicVars, stationVars
<1>2. ASSUME NEW c \in Commands, Publish(c) PROVE TypeOK'
  BY <1>2 DEF TypeOK, Publish, topicVars, stationVars
<1>3. ASSUME NEW c \in Commands, Sent(c) \/ Fails(c) \/ PublishTimeout(c) PROVE TypeOK'
  BY <1>3 DEF TypeOK, Sent, Fails, PublishTimeout, Return, topicVars, stationVars
<1>4. ASSUME NEW c \in Commands, ConnectTimeout(c) PROVE TypeOK'
  BY <1>4 DEF TypeOK, ConnectTimeout, Return, topicVars, stationVars
<1>5. ASSUME NEW c \in Commands, Accept(c) \/ Close(c) PROVE TypeOK'
  BY <1>5 DEF TypeOK, Accept, Close, topicVars, stationVars
<1>6. ASSUME NEW c \in Commands, Arrive(c) PROVE TypeOK'
  <2>1. arrivals' \in Seq(Commands)
    BY <1>6, Appended DEF TypeOK, Arrive, Forward
  <2>2. inbox' \in [Stations -> Seq(Commands)]
    <3>1. \A s \in Stations : Append(inbox[s], c) \in Seq(Commands)
      BY Appended DEF TypeOK
    <3>. QED  BY <1>6, <3>1 DEF TypeOK, Arrive, Forward
  <2>. QED  BY <1>6, <2>1, <2>2 DEF TypeOK, Arrive, Forward
<1>7. ASSUME NEW s \in Stations, GoOffline(s) PROVE TypeOK'
  BY <1>7, ControlAssumption DEF TypeOK, GoOffline, commandVars, topicVars
<1>8. ASSUME NEW s \in Stations, GoOnline(s) PROVE TypeOK'
  BY <1>8 DEF TypeOK, GoOnline, commandVars, topicVars
<1>9. ASSUME NEW s \in Stations, Obey(s) PROVE TypeOK'
  <2>1. inbox[s] \in Seq(Commands) /\ inbox[s] # <<>>
    BY <1>9 DEF TypeOK, Obey
  <2>2. Head(inbox[s]) \in Commands /\ Tail(inbox[s]) \in Seq(Commands)
    BY <2>1
  <2>. QED  BY <1>9, <2>2 DEF TypeOK, Obey, commandVars, topicVars
<1>10. CASE UNCHANGED vars
  BY <1>10 DEF TypeOK, vars, commandVars, topicVars, stationVars
<1>. QED
  BY <1>1, <1>2, <1>3, <1>4, <1>5, <1>6, <1>7, <1>8, <1>9, <1>10 DEF Next, CommandStep

\* The other parts of the invariant are about commands and arrivals only.
Order == Progress /\ History /\ Shut /\ LaterCommandWins

LEMMA OrderStep == ASSUME TypeOK, Order, [Next]_vars PROVE Order'
<1>. USE DEF Order
<1>1. ASSUME NEW c \in Commands, Connect(c) PROVE Order'
  <2>1. Progress'
    BY <1>1 DEF TypeOK, Progress, Connect, Over
  <2>2. History' /\ Shut'
    BY <1>1 DEF TypeOK, Progress, History, Shut, Connect, Accepted, Reading, Arrived, topicVars
  <2>3. LaterCommandWins'
    <3>1. \A i \in DOMAIN arrivals : arrivals[i] # c
      BY <1>1 DEF Progress, History, Connect, Arrived
    <3>. QED  BY <1>1, <3>1 DEF TypeOK, LaterCommandWins, Connect, topicVars
  <2>. QED  BY <2>1, <2>2, <2>3
<1>2. ASSUME NEW c \in Commands, Publish(c) PROVE Order'
  <2>1. Progress'
    BY <1>2 DEF TypeOK, Progress, Publish, Over
  <2>2. History'
    BY <1>2 DEF TypeOK, Progress, History, Publish, Arrived, topicVars
  <2>3. Shut'
    <3>. SUFFICES ASSUME NEW e \in Commands, Accepted(e)', NEW d \in earlier[e]
         PROVE ~Reading(d)'
      BY <1>2 DEF Shut, Publish
    <3>1. Accepted(e) /\ Over(d) /\ ~Over(c) /\ d \in Commands
      BY <1>2 DEF TypeOK, Progress, Publish, Accepted, Over
    <3>2. d # c /\ ~Reading(d)
      BY <3>1 DEF Shut
    <3>. QED  BY <1>2, <3>1, <3>2 DEF TypeOK, Publish, Reading
  <2>. QED  BY <1>2, <2>1, <2>2, <2>3 DEF LaterCommandWins, Publish, topicVars
<1>3. ASSUME NEW c \in Commands, Sent(c) \/ Fails(c) \/ PublishTimeout(c) \/ ConnectTimeout(c)
      PROVE Order'
  <2>. USE <1>3 DEF Sent, Fails, PublishTimeout, ConnectTimeout, Return
  <2>1. Progress'
    <3>1. ASSUME NEW d \in Commands PROVE
          /\ d # c => cmd'[d] = cmd[d] /\ conn'[d] = conn[d]
          /\ cmd'[c] = "sent" => message[c] = "arrived"
          /\ cmd'[c] \in {"sent", "failed"} /\ cmd[c] \notin {"idle", "sent", "failed"}
          /\ message[c] # "none" => conn'[c] \in {"open", "closing", "closed"}
      BY DEF TypeOK, Progress
    <3>2. message' = message /\ earlier' = earlier
      OBVIOUS
    <3>3. \A d \in Commands : Over(d) => Over(d)'
      BY <3>1 DEF Over
    <3>. QED  BY <3>1, <3>2, <3>3 DEF TypeOK, Progress
  <2>2. History'
    BY DEF History, Arrived, topicVars
  <2>3. Shut'
    BY DEF TypeOK, Shut, Accepted, Reading
  <2>. QED  BY <2>1, <2>2, <2>3 DEF LaterCommandWins, topicVars
<1>4. ASSUME NEW c \in Commands, Accept(c) PROVE Order'
  <2>1. Progress'
    BY <1>4 DEF TypeOK, Progress, Accept, Over
  <2>2. Shut'
    BY <1>4 DEF TypeOK, Progress, Shut, Accept, Accepted, Reading, Over
  <2>. QED
    BY <1>4, <2>1, <2>2 DEF History, LaterCommandWins, Accept, Arrived, topicVars
<1>5. ASSUME NEW c \in Commands, Close(c) PROVE Order'
  <2>1. Progress'
    BY <1>5 DEF TypeOK, Progress, Close, Over
  <2>2. Shut'
    BY <1>5 DEF TypeOK, Shut, Close, Accepted, Reading
  <2>. QED
    BY <1>5, <2>1, <2>2 DEF History, LaterCommandWins, Close, Arrived, topicVars
<1>6. ASSUME NEW c \in Commands, Arrive(c) PROVE Order'
  <2>. DEFINE new == Len(arrivals) + 1
  <2>1. /\ DOMAIN arrivals' = DOMAIN arrivals \cup {new}
        /\ \A i \in DOMAIN arrivals : arrivals'[i] = arrivals[i] /\ i < new
        /\ arrivals'[new] = c
        /\ DOMAIN arrivals \subseteq Nat /\ new \in Nat
    BY <1>6, Appended DEF TypeOK, Arrive, Forward
  <2>2. \A d \in Commands : message'[d] = IF d = c THEN "arrived" ELSE message[d]
    BY <1>6 DEF TypeOK, Arrive, Forward
  <2>3. Progress'
    BY <1>6, <2>2 DEF TypeOK, Progress, Arrive, Forward, Over
  <2>4. ~Arrived(c) /\ Reading(c)
    BY <1>6 DEF History, Arrive, Forward, Reading
  <2>5. History'
    BY <2>1, <2>2, <2>4 DEF History, Arrived
  <2>6. Shut'
    BY <1>6, <2>2 DEF Shut, Arrive, Forward, Accepted, Reading
  <2>7. LaterCommandWins'
    <3>1. \A i \in DOMAIN arrivals : c \notin earlier[arrivals[i]]
      <4>. SUFFICES ASSUME NEW i \in DOMAIN arrivals PROVE c \notin earlier[arrivals[i]]
        OBVIOUS
      <4>1. arrivals[i] \in Commands
        BY DEF TypeOK
      <4>2. Accepted(arrivals[i])
        BY <4>1 DEF History, Accepted, Arrived
      <4>. QED  BY <2>4, <4>1, <4>2 DEF Shut
    <3>2. earlier' = earlier
      BY <1>6 DEF Arrive, Forward
    <3>. QED  BY <2>1, <3>1, <3>2 DEF LaterCommandWins
  <2>. QED  BY <2>3, <2>5, <2>6, <2>7
<1>7. CASE UNCHANGED <<commandVars, topicVars>>
  BY <1>7 DEF Progress, History, Shut, LaterCommandWins, Accepted, Reading, Arrived, Over,
              commandVars, topicVars
<1>8. ASSUME NEW s \in Stations, GoOffline(s) \/ GoOnline(s) \/ Obey(s)
      PROVE UNCHANGED <<commandVars, topicVars>>
  BY <1>8 DEF GoOffline, GoOnline, Obey
<1>. QED
  BY <1>1, <1>2, <1>3, <1>4, <1>5, <1>6, <1>7, <1>8 DEF Next, CommandStep, vars

-----------------------------------------------------------------------------
LEMMA Invariance == Spec => []IInv
<1>1. Init => IInv
  BY InitInv
<1>2. IInv /\ [Next]_vars => IInv'
  BY TypeStep, OrderStep DEF IInv, Order
<1>. QED  BY <1>1, <1>2, PTL DEF Spec

\* Every variable keeps its type.
THEOREM TypeCorrect == Spec => []TypeOK
BY Invariance, PTL DEF IInv

\* sendControlCommand tells the truth when it prints "sent", and the connection
\* that is given up or taken over repeats nothing.
THEOREM SentIsTrue == Spec => []SentArrivesOnce
<1>1. IInv => SentArrivesOnce
  BY DEF IInv, Progress, History, SentArrivesOnce
<1>. QED  BY <1>1, Invariance, PTL

\* A command that timed out never undoes a later one.
THEOREM LastWordStays == Spec => []LaterCommandWins
BY Invariance, PTL DEF IInv
=============================================================================

--------------------------- MODULE StationControl ---------------------------
(***************************************************************************)
(* cmd/mobctl: the commands `ss` and `sw`, which tell every station to     *)
(* sleep or to wake.  Each connects to the broker, publishes one retained  *)
(* message with QoS 1, waits at most 10 s for the connection and 10 s for  *)
(* the acknowledgement, and disconnects.  Several can run at a time, in an *)
(* interactive mobctl one after the other, and all of them, as well as the *)
(* OTA commands, use the same client id, so that the broker ends one's     *)
(* connection when it accepts the next one's.                              *)
(*                                                                         *)
(*   cmd       where each command is: "sent" and "failed" are its results  *)
(*   conn      its connection: "dialing" until the broker accepted it,     *)
(*             "closing" when it was left with the message perhaps unread  *)
(*   message   "none", "sent" to the broker, or "arrived" there            *)
(*   earlier   the commands that were over when it was started (history)   *)
(*   retained  what the broker retains                                     *)
(*   arrivals  the messages in their order at the broker (history)         *)
(*   online, inbox, mode   each station: connected, what is on its way to  *)
(*             it, and the last command it obeyed                          *)
(*   outages   how often a station lost its connection (bounded)           *)
(*                                                                         *)
(* Broker, client library and stations are external.  A command stands for *)
(* its payload, "sleep" or "wake".                                         *)
(***************************************************************************)
EXTENDS Naturals, Sequences, FiniteSets

CONSTANTS Commands,    (* the commands operators give                      *)
          Stations,
          NoCommand,   (* what a station obeys before the first one        *)
          MaxOutages   (* bound                                            *)

ASSUME ControlAssumption == NoCommand \notin Commands /\ MaxOutages \in Nat

VARIABLES cmd, conn, message, earlier, retained, arrivals, online, inbox, mode,
          outages

commandVars == <<cmd, conn, message, earlier>>
stationVars == <<online, inbox, mode, outages>>
topicVars == <<retained, arrivals>>
vars == <<commandVars, topicVars, stationVars>>

Init ==
  /\ cmd = [c \in Commands |-> "idle"]
  /\ conn = [c \in Commands |-> "none"]
  /\ message = [c \in Commands |-> "none"]
  /\ earlier = [c \in Commands |-> {}]
  /\ retained = NoCommand /\ arrivals = <<>>
  /\ online = [s \in Stations |-> TRUE]
  /\ inbox = [s \in Stations |-> <<>>]
  /\ mode = [s \in Stations |-> NoCommand]
  /\ outages = 0

-----------------------------------------------------------------------------
(* sendControlCommand *)

Over(c) == cmd[c] \in {"sent", "failed"}

\* client.Connect
Connect(c) ==
  /\ cmd[c] = "idle"
  /\ cmd' = [cmd EXCEPT ![c] = "connecting"]
  /\ conn' = [conn EXCEPT ![c] = "dialing"]
  /\ earlier' = [earlier EXCEPT ![c] = {d \in Commands : Over(d)}]
  /\ UNCHANGED <<message, topicVars, stationVars>>

\* The connection is there: client.Publish.
Publish(c) ==
  /\ cmd[c] = "connecting" /\ conn[c] = "open"
  /\ cmd' = [cmd EXCEPT ![c] = "publishing"]
  /\ message' = [message EXCEPT ![c] = "sent"]
  /\ UNCHANGED <<conn, earlier, topicVars, stationVars>>

Return(c, result, connection) ==
  /\ cmd' = [cmd EXCEPT ![c] = result]
  /\ conn' = [conn EXCEPT ![c] = connection]
  /\ UNCHANGED <<message, earlier, topicVars, stationVars>>

\* Mutant: QoS 0, whose token completes when the message is written.
SentUnacknowledged(c) == cmd[c] = "publishing" /\ conn[c] = "open" /\ Return(c, "sent", "closed")

\* The acknowledgement came: Disconnect.
Sent(c) ==
  /\ cmd[c] = "publishing" /\ conn[c] = "open" /\ message[c] = "arrived"
  /\ Return(c, "sent", "closed")

\* The connection was refused, or broke, or was taken over.
Fails(c) ==
  cmd[c] \in {"connecting", "publishing"} /\ conn[c] = "closed" /\ Return(c, "failed", "closed")

\* 10 s are over.  The deferred Disconnect closes the connection behind the
\* message ...
PublishTimeout(c) ==
  cmd[c] = "publishing" /\ conn[c] = "open" /\ Return(c, "failed", "closing")

\* ... but there is none yet when Connect itself takes too long: the client goes
\* on dialing, and keeps a connection it still gets.
ConnectTimeout(c) == cmd[c] = "connecting" /\ Return(c, "failed", conn[c])

CommandStep(c) ==
  Connect(c) \/ Publish(c) \/ Sent(c) \/ Fails(c) \/ PublishTimeout(c) \/ ConnectTimeout(c)

-----------------------------------------------------------------------------
(* The broker. *)

\* Mutant: every mobctl has a client id of its own.
AcceptsBoth(c) ==
  /\ conn[c] = "dialing"
  /\ conn' = [conn EXCEPT ![c] = "open"]
  /\ UNCHANGED <<cmd, message, earlier, topicVars, stationVars>>

\* A new connection of a client id ends the old one, and what that one has
\* sent and the broker not yet read is lost.
Accept(c) ==
  /\ conn[c] = "dialing"
  /\ conn' = [d \in Commands |-> IF d = c THEN "open"
                                 ELSE IF conn[d] \in {"open", "closing"} THEN "closed"
                                 ELSE conn[d]]
  /\ UNCHANGED <<cmd, message, earlier, topicVars, stationVars>>

Forward(c) ==
  /\ conn[c] \in {"open", "closing"} /\ message[c] = "sent"
  /\ message' = [message EXCEPT ![c] = "arrived"]
  /\ arrivals' = Append(arrivals, c)
  /\ inbox' = [s \in Stations |-> IF online[s] THEN Append(inbox[s], c) ELSE inbox[s]]
  /\ UNCHANGED <<cmd, conn, earlier, online, mode, outages>>

\* Mutant: the message is not retained.
ArriveUnretained(c) == Forward(c) /\ UNCHANGED retained

\* The broker forwards the message to the stations, and retains it.
Arrive(c) == Forward(c) /\ retained' = c

\* A connection ends, also that of a mobctl that was left or ended.
Close(c) ==
  /\ conn[c] \in {"dialing", "open", "closing"}
  /\ conn' = [conn EXCEPT ![c] = "closed"]
  /\ UNCHANGED <<cmd, message, earlier, topicVars, stationVars>>

-----------------------------------------------------------------------------
(* The stations. *)

GoOffline(s) ==
  /\ online[s] /\ outages < MaxOutages
  /\ online' = [online EXCEPT ![s] = FALSE]
  /\ inbox' = [inbox EXCEPT ![s] = <<>>]
  /\ outages' = outages + 1
  /\ UNCHANGED <<commandVars, topicVars, mode>>

\* A subscription brings the retained message.
GoOnline(s) ==
  /\ ~online[s]
  /\ online' = [online EXCEPT ![s] = TRUE]
  /\ inbox' = [inbox EXCEPT ![s] = IF retained = NoCommand THEN <<>> ELSE <<retained>>]
  /\ UNCHANGED <<commandVars, topicVars, mode, outages>>

Obey(s) ==
  /\ online[s] /\ inbox[s] # <<>>
  /\ mode' = [mode EXCEPT ![s] = Head(inbox[s])]
  /\ inbox' = [inbox EXCEPT ![s] = Tail(@)]
  /\ UNCHANGED <<commandVars, topicVars, online, outages>>

Next ==
  \/ \E c \in Commands : CommandStep(c) \/ Accept(c) \/ Arrive(c) \/ Close(c)
  \/ \E s \in Stations : GoOffline(s) \/ GoOnline(s) \/ Obey(s)

Spec == Init /\ [][Next]_vars

\* Stations reconnect, and obey what they receive.
FairSpec == Spec /\ \A s \in Stations : WF_vars(GoOnline(s)) /\ WF_vars(Obey(s))

-----------------------------------------------------------------------------
TypeOK ==
  /\ cmd \in [Commands -> {"idle", "connecting", "publishing", "sent", "failed"}]
  /\ conn \in [Commands -> {"none", "dialing", "open", "closing", "closed"}]
  /\ message \in [Commands -> {"none", "sent", "arrived"}]
  /\ earlier \in [Commands -> SUBSET Commands]
  /\ retained \in Commands \cup {NoCommand} /\ arrivals \in Seq(Commands)
  /\ online \in [Stations -> BOOLEAN]
  /\ inbox \in [Stations -> Seq(Commands)]
  /\ mode \in [Stations -> Commands \cup {NoCommand}]
  /\ outages \in 0..MaxOutages

\* What mobctl reports as sent has arrived at the broker, and no message arrives
\* twice, whichever connections were taken over or given up meanwhile.  One
\* that is reported as failed may have arrived all the same.
Arrived(c) == \E i \in DOMAIN arrivals : arrivals[i] = c

SentArrivesOnce ==
  /\ \A c \in Commands : cmd[c] = "sent" => Arrived(c)
  /\ \A i, j \in DOMAIN arrivals : arrivals[i] = arrivals[j] => i = j

\* The last word stays: a command that was over before another one was started,
\* be it that its publish timed out with the message on its way, never takes
\* effect after that one has.
LaterCommandWins ==
  \A i, j \in DOMAIN arrivals : i < j => arrivals[j] \notin earlier[arrivals[i]]

\* Every station comes to obey the last message and stays with it, whether it
\* was connected when that was published or not.
Latest == IF arrivals = <<>> THEN NoCommand ELSE arrivals[Len(arrivals)]

StationsFollow == <>[](\A s \in Stations : mode[s] = Latest)
=============================================================================

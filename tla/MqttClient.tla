------------------------------ MODULE MqttClient ------------------------------
(***************************************************************************)
(* MQTTClient (lib/MQTT/src/MQTTClient.cpp) over lwmqtt                    *)
(* (lib/MQTT/src/lwmqtt/client.c), with a broker at the other end of a TCP *)
(* connection that may break, stall or be closed at any moment.            *)
(*                                                                         *)
(* A call writes one packet and then cycles: it reads packet after packet, *)
(* hands messages to the callback, acknowledges what asks for it, and ends *)
(* at the first packet of the type it waits for.  It never looks at that   *)
(* packet's identifier, and it never sends anything again: whatever goes   *)
(* wrong closes the connection.  loop() reads what is available when it is *)
(* called and then keeps the connection alive.                             *)
(*                                                                         *)
(* The callback makes no calls, as the library's README asks.              *)
(***************************************************************************)
EXTENDS Integers, Sequences, FiniteSets

CONSTANTS
    MaxCalls,     \* publish, subscribe and unsubscribe calls made
    Kinds,        \* what they may ask for
    MaxPacketId,  \* 65535 in the code
    Clean,        \* setCleanSession
    SkipMode,     \* the program opens the network itself and connects with skip
    Msgs, MsgQos, \* what others publish, with its QoS
    TooBig,       \* those of them that do not fit into the read buffer
    MaxBreaks, MaxReboots, MaxQueue  \* bounds

AllKinds == {"qos0", "qos1", "qos2", "subscribe", "unsubscribe"}
Calls    == 1 .. MaxCalls

ASSUME CallAssumption == /\ MaxCalls \in Nat /\ MaxPacketId \in Nat \ {0}
                         /\ Kinds \subseteq AllKinds
                         /\ Clean \in BOOLEAN /\ SkipMode \in BOOLEAN

ASSUME MessageAssumption == /\ Msgs \subseteq Nat \ {0}
                            /\ MsgQos \in [Msgs -> 0 .. 2]
                            /\ TooBig \subseteq Msgs

ASSUME LimitAssumption == MaxBreaks \in Nat /\ MaxReboots \in Nat /\ MaxQueue \in Nat

VARIABLES
    \* the connection
    up,              \* netClient->connected()
    peer,            \* the other end is still reached
    toBroker,        \* written and not yet handled, of all connections so far
    toClient,        \* sent to the client on this connection and not yet read
    \* MQTTClient and lwmqtt_client_t
    connectedFlag,   \* _connected
    last_packet_id,
    pong_pending,
    due,             \* keep_alive_timer has run out
    pc,              \* "idle", "wait" (in a call), "yield" or "ping" (in loop())
    op,              \* the call: its number, its identifier, what it waits for
    expired,         \* command_timer has run out
    left,            \* packets loop() still has to read
    \* the broker
    greeted, stored, subscribed, out,
    \* the environment's failures so far
    breaks, reboots,
    \* for checking only
    kind, fate, performed,  \* of the calls, see MqttCalls
    handled,                \* the messages the callback got
    initiated,              \* this connection's CONNECT was accepted
    pongSeen                \* loop() was called with a PINGRESP available

net     == <<up, peer, toBroker, toClient>>
session == <<connectedFlag, last_packet_id, pong_pending, due>>
control == <<pc, op, expired, left>>
broker  == <<greeted, stored, subscribed, out>>
budget  == <<breaks, reboots>>
calls   == <<kind, fate, performed>>
ghost   == <<calls, handled, initiated, pongSeen>>
vars    == <<net, session, control, broker, budget, ghost>>

\* A packet; OPEN stands for the opening of a connection.
Packet(t, q, n, b) == [type |-> t, qos |-> q, id |-> n, body |-> b]
Plain(t)  == Packet(t, 0, 0, 0)
Ack(t, n) == Packet(t, 0, n, 0)

NoOp == [call |-> 0, id |-> 0, needle |-> "none"]

Init == /\ up = FALSE /\ peer = FALSE /\ toBroker = <<>> /\ toClient = <<>>
        /\ connectedFlag = FALSE /\ last_packet_id = 1 /\ pong_pending = FALSE /\ due = FALSE
        /\ pc = "idle" /\ op = NoOp /\ expired = FALSE /\ left = 0
        /\ greeted = FALSE /\ stored = {} /\ subscribed = FALSE
        /\ out = [m \in Msgs |-> "new"]
        /\ breaks = 0 /\ reboots = 0
        /\ kind = [c \in Calls |-> "none"] /\ fate = [c \in Calls |-> "none"]
        /\ performed = [c \in Calls |-> 0]
        /\ handled = {}
        /\ initiated = FALSE /\ pongSeen = FALSE
-----------------------------------------------------------------------------
\* MQTTClient::connected().
Connected == up /\ connectedFlag

\* What is written after the link broke is accepted and lost.
Write(p) == toBroker' = IF up /\ peer THEN Append(toBroker, p) ELSE toBroker

\* MQTTClient::close(), without what becomes of the data written before.
Close == /\ connectedFlag' = FALSE /\ up' = FALSE
         /\ toClient' = <<>>
         /\ initiated' = FALSE
         /\ UNCHANGED peer

Idle == pc' = "idle" /\ op' = NoOp /\ expired' = FALSE /\ left' = 0 /\ pongSeen' = FALSE

Settle(r) == fate' = IF op.call = 0 THEN fate ELSE [fate EXCEPT ![op.call] = r]

\* Every error of lwmqtt ends in close() and a return of false.
Fail == /\ Close /\ Idle /\ Settle("false")
        /\ UNCHANGED <<last_packet_id, pong_pending, due, broker, budget, kind, performed>>

\* Fault: no check for the largest identifier.
NextId_NoWrap == last_packet_id + 1

\* lwmqtt_get_next_packet_id.
NextId == IF last_packet_id = MaxPacketId THEN 1 ELSE last_packet_id + 1

Request(k, n, c) == CASE k = "qos0" -> Packet("PUBLISH", 0, n, c)
                      [] k = "qos1" -> Packet("PUBLISH", 1, n, c)
                      [] k = "qos2" -> Packet("PUBLISH", 2, n, c)
                      [] k = "subscribe" -> Packet("SUBSCRIBE", 0, n, c)
                      [] k = "unsubscribe" -> Packet("UNSUBSCRIBE", 0, n, c)

Needle(k) == CASE k = "qos1" -> "PUBACK"
               [] k = "qos2" -> "PUBCOMP"
               [] k = "subscribe" -> "SUBACK"
               [] k = "unsubscribe" -> "UNSUBACK"
-----------------------------------------------------------------------------
\* MQTTClient::connect: an open connection is closed, the network is opened and
\* CONNECT is written.  If the network cannot be opened, the flag stays as it is.
Connect ==
    /\ pc = "idle"
    /\ Len(toBroker) < MaxQueue
    /\ up' = TRUE /\ peer' = TRUE
    /\ toBroker' = toBroker \o <<Plain("OPEN"), Plain("CONNECT")>>
    /\ toClient' = <<>>
    /\ connectedFlag' = (connectedFlag /\ ~up)
    /\ initiated' = FALSE
    /\ pong_pending' = FALSE /\ due' = FALSE
    /\ pc' = "wait" /\ op' = [NoOp EXCEPT !.needle = "CONNACK"] /\ expired' = FALSE
    /\ UNCHANGED <<last_packet_id, left, broker, budget, calls, handled, pongSeen>>

ConnectRefused ==
    /\ pc = "idle"
    /\ up' = FALSE /\ toClient' = <<>> /\ initiated' = FALSE
    /\ connectedFlag' = (connectedFlag /\ ~up)
    /\ UNCHANGED <<peer, toBroker, last_packet_id, pong_pending, due, control, broker, budget,
                   calls, handled, pongSeen>>

\* CONNECT does not fit into the write buffer or cannot be written.
ConnectUnwritten ==
    /\ pc = "idle"
    /\ Len(toBroker) < MaxQueue
    /\ toBroker' \in {toBroker, Append(toBroker, Plain("OPEN"))}
    /\ pong_pending' = FALSE /\ due' = FALSE
    /\ Close
    /\ UNCHANGED <<last_packet_id, control, broker, budget, calls, handled, pongSeen>>

\* connect(..., skip = true) on a network the program opened itself.
OpenNetwork ==
    /\ SkipMode /\ pc = "idle" /\ ~up
    /\ Len(toBroker) < MaxQueue
    /\ up' = TRUE /\ peer' = TRUE
    /\ toBroker' = Append(toBroker, Plain("OPEN"))
    /\ toClient' = <<>>
    /\ initiated' = FALSE
    /\ UNCHANGED <<session, control, broker, budget, calls, handled, pongSeen>>

ConnectSkip ==
    /\ SkipMode /\ pc = "idle" /\ up /\ ~initiated
    /\ Write(Plain("CONNECT"))
    /\ pong_pending' = FALSE /\ due' = FALSE
    /\ pc' = "wait" /\ op' = [NoOp EXCEPT !.needle = "CONNACK"] /\ expired' = FALSE
    /\ UNCHANGED <<up, peer, toClient, connectedFlag, last_packet_id, left, broker, budget,
                   ghost>>

\* publish, subscribe and unsubscribe.
NextCall == CHOOSE c \in Calls : fate[c] = "none" /\ \A d \in Calls : fate[d] = "none" => c <= d

Command(k) ==
    /\ pc = "idle" /\ Connected
    /\ \E c \in Calls : fate[c] = "none"
    /\ LET c == NextCall
           n == IF k = "qos0" THEN 0 ELSE NextId
       IN  /\ kind' = [kind EXCEPT ![c] = k]
           /\ last_packet_id' = IF k = "qos0" THEN last_packet_id ELSE n
           /\ Write(Request(k, n, c))
           /\ due' = FALSE
           /\ IF k = "qos0"
                THEN fate' = [fate EXCEPT ![c] = "true"] /\ UNCHANGED control
                ELSE /\ fate' = [fate EXCEPT ![c] = "pending"]
                     /\ pc' = "wait" /\ expired' = FALSE /\ left' = 0
                     /\ op' = [call |-> c, id |-> n, needle |-> Needle(k)]
    /\ UNCHANGED <<up, peer, toClient, connectedFlag, pong_pending, broker, budget,
                   performed, handled, initiated, pongSeen>>

\* The packet does not fit into the write buffer or cannot be written.
CommandFails(k) ==
    /\ pc = "idle" /\ Connected
    /\ \E c \in Calls : fate[c] = "none"
    /\ kind' = [kind EXCEPT ![NextCall] = k]
    /\ fate' = [fate EXCEPT ![NextCall] = "false"]
    /\ last_packet_id' = IF k = "qos0" THEN last_packet_id ELSE NextId
    /\ Close /\ Idle
    /\ UNCHANGED <<toBroker, pong_pending, due, broker, budget, performed, handled>>

\* MQTTClient::disconnect closes whether or not DISCONNECT could be written.
Disconnect ==
    /\ pc = "idle" /\ Connected
    /\ Write(Plain("DISCONNECT")) \/ UNCHANGED toBroker
    /\ Close
    /\ UNCHANGED <<last_packet_id, pong_pending, due, control, broker, budget, calls, handled,
                   pongSeen>>

\* Fault: one packet of those available is left unread.
Loop_OneLess ==
    /\ pc = "idle" /\ Connected
    /\ left' = Len(toClient) - 1
    /\ pc' = IF Len(toClient) < 2 THEN "ping" ELSE "yield"
    /\ pongSeen' = \E n \in DOMAIN toClient : toClient[n].type = "PINGRESP"
    /\ UNCHANGED <<net, session, op, expired, broker, budget, calls, handled, initiated>>

\* MQTTClient::loop: yield to what is available now, then keep alive.
Loop ==
    /\ pc = "idle" /\ Connected
    /\ left' = Len(toClient)
    /\ pc' = IF toClient = <<>> THEN "ping" ELSE "yield"
    /\ pongSeen' = \E n \in DOMAIN toClient : toClient[n].type = "PINGRESP"
    /\ UNCHANGED <<net, session, op, expired, broker, budget, calls, handled, initiated>>
-----------------------------------------------------------------------------
\* lwmqtt_cycle_until.
Cycling == pc \in {"wait", "yield"} /\ ~expired

CanRead == /\ Cycling /\ toClient # <<>>
           /\ ~(Head(toClient).type = "PUBLISH" /\ Head(toClient).body \in TooBig)

\* One packet more is read; loop() stops after those that were available.
Counted == /\ left' = IF pc = "yield" THEN left - 1 ELSE left
           /\ pc' = IF pc = "yield" /\ left = 1 THEN "ping" ELSE pc
           /\ UNCHANGED <<op, expired>>

Answer(p) == CASE p.type = "PUBLISH" /\ p.qos = 1 -> <<Ack("PUBACK", p.id)>>
               [] p.type = "PUBLISH" /\ p.qos = 2 -> <<Ack("PUBREC", p.id)>>
               [] p.type = "PUBREC" -> <<Ack("PUBREL", p.id)>>
               [] p.type = "PUBREL" -> <<Ack("PUBCOMP", p.id)>>
               [] OTHER -> <<>>

\* Fault: messages that arrive during a call do not reach the callback.
Callback_InLoop(p) == handled' = IF p.type = "PUBLISH" /\ pc = "yield"
                                   THEN handled \cup {p.body} ELSE handled

Callback(p) == handled' = IF p.type = "PUBLISH" THEN handled \cup {p.body} ELSE handled

\* A packet the client has to act on: PUBLISH, PUBREC, PUBREL.
ReadRequest ==
    /\ CanRead
    /\ LET p == Head(toClient)
       IN  /\ p.type \in {"PUBLISH", "PUBREC", "PUBREL"}
           /\ Callback(p)
           /\ IF Answer(p) = <<>> THEN UNCHANGED <<toBroker, due>>
                                  ELSE Write(Head(Answer(p))) /\ due' = FALSE
    /\ toClient' = Tail(toClient)
    /\ Counted
    /\ UNCHANGED <<up, peer, connectedFlag, last_packet_id, pong_pending, broker, budget, calls,
                   initiated, pongSeen>>

\* The callback has the message, but its acknowledgement cannot be written.
AnswerFails == /\ CanRead
               /\ Answer(Head(toClient)) # <<>>
               /\ Callback(Head(toClient))
               /\ UNCHANGED toBroker
               /\ Fail

ReadOther ==
    /\ CanRead
    /\ Head(toClient).type \notin {"PUBLISH", "PUBREC", "PUBREL", op.needle}
    /\ pong_pending' = (pong_pending /\ Head(toClient).type # "PINGRESP")
    /\ toClient' = Tail(toClient)
    /\ Counted
    /\ UNCHANGED <<up, peer, toBroker, connectedFlag, last_packet_id, due, broker, budget,
                   calls, handled, initiated, pongSeen>>

\* The packet waited for, whatever its identifier.
Refuses(p) == p.body # 0

ReadNeedle ==
    /\ CanRead /\ pc = "wait"
    /\ Head(toClient).type = op.needle
    /\ ~Refuses(Head(toClient))
    /\ connectedFlag' = (connectedFlag \/ op.needle = "CONNACK")
    /\ initiated' = (initiated \/ op.needle = "CONNACK")
    /\ toClient' = Tail(toClient)
    /\ Idle /\ Settle("true")
    /\ UNCHANGED <<up, peer, toBroker, last_packet_id, pong_pending, due, broker, budget,
                   kind, performed, handled>>

\* Fault: a refusal does not close the connection.
ReadRefusal_KeepsOpen ==
    /\ CanRead /\ pc = "wait"
    /\ Head(toClient).type = op.needle
    /\ Refuses(Head(toClient))
    /\ toClient' = Tail(toClient)
    /\ Idle /\ Settle("false")
    /\ UNCHANGED <<up, peer, toBroker, session, broker, budget, kind, performed, handled,
                   initiated>>

ReadRefusal == /\ CanRead /\ pc = "wait"
               /\ Head(toClient).type = op.needle
               /\ Refuses(Head(toClient))
               /\ UNCHANGED <<toBroker, handled>>
               /\ Fail

\* The link is down; a packet is longer than the buffer, cut short, or so slow that
\* the timer runs out in the middle of it.
ReadFails == /\ Cycling
             /\ ~up \/ toClient # <<>>
             /\ UNCHANGED <<toBroker, handled>>
             /\ Fail

\* Faults: a call that timed out leaves the connection open; counts as a success;
\* goes on waiting.
GiveUp_KeepsOpen == /\ pc = "wait" /\ expired
                    /\ Idle /\ Settle("false")
                    /\ UNCHANGED <<net, session, broker, budget, kind, performed, handled,
                                   initiated>>

GiveUp_Succeeds == /\ pc = "wait" /\ expired
                   /\ Idle /\ Settle("true")
                   /\ UNCHANGED <<net, session, broker, budget, kind, performed, handled,
                                  initiated>>

GiveUp_Waits == /\ pc = "wait" /\ expired
                /\ expired' = FALSE
                /\ UNCHANGED <<net, session, pc, op, left, broker, budget, ghost>>

\* command_timer has run out: a call fails, yield returns.
GiveUp == /\ pc = "wait" /\ expired
          /\ UNCHANGED <<toBroker, handled>>
          /\ Fail

YieldEnds == /\ pc = "yield" /\ expired
             /\ pc' = "ping" /\ expired' = FALSE /\ left' = 0
             /\ pongSeen' = FALSE
             /\ UNCHANGED <<net, session, op, broker, budget, calls, handled, initiated>>

\* lwmqtt_keep_alive.
NoPingDue == /\ pc = "ping" /\ ~due
             /\ Idle
             /\ UNCHANGED <<net, session, broker, budget, calls, handled, initiated>>

\* Fault: pong_pending is not set.
Ping_Forgets == /\ pc = "ping" /\ due /\ ~pong_pending /\ up
                /\ Write(Plain("PINGREQ"))
                /\ due' = FALSE
                /\ Idle
                /\ UNCHANGED <<up, peer, toClient, connectedFlag, last_packet_id, pong_pending,
                               broker, budget, calls, handled, initiated>>

Ping == /\ pc = "ping" /\ due /\ ~pong_pending /\ up
        /\ Write(Plain("PINGREQ"))
        /\ pong_pending' = TRUE /\ due' = FALSE
        /\ Idle
        /\ UNCHANGED <<up, peer, toClient, connectedFlag, last_packet_id, broker, budget,
                       calls, handled, initiated>>

PingFails == /\ pc = "ping" /\ due /\ ~pong_pending
             /\ UNCHANGED <<toBroker, handled>>
             /\ Fail

\* LWMQTT_PONG_TIMEOUT.
PongTimeout == /\ pc = "ping" /\ due /\ pong_pending
               /\ UNCHANGED <<toBroker, handled>>
               /\ Fail
-----------------------------------------------------------------------------
\* Timers and the network.
TimerExpires == /\ Cycling
                /\ expired' = TRUE
                /\ UNCHANGED <<net, session, pc, op, left, broker, budget, ghost>>

\* Looked at only while connected, with setKeepAlive above 0.
PingDue == /\ Connected /\ ~due
           /\ due' = TRUE
           /\ UNCHANGED <<net, connectedFlag, last_packet_id, pong_pending, control, broker,
                          budget, ghost>>

Prefixes(s) == {SubSeq(s, 1, n) : n \in 0 .. Len(s)}

\* The link breaks and nobody has noticed yet: part of what is under way is lost.
Break == /\ breaks < MaxBreaks /\ peer
         /\ breaks' = breaks + 1
         /\ peer' = FALSE
         /\ toBroker' \in Prefixes(toBroker)
         /\ toClient' \in Prefixes(toClient)
         /\ UNCHANGED <<up, session, control, broker, reboots, ghost>>

LinkDown == /\ up /\ ~peer
            /\ up' = FALSE /\ toClient' = <<>> /\ initiated' = FALSE
            /\ UNCHANGED <<peer, toBroker, session, control, broker, budget, calls, handled,
                           pongSeen>>

\* The device restarts and runs begin() again.
Reboot == /\ reboots < MaxReboots
          /\ reboots' = reboots + 1
          /\ Close /\ Idle /\ Settle("lost")
          /\ last_packet_id' = 1 /\ pong_pending' = FALSE /\ due' = FALSE
          /\ UNCHANGED <<toBroker, broker, breaks, kind, performed, handled>>
-----------------------------------------------------------------------------
\* The broker.  It handles the connections one after the other and answers on
\* the latest only.
Takes(t) == toBroker # <<>> /\ Head(toBroker).type = t /\ toBroker' = Tail(toBroker)

Reaches == /\ up /\ peer
           /\ \A n \in 2 .. Len(toBroker) : toBroker[n].type # "OPEN"

Reply(p) == toClient' = IF Reaches THEN Append(toClient, p) ELSE toClient

BrokerRest == UNCHANGED <<up, peer, session, control, budget, kind, fate, handled, initiated,
                          pongSeen>>

BrokerOpen == /\ Takes("OPEN")
              /\ greeted' = FALSE
              /\ BrokerRest /\ UNCHANGED <<toClient, stored, subscribed, out, performed>>

\* A clean session forgets what was under way, a kept one starts it again.
Resumed(s) == CASE s = "sent" -> "new"
                [] s = "rec" -> "release"
                [] OTHER -> s

Accept == /\ Takes("CONNECT")
          /\ greeted' = TRUE
          /\ Reply(Plain("CONNACK"))
          /\ IF Clean
               THEN /\ stored' = {} /\ subscribed' = FALSE
                    /\ out' = [m \in Msgs |-> IF out[m] \in {"sent", "rec", "release"}
                                                THEN "lost" ELSE out[m]]
               ELSE out' = [m \in Msgs |-> Resumed(out[m])] /\ UNCHANGED <<stored, subscribed>>
          /\ BrokerRest /\ UNCHANGED performed

Refuse == /\ Takes("CONNECT")
          /\ greeted' = FALSE
          /\ Reply(Packet("CONNACK", 0, 0, 5))
          /\ BrokerRest /\ UNCHANGED <<stored, subscribed, out, performed>>

\* Anything before CONNECT, and DISCONNECT, ends the connection.
HangUp == /\ toBroker # <<>> /\ Head(toBroker).type \notin {"OPEN", "CONNECT"}
          /\ ~greeted \/ Head(toBroker).type = "DISCONNECT"
          /\ toBroker' = Tail(toBroker)
          /\ greeted' = FALSE
          /\ peer' = (peer /\ ~Reaches)
          /\ UNCHANGED <<up, toClient, session, control, stored, subscribed, out, budget, ghost>>

Performs(c) == performed' = [performed EXCEPT ![c] = @ + 1]

\* A PUBLISH with the identifier of one not yet released is the same again.
TakePublish ==
    /\ greeted /\ Takes("PUBLISH")
    /\ LET p == Head(toBroker)
       IN  /\ IF p.qos = 2 /\ p.id \in stored THEN UNCHANGED performed ELSE Performs(p.body)
           /\ stored' = IF p.qos = 2 THEN stored \cup {p.id} ELSE stored
           /\ IF p.qos = 0
                THEN UNCHANGED toClient
                ELSE Reply(Ack(IF p.qos = 1 THEN "PUBACK" ELSE "PUBREC", p.id))
    /\ BrokerRest /\ UNCHANGED <<greeted, subscribed, out>>

TakePubrel == /\ greeted /\ Takes("PUBREL")
              /\ stored' = stored \ {Head(toBroker).id}
              /\ Reply(Ack("PUBCOMP", Head(toBroker).id))
              /\ BrokerRest /\ UNCHANGED <<greeted, subscribed, out, performed>>

TakeSubscribe ==
    /\ greeted /\ Takes("SUBSCRIBE")
    /\ \/ /\ subscribed' = TRUE
          /\ Performs(Head(toBroker).body)
          /\ Reply(Ack("SUBACK", Head(toBroker).id))
       \/ /\ Reply(Packet("SUBACK", 0, Head(toBroker).id, 128))
          /\ UNCHANGED <<subscribed, performed>>
    /\ BrokerRest /\ UNCHANGED <<greeted, stored, out>>

TakeUnsubscribe == /\ greeted /\ Takes("UNSUBSCRIBE")
                   /\ subscribed' = FALSE
                   /\ Performs(Head(toBroker).body)
                   /\ Reply(Ack("UNSUBACK", Head(toBroker).id))
                   /\ BrokerRest /\ UNCHANGED <<greeted, stored, out>>

TakePing == /\ greeted /\ Takes("PINGREQ")
            /\ Reply(Plain("PINGRESP"))
            /\ BrokerRest /\ UNCHANGED <<broker, performed>>

\* What others publish.
Send(m) == /\ greeted /\ subscribed /\ out[m] = "new"
           /\ Reaches /\ (toBroker # <<>> => Head(toBroker).type # "OPEN")
           /\ toClient' = Append(toClient, Packet("PUBLISH", MsgQos[m], m, m))
           /\ out' = [out EXCEPT ![m] = IF MsgQos[m] = 0 THEN "done" ELSE "sent"]
           /\ BrokerRest /\ UNCHANGED <<toBroker, greeted, stored, subscribed, performed>>

Release(m) == /\ greeted /\ out[m] = "release"
              /\ Reaches /\ (toBroker # <<>> => Head(toBroker).type # "OPEN")
              /\ toClient' = Append(toClient, Ack("PUBREL", m))
              /\ out' = [out EXCEPT ![m] = "rec"]
              /\ BrokerRest /\ UNCHANGED <<toBroker, greeted, stored, subscribed, performed>>

TakePuback == /\ greeted /\ (Takes("PUBACK") \/ Takes("PUBCOMP"))
              /\ out' = [out EXCEPT ![Head(toBroker).id] = "done"]
              /\ BrokerRest /\ UNCHANGED <<toClient, greeted, stored, subscribed, performed>>

TakePubrec == /\ greeted /\ Takes("PUBREC")
              /\ out' = [out EXCEPT ![Head(toBroker).id] = "rec"]
              /\ Reply(Ack("PUBREL", Head(toBroker).id))
              /\ BrokerRest /\ UNCHANGED <<greeted, stored, subscribed, performed>>
-----------------------------------------------------------------------------
Program == \/ Connect \/ ConnectRefused \/ ConnectUnwritten \/ OpenNetwork \/ ConnectSkip
           \/ \E k \in Kinds : Command(k) \/ CommandFails(k)
           \/ Disconnect \/ Loop

InCall == \/ ReadRequest \/ AnswerFails \/ ReadOther \/ ReadNeedle \/ ReadRefusal \/ ReadFails
          \/ GiveUp \/ YieldEnds \/ NoPingDue \/ Ping \/ PingFails \/ PongTimeout

World == TimerExpires \/ PingDue \/ Break \/ LinkDown \/ Reboot

Broker == \/ BrokerOpen \/ Accept \/ Refuse \/ HangUp
          \/ TakePublish \/ TakePubrel \/ TakeSubscribe \/ TakeUnsubscribe \/ TakePing
          \/ TakePuback \/ TakePubrec
          \/ \E m \in Msgs : Send(m) \/ Release(m)

Next == Program \/ InCall \/ World \/ Broker

Spec == Init /\ [][Next]_vars

\* A call that is under way is executed, the two timers run, and the program
\* calls loop() again and again.
FairSpec == Spec /\ WF_vars(InCall) /\ WF_vars(TimerExpires) /\ WF_vars(PingDue) /\ WF_vars(Loop)
-----------------------------------------------------------------------------
PacketTypes == {"OPEN", "CONNECT", "CONNACK", "DISCONNECT", "PUBLISH", "PUBACK", "PUBREC",
                "PUBREL", "PUBCOMP", "SUBSCRIBE", "SUBACK", "UNSUBSCRIBE", "UNSUBACK",
                "PINGREQ", "PINGRESP"}
PacketType == [type : PacketTypes, qos : 0 .. 2, id : Nat, body : Nat]

TypeOK ==
    /\ up \in BOOLEAN /\ peer \in BOOLEAN
    /\ toBroker \in Seq(PacketType) /\ toClient \in Seq(PacketType)
    /\ connectedFlag \in BOOLEAN /\ pong_pending \in BOOLEAN /\ due \in BOOLEAN
    /\ last_packet_id \in 1 .. MaxPacketId
    /\ pc \in {"idle", "wait", "yield", "ping"} /\ expired \in BOOLEAN /\ left \in Nat
    /\ op \in [call : Calls \cup {0}, id : 0 .. MaxPacketId,
               needle : PacketTypes \cup {"none"}]
    /\ greeted \in BOOLEAN /\ stored \subseteq 1 .. MaxPacketId /\ subscribed \in BOOLEAN
    /\ out \in [Msgs -> {"new", "sent", "rec", "release", "done", "lost"}]
    /\ breaks \in 0 .. MaxBreaks /\ reboots \in 0 .. MaxReboots
    /\ kind \in [Calls -> AllKinds \cup {"none"}]
    /\ fate \in [Calls -> {"none", "pending", "true", "false", "lost"}]
    /\ performed \in [Calls -> Nat]
    /\ handled \subseteq Msgs /\ initiated \in BOOLEAN /\ pongSeen \in BOOLEAN

\* MQTT/README.md "The functions return a boolean that indicates if the publish
\* has been successful (true)": calls that return true were performed, each
\* exactly once, none that failed more than once (module MqttCalls).
Promise == INSTANCE MqttCalls
CallsPromise == Promise!Spec

\* The part of it that concerns calls that returned.
PublishedIsPerformed ==
    \A c \in Calls : fate[c] = "true" /\ kind[c] # "qos0" => performed[c] = 1

\* client.c:599-613 decodes an acknowledgement into packet_id and never compares
\* it.  It need not: the one a call waits for is always its own.
AckIsOwn ==
    pc = "wait" =>
      \A n \in DOMAIN toClient : toClient[n].type = op.needle => toClient[n].id = op.id

\* client.c:271-297 calls the callback before it acknowledges: what the broker
\* will not send again, the program has, wherever the connection broke.
AckedIsHandled ==
    \A m \in Msgs : MsgQos[m] > 0 /\ out[m] \in {"rec", "release", "done"} => m \in handled

\* MQTTClient.cpp:463-464 "a client is connected if the network is connected, a
\* client is available and the connection has been properly initiated".
ConnectedIsInitiated == pc = "idle" /\ Connected => initiated

\* MQTTClient.cpp:436-451 reads before it looks at the keep alive: no connection
\* is given up for want of a pong that was there when loop() was called, unless
\* reading it took longer than the timeout.
PongIsRead == pc = "ping" /\ pongSeen => ~pong_pending

\* Every call returns, whatever the broker does.
CallsReturn == pc # "idle" ~> pc = "idle"

\* A connection whose other end is gone is closed by loop() alone.
DeadIsNoticed == Connected /\ ~peer ~> ~Connected \/ peer
=============================================================================

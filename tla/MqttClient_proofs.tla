--------------------------- MODULE MqttClient_proofs ---------------------------
(***************************************************************************)
(* What MqttClient says of one connection after the other, and that it     *)
(* implements MqttCalls, for any number of calls, messages, identifiers,   *)
(* broken links and reboots.                                               *)
(***************************************************************************)
EXTENDS MqttClient, SequenceTheorems, Numbers_proofs

\* The calls are made in their order.
LEMMA NextCallIsLeast ==
    ASSUME \E c \in Calls : fate[c] = "none"
    PROVE  /\ NextCall \in Calls /\ fate[NextCall] = "none"
           /\ \A d \in Calls : fate[d] = "none" => NextCall <= d
<1> DEFINE New == {c \in Calls : fate[c] = "none"}
<1>1. New \in SUBSET Nat /\ New # {}
  BY CallAssumption DEF Calls
<1>2. \E c \in New : \A d \in New : c <= d
  BY <1>1, LeastExists
<1> QED
  BY <1>2 DEF NextCall
-----------------------------------------------------------------------------
\* What is in a queue.
Content(s) == {s[n] : n \in DOMAIN s}

LEMMA ContentType ==
    ASSUME NEW S, NEW s \in Seq(S)
    PROVE  Content(s) \subseteq S
  BY ElementOfSeq, LenProperties DEF Content

LEMMA AppendFacts ==
    ASSUME NEW S, NEW s \in Seq(S), NEW e \in S
    PROVE  /\ Append(s, e) \in Seq(S)
           /\ Len(s) \in Nat /\ DOMAIN s = 1 .. Len(s)
           /\ Len(Append(s, e)) = Len(s) + 1 /\ DOMAIN Append(s, e) = 1 .. Len(s) + 1
           /\ \A n \in 1 .. Len(s) : Append(s, e)[n] = s[n]
           /\ Append(s, e)[Len(s) + 1] = e
           /\ Content(Append(s, e)) = Content(s) \cup {e}
<1>1. /\ Append(s, e) \in Seq(S)
      /\ Len(s) \in Nat /\ DOMAIN s = 1 .. Len(s)
      /\ Len(Append(s, e)) = Len(s) + 1 /\ DOMAIN Append(s, e) = 1 .. Len(s) + 1
      /\ \A n \in 1 .. Len(s) : Append(s, e)[n] = s[n]
      /\ Append(s, e)[Len(s) + 1] = e
  BY AppendProperties, LenProperties
<1> QED
  BY <1>1 DEF Content

LEMMA TailFacts ==
    ASSUME NEW S, NEW s \in Seq(S), s # <<>>
    PROVE  /\ Tail(s) \in Seq(S) /\ Head(s) \in S /\ Head(s) = s[1]
           /\ Len(s) \in Nat \ {0} /\ DOMAIN s = 1 .. Len(s)
           /\ Len(Tail(s)) = Len(s) - 1 /\ DOMAIN Tail(s) = 1 .. Len(s) - 1
           /\ \A n \in 1 .. Len(s) - 1 : Tail(s)[n] = s[n + 1]
           /\ Content(s) = Content(Tail(s)) \cup {Head(s)}
<1>1. /\ Tail(s) \in Seq(S) /\ Head(s) \in S /\ Head(s) = s[1]
      /\ Len(s) \in Nat \ {0} /\ DOMAIN s = 1 .. Len(s)
      /\ Len(Tail(s)) = Len(s) - 1 /\ DOMAIN Tail(s) = 1 .. Len(s) - 1
      /\ \A n \in 1 .. Len(s) - 1 : Tail(s)[n] = s[n + 1]
  BY HeadTailProperties, LenProperties, EmptySeq
<1>2. \A n \in 2 .. Len(s) : s[n] = Tail(s)[n - 1] /\ n - 1 \in 1 .. Len(s) - 1
  BY <1>1
<1>3. \A n \in 1 .. Len(s) : n = 1 \/ n \in 2 .. Len(s)
  BY <1>1
<1>4. ASSUME NEW p \in Content(s) PROVE p \in Content(Tail(s)) \cup {Head(s)}
  <2>1. PICK n \in 1 .. Len(s) : p = s[n]
    BY <1>1 DEF Content
  <2> QED
    BY <1>1, <1>2, <1>3, <2>1 DEF Content
<1>5. ASSUME NEW p \in Content(Tail(s)) PROVE p \in Content(s)
  <2>1. PICK n \in 1 .. Len(s) - 1 : p = Tail(s)[n]
    BY <1>1 DEF Content
  <2>2. p = s[n + 1] /\ n + 1 \in DOMAIN s
    BY <1>1, <2>1
  <2> QED
    BY <2>2 DEF Content
<1>6. Head(s) \in Content(s)
  BY <1>1 DEF Content
<1>7. Content(s) = Content(Tail(s)) \cup {Head(s)}
  BY <1>4, <1>5, <1>6
<1> QED
  BY <1>1, <1>7

LEMMA PrefixFacts ==
    ASSUME NEW S, NEW s \in Seq(S), NEW p \in Prefixes(s)
    PROVE  /\ p \in Seq(S)
           /\ Len(s) \in Nat /\ DOMAIN s = 1 .. Len(s)
           /\ Len(p) \in 0 .. Len(s) /\ DOMAIN p = 1 .. Len(p)
           /\ \A n \in 1 .. Len(p) : p[n] = s[n]
           /\ Content(p) \subseteq Content(s)
<1>1. PICK n \in 0 .. Len(s) : p = SubSeq(s, 1, n)
  BY DEF Prefixes
<1>2. Len(s) \in Nat /\ DOMAIN s = 1 .. Len(s) /\ \A i \in 1 .. Len(s) : s[i] \in S
  BY LenProperties, ElementOfSeq
<1>3. n \in Int /\ 1 \in Int /\ \A i \in 1 .. n : s[i] \in S
  BY <1>1, <1>2
<1>4. /\ p \in Seq(S)
      /\ Len(p) = IF 1 <= n THEN n - 1 + 1 ELSE 0
      /\ \A i \in 1 .. n - 1 + 1 : p[i] = s[1 + i - 1]
  BY <1>1, <1>3, SubSeqProperties
<1>5. Len(p) = n /\ DOMAIN p = 1 .. n /\ \A i \in 1 .. n : p[i] = s[i]
  BY <1>1, <1>2, <1>4, LenProperties
<1> QED
  BY <1>1, <1>2, <1>4, <1>5 DEF Content

LEMMA OpenFacts ==
    ASSUME NEW S, NEW s \in Seq(S), NEW e \in S, NEW f \in S
    PROVE  /\ s \o <<e, f>> \in Seq(S)
           /\ Len(s) \in Nat /\ DOMAIN s = 1 .. Len(s)
           /\ Len(s \o <<e, f>>) = Len(s) + 2 /\ DOMAIN (s \o <<e, f>>) = 1 .. Len(s) + 2
           /\ \A n \in 1 .. Len(s) : (s \o <<e, f>>)[n] = s[n]
           /\ (s \o <<e, f>>)[Len(s) + 1] = e
           /\ (s \o <<e, f>>)[Len(s) + 2] = f
           /\ Content(s \o <<e, f>>) = Content(s) \cup {e, f}
<1> DEFINE t == s \o <<e, f>>
<1>1. <<e, f>> \in Seq(S) /\ Len(<<e, f>>) = 2 /\ <<e, f>>[1] = e /\ <<e, f>>[2] = f
  OBVIOUS
<1>2. Len(s) \in Nat /\ DOMAIN s = 1 .. Len(s)
  BY LenProperties
<1>3. /\ t \in Seq(S) /\ Len(t) = Len(s) + 2
      /\ \A i \in 1 .. Len(s) + 2 : t[i] = IF i <= Len(s) THEN s[i] ELSE <<e, f>>[i - Len(s)]
  BY <1>1, ConcatProperties
<1>4. DOMAIN t = 1 .. Len(s) + 2
  BY <1>3, LenProperties
<1>5. /\ \A n \in 1 .. Len(s) : t[n] = s[n]
      /\ t[Len(s) + 1] = e /\ t[Len(s) + 2] = f
  BY <1>1, <1>2, <1>3
<1>6. \A n \in 1 .. Len(s) + 2 : n \in 1 .. Len(s) \/ n = Len(s) + 1 \/ n = Len(s) + 2
  BY <1>2
<1>7. Content(t) = Content(s) \cup {e, f}
  BY <1>2, <1>4, <1>5, <1>6 DEF Content
<1> QED
  BY <1>2, <1>3, <1>4, <1>5, <1>7
-----------------------------------------------------------------------------
\* The packets of the two directions: a PUBLISH of the client with QoS 2 has an
\* identifier, one of the broker is a message of others under its own.
BrokerPacket == {p \in PacketType : p.type = "PUBLISH" /\ p.qos = 2 => p.id \in 1 .. MaxPacketId}
ClientPacket == {p \in PacketType : p.type = "PUBLISH" =>
                                      p.body \in Msgs /\ p.id = p.body /\ p.qos = MsgQos[p.body]}

Operation == [call : Calls \cup {0}, id : 0 .. MaxPacketId, needle : PacketTypes \cup {"none"}]

\* The conjuncts of TypeOK.
FlagType    == /\ up \in BOOLEAN /\ peer \in BOOLEAN
               /\ connectedFlag \in BOOLEAN /\ pong_pending \in BOOLEAN /\ due \in BOOLEAN
               /\ expired \in BOOLEAN /\ greeted \in BOOLEAN /\ subscribed \in BOOLEAN
               /\ initiated \in BOOLEAN /\ pongSeen \in BOOLEAN
NetType     == toBroker \in Seq(BrokerPacket) /\ toClient \in Seq(ClientPacket)
ControlType == /\ pc \in {"idle", "wait", "yield", "ping"}
               /\ left \in Nat /\ (pc = "yield" => left > 0)
               /\ op \in Operation /\ (pc # "wait" => op = NoOp)
SessionType == /\ last_packet_id \in 1 .. MaxPacketId /\ stored \subseteq 1 .. MaxPacketId
               /\ breaks \in 0 .. MaxBreaks /\ reboots \in 0 .. MaxReboots
OutType     == /\ out \in [Msgs -> {"new", "sent", "rec", "release", "done", "lost"}]
               /\ handled \subseteq Msgs
CallsType   == /\ kind \in [Calls -> AllKinds \cup {"none"}]
               /\ fate \in [Calls -> {"none", "pending", "true", "false", "lost"}]
               /\ performed \in [Calls -> Nat]

TypeInv == FlagType /\ NetType /\ ControlType /\ SessionType /\ OutType /\ CallsType

\* Without the program's own connection: only connect() itself may be connected
\* and not yet initiated.
InitiatedInv == Connected /\ ~initiated => pc = "wait" /\ op.needle = "CONNACK"

\* loop() reads what was there: fewer packets are left only if the link is gone,
\* and a pong that was there has been read or is among those still to be read.
PongInv ==
    /\ pc = "yield" =>
         /\ left > Len(toClient) => ~(up /\ peer)
         /\ pongSeen /\ pong_pending =>
              \/ left > Len(toClient)
              \/ \E n \in DOMAIN toClient : n <= left /\ toClient[n].type = "PINGRESP"
    /\ PongIsRead

\* An acknowledgement under way, and whatever the broker takes for one, is of a
\* message the callback has.
Confirms(p) == p.type \in {"PUBACK", "PUBREC", "PUBCOMP"}
HandledInv ==
    /\ \A p \in Content(toBroker) : Confirms(p) => p.id \in handled
    /\ \A p \in Content(toClient) : p.type = "PUBREL" => p.id \in handled
    /\ \A m \in Msgs : out[m] \in {"rec", "release"} \/ (out[m] = "done" /\ MsgQos[m] > 0)
                         => m \in handled
-----------------------------------------------------------------------------
LEMMA PlainPackets ==
    ASSUME NEW t \in PacketTypes \ {"PUBLISH"}, NEW n \in Nat, NEW b \in Nat
    PROVE  /\ Plain(t) \in BrokerPacket \cap ClientPacket
           /\ Ack(t, n) \in BrokerPacket \cap ClientPacket
           /\ Packet(t, 0, n, b) \in BrokerPacket \cap ClientPacket
  BY DEF Plain, Ack, Packet, BrokerPacket, ClientPacket, PacketType

LEMMA NextIdType ==
    ASSUME SessionType
    PROVE  NextId \in 1 .. MaxPacketId
  BY CallAssumption DEF SessionType, NextId

LEMMA RequestType ==
    ASSUME NEW k \in Kinds, NEW n \in 0 .. MaxPacketId, k # "qos0" => n # 0, NEW c \in Calls
    PROVE  /\ Request(k, n, c) \in BrokerPacket
           /\ k # "qos0" => Needle(k) \in PacketTypes
  BY CallAssumption
  DEF AllKinds, Calls, Request, Needle, Packet, BrokerPacket, PacketType, PacketTypes

LEMMA WriteType ==
    ASSUME NetType, NEW p \in BrokerPacket, Write(p)
    PROVE  toBroker' \in Seq(BrokerPacket)
  BY AppendFacts DEF NetType, Write

LEMMA ReplyType ==
    ASSUME NetType, NEW p \in ClientPacket, Reply(p)
    PROVE  toClient' \in Seq(ClientPacket)
  BY AppendFacts DEF NetType, Reply

LEMMA TakesType ==
    ASSUME NetType, NEW t, Takes(t)
    PROVE  /\ toBroker' \in Seq(BrokerPacket) /\ Head(toBroker) \in BrokerPacket
           /\ Head(toBroker).type = t /\ Head(toBroker).id \in Nat /\ Head(toBroker).qos \in 0 .. 2
<1>1. toBroker' \in Seq(BrokerPacket) /\ Head(toBroker) \in BrokerPacket
  BY TailFacts DEF NetType, Takes
<1> QED
  BY <1>1 DEF Takes, BrokerPacket, PacketType

LEMMA SettleType ==
    ASSUME CallsType, NEW r \in {"true", "false", "lost"}, Settle(r)
    PROVE  fate' \in [Calls -> {"none", "pending", "true", "false", "lost"}]
  BY DEF CallsType, Settle

LEMMA OperationTypes ==
    /\ NoOp \in Operation
    /\ [NoOp EXCEPT !.needle = "CONNACK"] \in Operation
  BY CallAssumption DEF NoOp, Operation, PacketTypes

LEMMA IdleType == Idle => ControlType'
  BY OperationTypes DEF Idle, ControlType

LEMMA EmptyQueue == \A S : <<>> \in Seq(S)
  OBVIOUS

\* A call, or loop(), that fails.
LEMMA FailType ==
    ASSUME TypeInv, Fail, UNCHANGED toBroker, handled' \subseteq Msgs
    PROVE  TypeInv'
<1>1. FlagType'
  BY DEF TypeInv, FlagType, Fail, Close, Idle, broker
<1>2. NetType'
  BY EmptyQueue DEF TypeInv, NetType, Fail, Close
<1>3. ControlType'
  BY IdleType DEF Fail
<1>4. CallsType'
  BY SettleType DEF TypeInv, CallsType, Fail
<1>5. SessionType' /\ OutType'
  BY DEF TypeInv, SessionType, OutType, Fail, broker, budget
<1> QED
  BY <1>1, <1>2, <1>3, <1>4, <1>5 DEF TypeInv

\* A step of the broker, but for the variables it changes.
LEMMA BrokerStepType ==
    ASSUME TypeInv, BrokerRest, toBroker' \in Seq(BrokerPacket), toClient' \in Seq(ClientPacket),
           greeted' \in BOOLEAN, subscribed' \in BOOLEAN,
           stored' \subseteq 1 .. MaxPacketId,
           out' \in [Msgs -> {"new", "sent", "rec", "release", "done", "lost"}],
           performed' \in [Calls -> Nat]
    PROVE  TypeInv'
<1> USE DEF TypeInv, BrokerRest, session, control, budget
<1>1. FlagType'
  BY DEF FlagType
<1>2. NetType' /\ ControlType'
  BY DEF NetType, ControlType
<1>3. SessionType' /\ OutType' /\ CallsType'
  BY DEF SessionType, OutType, CallsType
<1> QED
  BY <1>1, <1>2, <1>3

LEMMA TypeInit == Init => TypeInv
<1> SUFFICES ASSUME Init PROVE TypeInv
  OBVIOUS
<1>1. FlagType
  BY DEF Init, FlagType
<1>2. NetType /\ ControlType
  BY EmptyQueue, OperationTypes DEF Init, NetType, ControlType
<1>3. SessionType /\ OutType /\ CallsType
  BY CallAssumption, LimitAssumption DEF Init, SessionType, OutType, CallsType
<1> QED
  BY <1>1, <1>2, <1>3 DEF TypeInv
-----------------------------------------------------------------------------
\* The program's calls keep the types.
LEMMA ProgramType == TypeInv /\ Program => TypeInv'
<1> SUFFICES ASSUME TypeInv, Program PROVE TypeInv'
  OBVIOUS
<1> USE DEF TypeInv, session, control, broker, budget, calls, ghost
<1>0. /\ Plain("OPEN") \in BrokerPacket /\ Plain("CONNECT") \in BrokerPacket
      /\ Plain("DISCONNECT") \in BrokerPacket
  BY PlainPackets DEF PacketTypes
<1>1. CASE Connect
  <2>1. FlagType'
    BY <1>1 DEF Connect, FlagType
  <2>2. NetType'
    BY <1>0, <1>1, OpenFacts, EmptyQueue DEF Connect, NetType
  <2>3. ControlType'
    BY <1>1, OperationTypes DEF Connect, ControlType
  <2>4. SessionType' /\ OutType' /\ CallsType'
    BY <1>1 DEF Connect, SessionType, OutType, CallsType
  <2> QED
    BY <2>1, <2>2, <2>3, <2>4
<1>2. CASE ConnectRefused
  <2>1. FlagType'
    BY <1>2 DEF ConnectRefused, FlagType
  <2>2. NetType' /\ ControlType'
    BY <1>2, EmptyQueue DEF ConnectRefused, NetType, ControlType
  <2>3. SessionType' /\ OutType' /\ CallsType'
    BY <1>2 DEF ConnectRefused, SessionType, OutType, CallsType
  <2> QED
    BY <2>1, <2>2, <2>3
<1>3. CASE ConnectUnwritten
  <2>1. FlagType'
    BY <1>3 DEF ConnectUnwritten, Close, FlagType
  <2>2. NetType'
    <3>1. Append(toBroker, Plain("OPEN")) \in Seq(BrokerPacket)
      BY <1>0, AppendFacts DEF NetType
    <3> QED
      BY <1>3, <3>1, EmptyQueue DEF ConnectUnwritten, NetType, Close
  <2>3. ControlType'
    BY <1>3 DEF ConnectUnwritten, ControlType
  <2>4. SessionType' /\ OutType' /\ CallsType'
    BY <1>3 DEF ConnectUnwritten, SessionType, OutType, CallsType
  <2> QED
    BY <2>1, <2>2, <2>3, <2>4
<1>4. CASE OpenNetwork
  <2>1. FlagType'
    BY <1>4 DEF OpenNetwork, FlagType
  <2>2. NetType'
    BY <1>0, <1>4, AppendFacts, EmptyQueue DEF OpenNetwork, NetType
  <2>3. ControlType'
    BY <1>4 DEF OpenNetwork, ControlType
  <2>4. SessionType' /\ OutType' /\ CallsType'
    BY <1>4 DEF OpenNetwork, SessionType, OutType, CallsType
  <2> QED
    BY <2>1, <2>2, <2>3, <2>4
<1>5. CASE ConnectSkip
  <2>1. FlagType'
    BY <1>5 DEF ConnectSkip, FlagType
  <2>2. NetType'
    BY <1>0, <1>5, WriteType DEF ConnectSkip, NetType
  <2>3. ControlType'
    BY <1>5, OperationTypes DEF ConnectSkip, ControlType
  <2>4. SessionType' /\ OutType' /\ CallsType'
    BY <1>5 DEF ConnectSkip, SessionType, OutType, CallsType
  <2> QED
    BY <2>1, <2>2, <2>3, <2>4
<1>6. ASSUME NEW k \in Kinds, Command(k) PROVE TypeInv'
  <2> DEFINE n == IF k = "qos0" THEN 0 ELSE NextId
  <2>1. NextCall \in Calls /\ n \in 0 .. MaxPacketId /\ (k # "qos0" => n # 0) /\ k \in AllKinds
    BY <1>6, NextCallIsLeast, NextIdType, CallAssumption DEF Command
  <2>2. FlagType'
    BY <1>6 DEF Command, FlagType
  <2>3. NetType'
    <3>1. Request(k, n, NextCall) \in BrokerPacket
      BY <2>1, RequestType
    <3> QED
      BY <1>6, <3>1, WriteType DEF Command, NetType
  <2>4. ControlType'
    <3>1. CASE k = "qos0"
      BY <1>6, <3>1 DEF Command, ControlType
    <3>2. CASE k # "qos0"
      <4>1. [call |-> NextCall, id |-> n, needle |-> Needle(k)] \in Operation
        BY <2>1, <3>2, RequestType DEF Operation
      <4> QED
        BY <1>6, <2>1, <3>2, <4>1 DEF Command, ControlType
    <3> QED
      BY <3>1, <3>2
  <2>5. SessionType' /\ OutType'
    BY <1>6, NextIdType DEF Command, SessionType, OutType
  <2>6. CallsType'
    BY <1>6, <2>1 DEF Command, CallsType
  <2> QED
    BY <2>2, <2>3, <2>4, <2>5, <2>6
<1>7. ASSUME NEW k \in Kinds, CommandFails(k) PROVE TypeInv'
  <2>1. NextCall \in Calls /\ k \in AllKinds
    BY <1>7, NextCallIsLeast, CallAssumption DEF CommandFails
  <2>2. FlagType'
    BY <1>7 DEF CommandFails, Close, Idle, FlagType
  <2>3. NetType' /\ ControlType'
    BY <1>7, IdleType, EmptyQueue DEF CommandFails, Close, NetType
  <2>4. SessionType' /\ OutType'
    BY <1>7, NextIdType DEF CommandFails, SessionType, OutType
  <2>5. CallsType'
    BY <1>7, <2>1 DEF CommandFails, CallsType
  <2> QED
    BY <2>2, <2>3, <2>4, <2>5
<1>8. CASE Disconnect
  <2>1. FlagType'
    BY <1>8 DEF Disconnect, Close, FlagType
  <2>2. NetType'
    BY <1>0, <1>8, WriteType, EmptyQueue DEF Disconnect, Close, NetType
  <2>3. ControlType'
    BY <1>8 DEF Disconnect, ControlType
  <2>4. SessionType' /\ OutType' /\ CallsType'
    BY <1>8 DEF Disconnect, SessionType, OutType, CallsType
  <2> QED
    BY <2>1, <2>2, <2>3, <2>4
<1>9. CASE Loop
  <2>1. FlagType'
    BY <1>9 DEF Loop, net, FlagType
  <2>2. NetType'
    BY <1>9 DEF Loop, net, NetType
  <2>3. ControlType'
    BY <1>9, EmptySeq, LenProperties DEF Loop, ControlType, NetType
  <2>4. SessionType' /\ OutType' /\ CallsType'
    BY <1>9 DEF Loop, SessionType, OutType, CallsType
  <2> QED
    BY <2>1, <2>2, <2>3, <2>4
<1> QED
  BY <1>1, <1>2, <1>3, <1>4, <1>5, <1>6, <1>7, <1>8, <1>9 DEF Program
-----------------------------------------------------------------------------
LEMMA AnswerType ==
    ASSUME NEW p \in ClientPacket, Answer(p) # <<>>
    PROVE  /\ Head(Answer(p)) \in BrokerPacket
           /\ p.type \in {"PUBLISH", "PUBREC", "PUBREL"}
<1>1. /\ p.id \in Nat
      /\ Ack("PUBACK", p.id) \in BrokerPacket /\ Ack("PUBREC", p.id) \in BrokerPacket
      /\ Ack("PUBREL", p.id) \in BrokerPacket /\ Ack("PUBCOMP", p.id) \in BrokerPacket
  <2>1. p.id \in Nat
    BY DEF ClientPacket, PacketType
  <2> QED
    BY <2>1, PlainPackets DEF PacketTypes
<1> QED
  BY <1>1 DEF Answer

LEMMA CallbackType ==
    ASSUME OutType, NEW p \in ClientPacket, Callback(p)
    PROVE  handled' \subseteq Msgs
  BY DEF OutType, Callback, ClientPacket

\* A packet is read and the call goes on.
LEMMA ReadType ==
    ASSUME TypeInv, CanRead
    PROVE  /\ Head(toClient) \in ClientPacket /\ Tail(toClient) \in Seq(ClientPacket)
           /\ Counted => ControlType' /\ (expired' \in BOOLEAN)
<1>1. Head(toClient) \in ClientPacket /\ Tail(toClient) \in Seq(ClientPacket)
  BY TailFacts DEF TypeInv, NetType, CanRead
<1>2. ASSUME Counted PROVE ControlType'
  <2>1. CASE pc = "wait"
    BY <1>2, <2>1 DEF TypeInv, ControlType, Counted
  <2>2. CASE pc = "yield" /\ left = 1
    BY <1>2, <2>2 DEF TypeInv, ControlType, Counted
  <2>3. CASE pc = "yield" /\ left # 1
    BY <1>2, <2>3 DEF TypeInv, ControlType, Counted
  <2> QED
    BY <2>1, <2>2, <2>3 DEF CanRead, Cycling
<1>3. ASSUME Counted PROVE expired' \in BOOLEAN
  BY <1>3 DEF Counted, TypeInv, FlagType
<1> QED
  BY <1>1, <1>2, <1>3

\* What runs inside of a call, or of loop(), keeps the types.
LEMMA InCallType == TypeInv /\ InCall => TypeInv'
<1> SUFFICES ASSUME TypeInv, InCall PROVE TypeInv'
  OBVIOUS
<1> USE DEF TypeInv, session, control, broker, budget, calls, ghost
<1>1. CASE ReadRequest
  <2>1. Head(toClient) \in ClientPacket /\ Tail(toClient) \in Seq(ClientPacket)
    BY <1>1, ReadType DEF ReadRequest
  <2>2. FlagType'
    BY <1>1, ReadType DEF ReadRequest, FlagType
  <2>3. NetType'
    <3>1. CASE Answer(Head(toClient)) = <<>>
      BY <1>1, <2>1, <3>1 DEF ReadRequest, NetType
    <3>2. CASE Answer(Head(toClient)) # <<>>
      BY <1>1, <2>1, <3>2, AnswerType, WriteType DEF ReadRequest, NetType
    <3> QED
      BY <3>1, <3>2
  <2>4. ControlType'
    BY <1>1, ReadType DEF ReadRequest
  <2>5. SessionType' /\ OutType' /\ CallsType'
    BY <1>1, <2>1, CallbackType DEF ReadRequest, SessionType, OutType, CallsType
  <2> QED
    BY <2>2, <2>3, <2>4, <2>5
<1>2. CASE AnswerFails
  <2>1. handled' \subseteq Msgs
    BY <1>2, ReadType, CallbackType DEF AnswerFails
  <2> QED
    BY <1>2, <2>1, FailType DEF AnswerFails
<1>3. CASE ReadOther
  <2>1. FlagType'
    BY <1>3, ReadType DEF ReadOther, FlagType
  <2>2. NetType' /\ ControlType'
    BY <1>3, ReadType DEF ReadOther, NetType
  <2>3. SessionType' /\ OutType' /\ CallsType'
    BY <1>3 DEF ReadOther, SessionType, OutType, CallsType
  <2> QED
    BY <2>1, <2>2, <2>3
<1>4. CASE ReadNeedle
  <2>1. FlagType'
    BY <1>4 DEF ReadNeedle, Idle, FlagType
  <2>2. NetType' /\ ControlType'
    BY <1>4, ReadType, IdleType DEF ReadNeedle, NetType
  <2>3. CallsType'
    BY <1>4, SettleType DEF ReadNeedle, CallsType
  <2>4. SessionType' /\ OutType'
    BY <1>4 DEF ReadNeedle, SessionType, OutType
  <2> QED
    BY <2>1, <2>2, <2>3, <2>4
<1>5. CASE ReadRefusal
  <2>1. handled' \subseteq Msgs
    BY <1>5 DEF ReadRefusal, OutType
  <2> QED
    BY <1>5, <2>1, FailType DEF ReadRefusal
<1>6. CASE ReadFails
  <2>1. handled' \subseteq Msgs
    BY <1>6 DEF ReadFails, OutType
  <2> QED
    BY <1>6, <2>1, FailType DEF ReadFails
<1>7. CASE GiveUp
  <2>1. handled' \subseteq Msgs
    BY <1>7 DEF GiveUp, OutType
  <2> QED
    BY <1>7, <2>1, FailType DEF GiveUp
<1>8. CASE YieldEnds
  <2>1. FlagType'
    BY <1>8 DEF YieldEnds, net, FlagType
  <2>2. NetType'
    BY <1>8 DEF YieldEnds, net, NetType
  <2>3. ControlType'
    BY <1>8 DEF YieldEnds, ControlType
  <2>4. SessionType' /\ OutType' /\ CallsType'
    BY <1>8 DEF YieldEnds, SessionType, OutType, CallsType
  <2> QED
    BY <2>1, <2>2, <2>3, <2>4
<1>9. CASE NoPingDue
  <2>1. FlagType'
    BY <1>9 DEF NoPingDue, Idle, net, FlagType
  <2>2. NetType'
    BY <1>9 DEF NoPingDue, net, NetType
  <2>3. ControlType'
    BY <1>9, IdleType DEF NoPingDue
  <2>4. SessionType' /\ OutType' /\ CallsType'
    BY <1>9 DEF NoPingDue, SessionType, OutType, CallsType
  <2> QED
    BY <2>1, <2>2, <2>3, <2>4
<1>10. CASE Ping
  <2>1. FlagType'
    BY <1>10 DEF Ping, Idle, FlagType
  <2>2. NetType'
    BY <1>10, PlainPackets, WriteType DEF Ping, NetType, PacketTypes
  <2>3. ControlType'
    BY <1>10, IdleType DEF Ping
  <2>4. SessionType' /\ OutType' /\ CallsType'
    BY <1>10 DEF Ping, SessionType, OutType, CallsType
  <2> QED
    BY <2>1, <2>2, <2>3, <2>4
<1>11. CASE PingFails
  <2>1. handled' \subseteq Msgs
    BY <1>11 DEF PingFails, OutType
  <2> QED
    BY <1>11, <2>1, FailType DEF PingFails
<1>12. CASE PongTimeout
  <2>1. handled' \subseteq Msgs
    BY <1>12 DEF PongTimeout, OutType
  <2> QED
    BY <1>12, <2>1, FailType DEF PongTimeout
<1> QED
  BY <1>1, <1>2, <1>3, <1>4, <1>5, <1>6, <1>7, <1>8, <1>9, <1>10, <1>11, <1>12 DEF InCall

\* Timers, the network and a reset keep the types.
LEMMA WorldType == TypeInv /\ World => TypeInv'
<1> SUFFICES ASSUME TypeInv, World PROVE TypeInv'
  OBVIOUS
<1> USE DEF TypeInv, session, control, broker, budget, calls, ghost
<1>1. CASE TimerExpires
  <2>1. FlagType'
    BY <1>1 DEF TimerExpires, net, FlagType
  <2>2. NetType'
    BY <1>1 DEF TimerExpires, net, NetType
  <2>3. ControlType'
    BY <1>1 DEF TimerExpires, ControlType
  <2>4. SessionType' /\ OutType' /\ CallsType'
    BY <1>1 DEF TimerExpires, SessionType, OutType, CallsType
  <2> QED
    BY <2>1, <2>2, <2>3, <2>4
<1>2. CASE PingDue
  <2>1. FlagType'
    BY <1>2 DEF PingDue, net, FlagType
  <2>2. NetType'
    BY <1>2 DEF PingDue, net, NetType
  <2>3. ControlType'
    BY <1>2 DEF PingDue, ControlType
  <2>4. SessionType' /\ OutType' /\ CallsType'
    BY <1>2 DEF PingDue, SessionType, OutType, CallsType
  <2> QED
    BY <2>1, <2>2, <2>3, <2>4
<1>3. CASE Break
  <2>1. FlagType'
    BY <1>3 DEF Break, FlagType
  <2>2. NetType'
    BY <1>3, PrefixFacts DEF Break, NetType
  <2>3. ControlType'
    BY <1>3 DEF Break, ControlType
  <2>4. SessionType' /\ OutType' /\ CallsType'
    BY <1>3, LimitAssumption DEF Break, SessionType, OutType, CallsType
  <2> QED
    BY <2>1, <2>2, <2>3, <2>4
<1>4. CASE LinkDown
  <2>1. FlagType'
    BY <1>4 DEF LinkDown, FlagType
  <2>2. NetType'
    BY <1>4, EmptyQueue DEF LinkDown, NetType
  <2>3. ControlType'
    BY <1>4 DEF LinkDown, ControlType
  <2>4. SessionType' /\ OutType' /\ CallsType'
    BY <1>4 DEF LinkDown, SessionType, OutType, CallsType
  <2> QED
    BY <2>1, <2>2, <2>3, <2>4
<1>5. CASE Reboot
  <2>1. FlagType'
    BY <1>5 DEF Reboot, Close, Idle, FlagType
  <2>2. NetType' /\ ControlType'
    BY <1>5, EmptyQueue, IdleType DEF Reboot, Close, NetType
  <2>3. CallsType'
    BY <1>5, SettleType DEF Reboot, CallsType
  <2>4. SessionType' /\ OutType'
    BY <1>5, CallAssumption, LimitAssumption DEF Reboot, SessionType, OutType
  <2> QED
    BY <2>1, <2>2, <2>3, <2>4
<1> QED
  BY <1>1, <1>2, <1>3, <1>4, <1>5 DEF World
-----------------------------------------------------------------------------
\* What the broker answers with.
LEMMA AnswersType ==
    /\ \A n \in Nat : \A t \in {"PUBACK", "PUBREC", "PUBREL", "PUBCOMP", "SUBACK", "UNSUBACK"} :
         Ack(t, n) \in ClientPacket
    /\ Plain("CONNACK") \in ClientPacket /\ Plain("PINGRESP") \in ClientPacket
    /\ Packet("CONNACK", 0, 0, 5) \in ClientPacket
    /\ \A n \in Nat : Packet("SUBACK", 0, n, 128) \in ClientPacket
    /\ \A m \in Msgs : Packet("PUBLISH", MsgQos[m], m, m) \in ClientPacket
<1>1. ASSUME NEW m \in Msgs PROVE Packet("PUBLISH", MsgQos[m], m, m) \in ClientPacket
  BY MessageAssumption DEF Packet, ClientPacket, PacketType, PacketTypes
<1> QED
  BY <1>1, PlainPackets DEF PacketTypes

\* The broker sends one packet or none, and only to a client it still reaches.
Sends(p) == up /\ peer /\ toClient' = Append(toClient, p)

LEMMA BrokerSends ==
    ASSUME TypeInv, Broker
    PROVE  UNCHANGED toClient \/ \E p \in ClientPacket : Sends(p)
<1> USE DEF TypeInv
<1>r. ASSUME NEW p \in ClientPacket, Reply(p)
      PROVE  UNCHANGED toClient \/ \E q \in ClientPacket : Sends(q)
  BY <1>r DEF Reply, Reaches, Sends
<1>1. CASE BrokerOpen \/ TakePuback \/ HangUp
  BY <1>1 DEF BrokerOpen, TakePuback, HangUp
<1>2. CASE Accept \/ Refuse \/ TakePing
  BY <1>2, <1>r, AnswersType DEF Accept, Refuse, TakePing
<1>3. CASE TakePublish
  BY <1>3, <1>r, TakesType, AnswersType DEF TakePublish
<1>4. CASE TakePubrel \/ TakeSubscribe \/ TakeUnsubscribe \/ TakePubrec
  BY <1>4, <1>r, TakesType, AnswersType
  DEF TakePubrel, TakeSubscribe, TakeUnsubscribe, TakePubrec
<1>5. ASSUME NEW m \in Msgs, Send(m) \/ Release(m)
      PROVE  \E p \in ClientPacket : Sends(p)
  BY <1>5, AnswersType, MessageAssumption DEF Send, Release, Reaches, Sends
<1> QED
  BY <1>1, <1>2, <1>3, <1>4, <1>5 DEF Broker

\* What the broker does keeps the types.
LEMMA BrokerActionType == TypeInv /\ Broker => TypeInv'
<1> SUFFICES ASSUME TypeInv, Broker PROVE TypeInv'
  OBVIOUS
<1> USE DEF TypeInv
<1>0. /\ greeted \in BOOLEAN /\ subscribed \in BOOLEAN
      /\ stored \subseteq 1 .. MaxPacketId
      /\ out \in [Msgs -> {"new", "sent", "rec", "release", "done", "lost"}]
      /\ performed \in [Calls -> Nat]
      /\ toBroker \in Seq(BrokerPacket) /\ toClient \in Seq(ClientPacket)
  BY DEF FlagType, SessionType, OutType, CallsType, NetType
<1>p. /\ \A n \in Nat : \A t \in {"PUBACK", "PUBREC", "PUBREL", "PUBCOMP", "SUBACK", "UNSUBACK"} :
             Ack(t, n) \in ClientPacket
      /\ Plain("CONNACK") \in ClientPacket /\ Plain("PINGRESP") \in ClientPacket
      /\ Packet("CONNACK", 0, 0, 5) \in ClientPacket
      /\ \A n \in Nat : Packet("SUBACK", 0, n, 128) \in ClientPacket
  BY AnswersType
<1>h. ASSUME NEW t, Takes(t)
      PROVE  /\ toBroker' \in Seq(BrokerPacket) /\ Head(toBroker) \in BrokerPacket
             /\ Head(toBroker).type = t /\ Head(toBroker).id \in Nat /\ Head(toBroker).qos \in 0 .. 2
  BY <1>h, TakesType
<1>q. ASSUME NEW c, Performs(c) PROVE performed' \in [Calls -> Nat]
  <2>1. performed' = [d \in Calls |-> IF d = c THEN performed[d] + 1 ELSE performed[d]]
    BY <1>q, <1>0 DEF Performs
  <2>2. \A d \in Calls : performed[d] + 1 \in Nat /\ performed[d] \in Nat
    BY <1>0
  <2> QED
    BY <2>1, <2>2
<1>1. CASE BrokerOpen
  BY <1>1, <1>0, <1>h, BrokerStepType DEF BrokerOpen
<1>2. CASE Accept
  <2>1. toClient' \in Seq(ClientPacket)
    BY <1>2, <1>p, ReplyType DEF Accept
  <2>2. /\ stored' \subseteq 1 .. MaxPacketId /\ subscribed' \in BOOLEAN
        /\ out' \in [Msgs -> {"new", "sent", "rec", "release", "done", "lost"}]
    <3>1. CASE Clean
      BY <1>2, <1>0, <3>1 DEF Accept
    <3>2. CASE ~Clean
      BY <1>2, <1>0, <3>2 DEF Accept, Resumed
    <3> QED
      BY <3>1, <3>2
  <2> QED
    BY <1>2, <1>0, <1>h, <2>1, <2>2, BrokerStepType DEF Accept
<1>3. CASE Refuse
  <2>1. toClient' \in Seq(ClientPacket)
    BY <1>3, <1>p, ReplyType DEF Refuse
  <2> QED
    BY <1>3, <1>0, <1>h, <2>1, BrokerStepType DEF Refuse
<1>4. CASE HangUp
  <2>1. FlagType'
    BY <1>4 DEF HangUp, FlagType, session, control, ghost, calls
  <2>2. NetType'
    BY <1>4, TailFacts DEF HangUp, NetType
  <2>3. ControlType' /\ SessionType' /\ OutType' /\ CallsType'
    BY <1>4
    DEF HangUp, ControlType, SessionType, OutType, CallsType, session, control, budget, ghost, calls
  <2> QED
    BY <2>1, <2>2, <2>3
<1>5. CASE TakePublish
  <2> DEFINE p == Head(toBroker)
  <2>1. /\ toBroker' \in Seq(BrokerPacket) /\ p \in BrokerPacket
        /\ p.type = "PUBLISH" /\ p.id \in Nat /\ p.qos \in 0 .. 2
    BY <1>5, <1>h DEF TakePublish
  <2>2. toClient' \in Seq(ClientPacket)
    BY <1>0, <1>5, <1>p, <2>1, ReplyType DEF TakePublish
  <2>3. stored' \subseteq 1 .. MaxPacketId
    BY <1>0, <1>5, <2>1 DEF TakePublish, BrokerPacket
  <2>4. performed' \in [Calls -> Nat]
    BY <1>0, <1>5, <1>q DEF TakePublish
  <2> QED
    BY <1>0, <1>5, <2>1, <2>2, <2>3, <2>4, BrokerStepType DEF TakePublish
<1>6. CASE TakePubrel
  <2>1. toBroker' \in Seq(BrokerPacket) /\ toClient' \in Seq(ClientPacket)
    BY <1>6, <1>h, <1>p, ReplyType DEF TakePubrel
  <2> QED
    BY <1>0, <1>6, <2>1, BrokerStepType DEF TakePubrel
<1>7. CASE TakeSubscribe
  <2>1. toBroker' \in Seq(BrokerPacket) /\ toClient' \in Seq(ClientPacket)
    BY <1>7, <1>h, <1>p, ReplyType DEF TakeSubscribe
  <2>2. performed' \in [Calls -> Nat] /\ subscribed' \in BOOLEAN
    BY <1>0, <1>7, <1>q DEF TakeSubscribe
  <2> QED
    BY <1>0, <1>7, <2>1, <2>2, BrokerStepType DEF TakeSubscribe
<1>8. CASE TakeUnsubscribe
  <2>1. toBroker' \in Seq(BrokerPacket) /\ toClient' \in Seq(ClientPacket)
    BY <1>8, <1>h, <1>p, ReplyType DEF TakeUnsubscribe
  <2>2. performed' \in [Calls -> Nat]
    BY <1>8, <1>q DEF TakeUnsubscribe
  <2> QED
    BY <1>0, <1>8, <2>1, <2>2, BrokerStepType DEF TakeUnsubscribe
<1>9. CASE TakePing
  <2>1. toBroker' \in Seq(BrokerPacket) /\ toClient' \in Seq(ClientPacket)
    BY <1>9, <1>h, <1>p, ReplyType DEF TakePing
  <2> QED
    BY <1>0, <1>9, <2>1, BrokerStepType DEF TakePing, broker
<1>10. CASE TakePuback
  <2>1. toBroker' \in Seq(BrokerPacket)
    BY <1>10, <1>h DEF TakePuback
  <2> QED
    BY <1>0, <1>10, <2>1, BrokerStepType DEF TakePuback
<1>11. CASE TakePubrec
  <2>1. toBroker' \in Seq(BrokerPacket) /\ toClient' \in Seq(ClientPacket)
    BY <1>11, <1>h, <1>p, ReplyType DEF TakePubrec
  <2> QED
    BY <1>0, <1>11, <2>1, BrokerStepType DEF TakePubrec
<1>12. ASSUME NEW m \in Msgs, Send(m) PROVE TypeInv'
  <2>1. Packet("PUBLISH", MsgQos[m], m, m) \in ClientPacket
    BY AnswersType
  <2>2. toClient' \in Seq(ClientPacket)
    BY <1>0, <1>12, <2>1, AppendFacts DEF Send
  <2> QED
    BY <1>0, <1>12, <2>2, BrokerStepType DEF Send
<1>13. ASSUME NEW m \in Msgs, Release(m) PROVE TypeInv'
  <2>1. toClient' \in Seq(ClientPacket)
    BY <1>0, <1>13, <1>p, MessageAssumption, AppendFacts DEF Release
  <2> QED
    BY <1>0, <1>13, <2>1, BrokerStepType DEF Release
<1> QED
  BY <1>1, <1>2, <1>3, <1>4, <1>5, <1>6, <1>7, <1>8, <1>9, <1>10, <1>11, <1>12, <1>13 DEF Broker

LEMMA TypeStep == TypeInv /\ [Next]_vars => TypeInv'
<1>1. ASSUME TypeInv, UNCHANGED vars PROVE TypeInv'
  <2> USE DEF vars, net, session, control, broker, budget, calls, ghost
  <2>1. FlagType' /\ NetType' /\ ControlType'
    BY <1>1 DEF TypeInv, FlagType, NetType, ControlType
  <2>2. SessionType' /\ OutType' /\ CallsType'
    BY <1>1 DEF TypeInv, SessionType, OutType, CallsType
  <2> QED
    BY <2>1, <2>2 DEF TypeInv
<1> QED
  BY <1>1, ProgramType, InCallType, WorldType, BrokerActionType DEF Next

LEMMA AlwaysTyped == Spec => []TypeInv
  BY TypeInit, TypeStep, PTL DEF Spec

\* All variables of the client, the broker and the connection keep their types, for
\* any number of calls, messages, identifiers, broken links and reboots; in particular
\* lwmqtt_get_next_packet_id never gives an identifier outside of 1 .. MaxPacketId.
THEOREM TypeCorrect == Spec => []TypeOK
<1>1. TypeInv => TypeOK
  <2> SUFFICES ASSUME TypeInv PROVE TypeOK
    OBVIOUS
  <2>1. /\ BrokerPacket \subseteq PacketType /\ ClientPacket \subseteq PacketType
    BY DEF BrokerPacket, ClientPacket
  <2>2. toBroker \in Seq(PacketType) /\ toClient \in Seq(PacketType)
    BY <2>1, SeqMonotonic DEF TypeInv, NetType
  <2>3. FlagType
    BY DEF TypeInv
  <2> QED
    BY <2>2, <2>3
    DEF TypeInv, TypeOK, FlagType, ControlType, SessionType, OutType, CallsType, Operation
<1> QED
  BY <1>1, AlwaysTyped, PTL
-----------------------------------------------------------------------------
LEMMA InitiatedInit == Init => InitiatedInv
  BY DEF Init, InitiatedInv, Connected

LEMMA InitiatedStep ==
    ASSUME SkipMode = FALSE, TypeInv, InitiatedInv, [Next]_vars
    PROVE  InitiatedInv'
<1> USE DEF net, session, control, broker, budget, calls, ghost
<1>c. ASSUME up' = FALSE PROVE InitiatedInv'
  BY <1>c DEF InitiatedInv, Connected
<1>u. ASSUME UNCHANGED <<up, connectedFlag, initiated, pc, op>> PROVE InitiatedInv'
  BY <1>u DEF InitiatedInv, Connected
<1>f. ASSUME Fail PROVE InitiatedInv'
  BY <1>f, <1>c DEF Fail, Close
\* Not waiting, the connection is an initiated one, and it stays so.
<1>n. ASSUME pc # "wait", UNCHANGED <<up, connectedFlag, initiated>> PROVE InitiatedInv'
  BY <1>n DEF InitiatedInv, Connected
<1>1. CASE Program
  <2>1. CASE Connect
    BY <2>1 DEF Connect, InitiatedInv, NoOp
  <2>2. CASE ConnectRefused \/ ConnectUnwritten \/ Disconnect
    BY <2>2, <1>c DEF ConnectRefused, ConnectUnwritten, Disconnect, Close
  <2>3. CASE OpenNetwork \/ ConnectSkip
    BY <2>3 DEF OpenNetwork, ConnectSkip
  <2>4. ASSUME NEW k \in Kinds, Command(k) PROVE InitiatedInv'
    BY <2>4, <1>n DEF Command
  <2>5. ASSUME NEW k \in Kinds, CommandFails(k) PROVE InitiatedInv'
    BY <2>5, <1>c DEF CommandFails, Close
  <2>6. CASE Loop
    BY <2>6, <1>n DEF Loop
  <2> QED
    BY <1>1, <2>1, <2>2, <2>3, <2>4, <2>5, <2>6 DEF Program
<1>2. CASE InCall
  <2>1. CASE ReadRequest \/ ReadOther
    <3>1. CASE pc = "wait"
      BY <2>1, <3>1, <1>u DEF ReadRequest, ReadOther, Counted
    <3>2. CASE pc # "wait"
      BY <2>1, <3>2, <1>n DEF ReadRequest, ReadOther
    <3> QED
      BY <3>1, <3>2
  <2>2. CASE AnswerFails \/ ReadRefusal \/ ReadFails \/ GiveUp \/ PingFails \/ PongTimeout
    BY <2>2, <1>f DEF AnswerFails, ReadRefusal, ReadFails, GiveUp, PingFails, PongTimeout
  <2>3. CASE ReadNeedle
    BY <2>3 DEF ReadNeedle, InitiatedInv, Connected
  <2>4. CASE YieldEnds \/ NoPingDue \/ Ping
    BY <2>4, <1>n DEF YieldEnds, NoPingDue, Ping
  <2> QED
    BY <1>2, <2>1, <2>2, <2>3, <2>4 DEF InCall
<1>3. CASE World
  <2>1. CASE TimerExpires \/ PingDue \/ Break
    BY <2>1, <1>u DEF TimerExpires, PingDue, Break
  <2>2. CASE LinkDown \/ Reboot
    BY <2>2, <1>c DEF LinkDown, Reboot, Close
  <2> QED
    BY <1>3, <2>1, <2>2 DEF World
<1>4. CASE Broker
  BY <1>4, <1>u
  DEF Broker, BrokerRest, BrokerOpen, Accept, Refuse, HangUp, TakePublish, TakePubrel,
      TakeSubscribe, TakeUnsubscribe, TakePing, TakePuback, TakePubrec, Send, Release
<1>5. CASE UNCHANGED vars
  BY <1>5, <1>u DEF vars
<1> QED
  BY <1>1, <1>2, <1>3, <1>4, <1>5 DEF Next

\* connected() (MQTTClient.cpp:463-464) is true between two calls only on a
\* connection whose CONNECT the broker accepted, whatever links broke, calls failed
\* or resets came before; provided connect() opens the network itself.
THEOREM ConnectedMeansInitiated == SkipMode = FALSE => (Spec => []ConnectedIsInitiated)
<1> SUFFICES ASSUME SkipMode = FALSE PROVE Spec => []ConnectedIsInitiated
  OBVIOUS
<1>1. TypeInv /\ InitiatedInv /\ [Next]_vars => InitiatedInv'
  BY InitiatedStep
<1>2. InitiatedInv => ConnectedIsInitiated
  BY DEF InitiatedInv, ConnectedIsInitiated
<1> QED
  BY <1>1, <1>2, InitiatedInit, AlwaysTyped, PTL DEF Spec
-----------------------------------------------------------------------------
LEMMA PongInit == Init => PongInv
  BY DEF Init, PongInv, PongIsRead

\* A packet more for the client is behind those loop() reads.
LEMMA PongAppended ==
    ASSUME NetType, PongInv, NEW p \in ClientPacket, up, peer,
           toClient' = Append(toClient, p),
           UNCHANGED <<up, peer, pc, left, pongSeen, pong_pending>>, ControlType
    PROVE  PongInv'
<1>1. /\ Len(toClient) \in Nat /\ DOMAIN toClient = 1 .. Len(toClient)
      /\ Len(toClient') = Len(toClient) + 1 /\ DOMAIN toClient' = 1 .. Len(toClient) + 1
      /\ \A n \in 1 .. Len(toClient) : toClient'[n] = toClient[n]
  BY AppendFacts DEF NetType
<1>2. left \in Nat
  BY DEF ControlType
<1>3. PongIsRead'
  BY DEF PongInv, PongIsRead
<1>4. ASSUME pc = "yield" PROVE ~(left > Len(toClient))
  BY <1>4 DEF PongInv
<1>5. ASSUME pc = "yield", pongSeen, pong_pending
      PROVE  \E n \in DOMAIN toClient' : n <= left /\ toClient'[n].type = "PINGRESP"
  <2>1. PICK n \in DOMAIN toClient : n <= left /\ toClient[n].type = "PINGRESP"
    BY <1>4, <1>5 DEF PongInv
  <2> QED
    BY <1>1, <2>1
<1>6. ASSUME pc = "yield" PROVE ~(left > Len(toClient'))
  BY <1>1, <1>2, <1>4, <1>6
<1> QED
  BY <1>3, <1>5, <1>6 DEF PongInv

\* The packet read was the one loop() waits for, or the pong is still to be read.
LEMMA PongRead ==
    ASSUME TypeInv, PongInv, CanRead, Counted, toClient' = Tail(toClient),
           UNCHANGED <<up, peer, pongSeen>>,
           pong_pending' = (pong_pending /\ Head(toClient).type # "PINGRESP")
    PROVE  PongInv'
<1>1. /\ Head(toClient) = toClient[1]
      /\ Len(toClient) \in Nat \ {0} /\ DOMAIN toClient = 1 .. Len(toClient)
      /\ Len(toClient') = Len(toClient) - 1 /\ DOMAIN toClient' = 1 .. Len(toClient) - 1
      /\ \A n \in 1 .. Len(toClient) - 1 : toClient'[n] = toClient[n + 1]
  BY TailFacts DEF TypeInv, NetType, CanRead
<1>2. left \in Nat /\ (pc = "yield" => left > 0)
  BY DEF TypeInv, ControlType
<1>3. CASE pc = "wait"
  BY <1>3 DEF Counted, PongInv, PongIsRead
<1>4. ASSUME pc = "yield", pongSeen, pong_pending'
      PROVE  \/ left > Len(toClient)
             \/ \E n \in DOMAIN toClient' : n <= left - 1 /\ toClient'[n].type = "PINGRESP"
  <2>1. CASE \E n \in DOMAIN toClient : n <= left /\ toClient[n].type = "PINGRESP"
    <3>1. PICK n \in DOMAIN toClient : n <= left /\ toClient[n].type = "PINGRESP"
      BY <2>1
    <3>2. n # 1
      BY <1>1, <1>4, <3>1
    <3>3. n - 1 \in DOMAIN toClient' /\ n - 1 <= left - 1 /\ toClient'[n - 1] = toClient[n]
      BY <1>1, <1>2, <3>1, <3>2
    <3> QED
      BY <3>1, <3>3
  <2> QED
    BY <1>4, <2>1 DEF PongInv
<1>5. CASE pc = "yield" /\ left = 1
  <2>1. pc' = "ping"
    BY <1>5 DEF Counted
  <2>2. ~(pongSeen' /\ pong_pending')
    BY <1>1, <1>4, <1>5
  <2> QED
    BY <2>1, <2>2 DEF PongInv, PongIsRead
<1>6. CASE pc = "yield" /\ left # 1
  <2>1. pc' = "yield" /\ left' = left - 1
    BY <1>6 DEF Counted
  <2>2. left' > Len(toClient') => ~(up' /\ peer')
    BY <1>1, <1>2, <1>6, <2>1 DEF PongInv
  <2>3. pongSeen' /\ pong_pending' =>
          \/ left' > Len(toClient')
          \/ \E n \in DOMAIN toClient' : n <= left' /\ toClient'[n].type = "PINGRESP"
    BY <1>1, <1>2, <1>4, <1>6, <2>1
  <2> QED
    BY <2>1, <2>2, <2>3 DEF PongInv, PongIsRead
<1> QED
  BY <1>3, <1>5, <1>6 DEF CanRead, Cycling

LEMMA PongStep ==
    ASSUME TypeInv, PongInv, [Next]_vars
    PROVE  PongInv'
<1> USE DEF net, session, control, broker, budget, calls, ghost
<1>a. ASSUME pc' \in {"idle", "wait"} PROVE PongInv'
  BY <1>a DEF PongInv, PongIsRead
<1>u. ASSUME UNCHANGED <<up, peer, toClient, pc, left, pongSeen, pong_pending>> PROVE PongInv'
  BY <1>u DEF PongInv, PongIsRead
<1>1. CASE Program
  <2>1. CASE Loop
    <3>1. Len(toClient) \in Nat /\ DOMAIN toClient = 1 .. Len(toClient)
      BY LenProperties DEF TypeInv, NetType
    <3>2. CASE toClient = <<>>
      <4>1. ~pongSeen'
        BY <2>1, <3>1, <3>2 DEF Loop
      <4> QED
        BY <2>1, <3>2, <4>1 DEF Loop, PongInv, PongIsRead
    <3>3. CASE toClient # <<>>
      <4>1. pc' = "yield" /\ left' = Len(toClient) /\ UNCHANGED toClient
        BY <2>1, <3>3 DEF Loop
      <4>2. pongSeen' => \E n \in DOMAIN toClient' : n <= left' /\ toClient'[n].type = "PINGRESP"
        <5>1. \A n \in DOMAIN toClient : n <= left'
          BY <3>1, <4>1
        <5>2. pongSeen' => \E n \in DOMAIN toClient : toClient[n].type = "PINGRESP"
          BY <2>1 DEF Loop
        <5> QED
          BY <4>1, <5>1, <5>2
      <4>3. ~(left' > Len(toClient'))
        BY <3>1, <4>1
      <4> QED
        BY <4>1, <4>2, <4>3 DEF PongInv, PongIsRead
    <3> QED
      BY <3>2, <3>3
  <2>2. CASE Program /\ ~Loop
    BY <2>2, <1>a
    DEF Program, Connect, ConnectRefused, ConnectUnwritten, OpenNetwork, ConnectSkip, Command,
        CommandFails, Disconnect, Idle
  <2> QED
    BY <1>1, <2>1, <2>2
<1>2. CASE InCall
  <2>1. CASE ReadRequest
    <3>1. Head(toClient).type # "PINGRESP"
      BY <2>1 DEF ReadRequest
    <3>2. pong_pending' = (pong_pending /\ Head(toClient).type # "PINGRESP")
      BY <2>1, <3>1 DEF ReadRequest, TypeInv, FlagType
    <3> QED
      BY <2>1, <3>2, PongRead DEF ReadRequest
  <2>2. CASE ReadOther
    BY <2>2, PongRead DEF ReadOther
  <2>3. CASE ReadNeedle \/ NoPingDue \/ Ping
    BY <2>3, <1>a DEF ReadNeedle, NoPingDue, Ping, Idle
  <2>4. CASE AnswerFails \/ ReadRefusal \/ ReadFails \/ GiveUp \/ PingFails \/ PongTimeout
    BY <2>4, <1>a
    DEF AnswerFails, ReadRefusal, ReadFails, GiveUp, PingFails, PongTimeout, Fail, Idle
  <2>5. CASE YieldEnds
    BY <2>5 DEF YieldEnds, PongInv, PongIsRead
  <2> QED
    BY <1>2, <2>1, <2>2, <2>3, <2>4, <2>5 DEF InCall
<1>3. CASE World
  <2>1. CASE TimerExpires \/ PingDue
    BY <2>1, <1>u DEF TimerExpires, PingDue
  <2>2. CASE Break
    <3>1. /\ Len(toClient) \in Nat /\ DOMAIN toClient = 1 .. Len(toClient)
          /\ Len(toClient') \in 0 .. Len(toClient) /\ DOMAIN toClient' = 1 .. Len(toClient')
          /\ \A n \in 1 .. Len(toClient') : toClient'[n] = toClient[n]
      BY <2>2, PrefixFacts DEF Break, TypeInv, NetType
    <3>2. left \in Nat /\ UNCHANGED <<pc, left, pongSeen, pong_pending>> /\ ~peer'
      BY <2>2 DEF Break, TypeInv, ControlType
    <3>3. ASSUME pc = "yield", pongSeen, pong_pending, ~(left > Len(toClient'))
          PROVE  \E n \in DOMAIN toClient' : n <= left /\ toClient'[n].type = "PINGRESP"
      <4>1. PICK n \in DOMAIN toClient : n <= left /\ toClient[n].type = "PINGRESP"
        BY <3>1, <3>2, <3>3 DEF PongInv
      <4> QED
        BY <3>1, <3>2, <3>3, <4>1
    <3> QED
      BY <3>2, <3>3 DEF PongInv, PongIsRead
  <2>3. CASE LinkDown
    <3>1. Len(toClient') = 0 /\ left \in Nat /\ (pc = "yield" => left > 0)
      BY <2>3 DEF LinkDown, TypeInv, ControlType
    <3> QED
      BY <2>3, <3>1 DEF LinkDown, PongInv, PongIsRead
  <2>4. CASE Reboot
    BY <2>4, <1>a DEF Reboot, Idle
  <2> QED
    BY <1>3, <2>1, <2>2, <2>3, <2>4 DEF World
<1>4. CASE Broker
  <2>1. CASE HangUp
    BY <2>1 DEF HangUp, PongInv, PongIsRead
  <2>2. CASE ~HangUp
    <3>1. UNCHANGED <<up, peer, pc, left, pongSeen, pong_pending>>
      BY <1>4, <2>2
      DEF Broker, BrokerRest, BrokerOpen, Accept, Refuse, TakePublish, TakePubrel, TakeSubscribe,
          TakeUnsubscribe, TakePing, TakePuback, TakePubrec, Send, Release
    <3>2. UNCHANGED toClient \/ \E p \in ClientPacket : Sends(p)
      BY <1>4, BrokerSends
    <3> QED
      BY <1>u, <3>1, <3>2, PongAppended DEF TypeInv, Sends
  <2> QED
    BY <2>1, <2>2
<1>5. CASE UNCHANGED vars
  BY <1>5, <1>u DEF vars
<1> QED
  BY <1>1, <1>2, <1>3, <1>4, <1>5 DEF Next

\* loop() never gives up a connection for want of a pong that was already there when
\* it was called (MQTTClient.cpp:436-451), whatever else came with it, and however
\* many packets others send: what was there is read before the keep alive is looked at.
THEOREM NoPongOverlooked == Spec => []PongIsRead
<1>1. TypeInv /\ PongInv /\ [Next]_vars => PongInv'
  BY PongStep
<1>2. PongInv => PongIsRead
  BY DEF PongInv
<1> QED
  BY <1>1, <1>2, PongInit, AlwaysTyped, PTL DEF Spec
-----------------------------------------------------------------------------
LEMMA HandledInit == Init => HandledInv
<1> SUFFICES ASSUME Init PROVE HandledInv
  OBVIOUS
<1>1. Content(<<>>) = {}
  BY DEF Content
<1> QED
  BY <1>1 DEF Init, HandledInv

\* No step takes a message from the program again; what a step adds to the queues or
\* changes in the broker's record has to be handled.
LEMMA HandledKept ==
    ASSUME HandledInv, handled \subseteq handled',
           \A p \in Content(toBroker') : p \in Content(toBroker) \/ (Confirms(p) => p.id \in handled'),
           \A p \in Content(toClient') : p \in Content(toClient) \/ (p.type = "PUBREL" => p.id \in handled'),
           \A m \in Msgs : out'[m] \in {"rec", "release", "done"} =>
             \/ out'[m] = out[m]
             \/ out[m] = "rec" /\ out'[m] = "release"
             \/ out'[m] = "done" /\ MsgQos[m] = 0
             \/ m \in handled'
    PROVE  HandledInv'
<1>1. \A p \in Content(toBroker') : Confirms(p) => p.id \in handled'
  BY DEF HandledInv
<1>2. \A p \in Content(toClient') : p.type = "PUBREL" => p.id \in handled'
  BY DEF HandledInv
<1>3. ASSUME NEW m \in Msgs,
             out'[m] \in {"rec", "release"} \/ (out'[m] = "done" /\ MsgQos[m] > 0)
      PROVE  m \in handled'
  <2>1. MsgQos[m] > 0 => MsgQos[m] # 0
    BY MessageAssumption
  <2> QED
    BY <1>3, <2>1 DEF HandledInv
<1> QED
  BY <1>1, <1>2, <1>3 DEF HandledInv

\* The same, where nothing the broker might confirm or release is added.
LEMMA HandledQuiet ==
    ASSUME HandledInv, handled \subseteq handled', UNCHANGED out,
           \A p \in Content(toBroker') : p \in Content(toBroker) \/ ~Confirms(p),
           Content(toClient') \subseteq Content(toClient)
    PROVE  HandledInv'
  BY HandledKept

LEMMA WriteContent ==
    ASSUME NetType, NEW p \in BrokerPacket, Write(p)
    PROVE  Content(toBroker') \subseteq Content(toBroker) \cup {p}
  BY AppendFacts DEF NetType, Write

LEMMA EmptyContent == Content(<<>>) = {}
  BY DEF Content

LEMMA HandledProgram == TypeInv /\ HandledInv /\ Program => HandledInv'
<1> SUFFICES ASSUME TypeInv, HandledInv, Program PROVE HandledInv'
  OBVIOUS
<1> USE DEF TypeInv, net, session, control, broker, budget, calls, ghost
<1>0. /\ Plain("OPEN") \in BrokerPacket /\ Plain("CONNECT") \in BrokerPacket
      /\ Plain("DISCONNECT") \in BrokerPacket
      /\ ~Confirms(Plain("OPEN")) /\ ~Confirms(Plain("CONNECT")) /\ ~Confirms(Plain("DISCONNECT"))
  BY PlainPackets DEF PacketTypes, Confirms, Plain, Packet
<1>1. CASE Connect
  <2>1. Content(toBroker') = Content(toBroker) \cup {Plain("OPEN"), Plain("CONNECT")}
    BY <1>0, <1>1, OpenFacts DEF Connect, NetType
  <2> QED
    BY <1>0, <1>1, <2>1, EmptyContent, HandledQuiet DEF Connect
<1>2. CASE ConnectRefused
  BY <1>2, EmptyContent, HandledQuiet DEF ConnectRefused
<1>3. CASE ConnectUnwritten
  <2>1. Content(Append(toBroker, Plain("OPEN"))) = Content(toBroker) \cup {Plain("OPEN")}
    BY <1>0, AppendFacts DEF NetType
  <2> QED
    BY <1>0, <1>3, <2>1, EmptyContent, HandledQuiet DEF ConnectUnwritten, Close
<1>4. CASE OpenNetwork
  <2>1. Content(toBroker') = Content(toBroker) \cup {Plain("OPEN")}
    BY <1>0, <1>4, AppendFacts DEF OpenNetwork, NetType
  <2> QED
    BY <1>0, <1>4, <2>1, EmptyContent, HandledQuiet DEF OpenNetwork
<1>5. CASE ConnectSkip
  BY <1>0, <1>5, WriteContent, HandledQuiet DEF ConnectSkip
<1>6. ASSUME NEW k \in Kinds, Command(k) PROVE HandledInv'
  <2> DEFINE n == IF k = "qos0" THEN 0 ELSE NextId
             p == Request(k, n, NextCall)
  <2>1. NextCall \in Calls /\ n \in 0 .. MaxPacketId /\ (k # "qos0" => n # 0) /\ k \in AllKinds
    BY <1>6, NextCallIsLeast, NextIdType, CallAssumption DEF Command
  <2>2. p \in BrokerPacket
    BY <2>1, RequestType
  <2>3. ~Confirms(p)
    BY <2>1 DEF Confirms, Request, Packet, AllKinds
  <2>4. Write(p) /\ UNCHANGED <<handled, out, toClient>>
    BY <1>6 DEF Command
  <2> QED
    BY <2>2, <2>3, <2>4, WriteContent, HandledQuiet
<1>7. ASSUME NEW k \in Kinds, CommandFails(k) PROVE HandledInv'
  BY <1>7, EmptyContent, HandledQuiet DEF CommandFails, Close
<1>8. CASE Disconnect
  BY <1>0, <1>8, WriteContent, EmptyContent, HandledQuiet DEF Disconnect, Close
<1>9. CASE Loop
  BY <1>9, HandledQuiet DEF Loop
<1> QED
  BY <1>1, <1>2, <1>3, <1>4, <1>5, <1>6, <1>7, <1>8, <1>9 DEF Program

\* The callback runs before the acknowledgement is written.
LEMMA AnswerConfirms ==
    ASSUME TypeInv, HandledInv, CanRead, Callback(Head(toClient))
    PROVE  /\ handled \subseteq handled'
           /\ Answer(Head(toClient)) # <<>> /\ Confirms(Head(Answer(Head(toClient)))) =>
                Head(Answer(Head(toClient))).id \in handled'
<1> DEFINE p == Head(toClient)
<1>1. p \in ClientPacket /\ p \in Content(toClient)
  BY TailFacts DEF TypeInv, NetType, CanRead
<1>2. p.type = "PUBLISH" => p.id \in handled'
  BY <1>1 DEF Callback, ClientPacket
<1>3. p.type = "PUBREL" => p.id \in handled'
  BY <1>1 DEF Callback, HandledInv
<1> QED
  BY <1>2, <1>3 DEF Answer, Ack, Packet, Confirms, Callback

LEMMA HandledInCall == TypeInv /\ HandledInv /\ InCall => HandledInv'
<1> SUFFICES ASSUME TypeInv, HandledInv, InCall PROVE HandledInv'
  OBVIOUS
<1> USE DEF TypeInv, net, session, control, broker, budget, calls, ghost
<1>1. CASE ReadRequest
  <2> DEFINE p == Head(toClient)
  <2>1. Content(toClient') \subseteq Content(toClient) /\ p \in ClientPacket
    BY <1>1, TailFacts DEF ReadRequest, CanRead, NetType
  <2>2. handled \subseteq handled' /\ UNCHANGED out
    BY <1>1, AnswerConfirms DEF ReadRequest
  <2>3. CASE Answer(p) = <<>>
    BY <1>1, <2>1, <2>2, <2>3, HandledQuiet DEF ReadRequest
  <2>4. CASE Answer(p) # <<>>
    <3> DEFINE a == Head(Answer(p))
    <3>1. a \in BrokerPacket /\ Write(a)
      BY <1>1, <2>1, <2>4, AnswerType DEF ReadRequest
    <3>2. Content(toBroker') \subseteq Content(toBroker) \cup {a}
      BY <3>1, WriteContent
    <3>3. Confirms(a) => a.id \in handled'
      BY <1>1, <2>4, AnswerConfirms DEF ReadRequest
    <3> HIDE DEF a
    <3> QED
      BY <2>1, <2>2, <3>2, <3>3, HandledKept
  <2> QED
    BY <2>3, <2>4
<1>2. CASE AnswerFails
  BY <1>2, AnswerConfirms, EmptyContent, HandledQuiet DEF AnswerFails, Fail, Close
<1>3. CASE ReadOther \/ ReadNeedle
  <2>1. Content(toClient') \subseteq Content(toClient)
    BY <1>3, TailFacts DEF ReadOther, ReadNeedle, CanRead, NetType
  <2> QED
    BY <1>3, <2>1, HandledQuiet DEF ReadOther, ReadNeedle
<1>4. CASE ReadRefusal \/ ReadFails \/ GiveUp \/ PingFails \/ PongTimeout
  BY <1>4, EmptyContent, HandledQuiet
  DEF ReadRefusal, ReadFails, GiveUp, PingFails, PongTimeout, Fail, Close
<1>5. CASE YieldEnds \/ NoPingDue
  BY <1>5, HandledQuiet DEF YieldEnds, NoPingDue
<1>6. CASE Ping
  <2>1. Plain("PINGREQ") \in BrokerPacket /\ ~Confirms(Plain("PINGREQ"))
    BY PlainPackets DEF PacketTypes, Confirms, Plain, Packet
  <2> QED
    BY <1>6, <2>1, WriteContent, HandledQuiet DEF Ping
<1> QED
  BY <1>1, <1>2, <1>3, <1>4, <1>5, <1>6 DEF InCall

LEMMA HandledWorld == TypeInv /\ HandledInv /\ World => HandledInv'
<1> SUFFICES ASSUME TypeInv, HandledInv, World PROVE HandledInv'
  OBVIOUS
<1> USE DEF TypeInv, net, session, control, broker, budget, calls, ghost
<1>1. CASE TimerExpires \/ PingDue
  BY <1>1, HandledQuiet DEF TimerExpires, PingDue
<1>2. CASE Break
  <2>1. Content(toBroker') \subseteq Content(toBroker) /\ Content(toClient') \subseteq Content(toClient)
    BY <1>2, PrefixFacts DEF Break, NetType
  <2> QED
    BY <1>2, <2>1, HandledQuiet DEF Break
<1>3. CASE LinkDown \/ Reboot
  BY <1>3, EmptyContent, HandledQuiet DEF LinkDown, Reboot, Close
<1> QED
  BY <1>1, <1>2, <1>3 DEF World

LEMMA HandledBroker == TypeInv /\ HandledInv /\ Broker => HandledInv'
<1> SUFFICES ASSUME TypeInv, HandledInv, Broker PROVE HandledInv'
  OBVIOUS
<1> USE DEF TypeInv
<1>o. out \in [Msgs -> {"new", "sent", "rec", "release", "done", "lost"}] /\ handled \subseteq Msgs
  BY DEF OutType
<1>h. ASSUME NEW t, Takes(t)
      PROVE  /\ Content(toBroker') \subseteq Content(toBroker)
             /\ Head(toBroker) \in Content(toBroker) /\ Head(toBroker).type = t
  BY <1>h, TailFacts DEF Takes, NetType
<1>r. ASSUME NEW p \in ClientPacket, Reply(p)
      PROVE  Content(toClient') \subseteq Content(toClient) \cup {p}
  BY <1>r, AppendFacts DEF Reply, NetType
\* An answer that releases nothing.
<1>q. ASSUME NEW p \in ClientPacket, Reply(p), p.type # "PUBREL"
      PROVE  \A q \in Content(toClient') : q \in Content(toClient) \/ q.type # "PUBREL"
  BY <1>q, <1>r
<1>1. CASE BrokerOpen
  BY <1>1, <1>h, HandledQuiet DEF BrokerOpen, BrokerRest
<1>2. CASE Accept
  <2>1. \A q \in Content(toClient') : q \in Content(toClient) \/ q.type # "PUBREL"
    BY <1>2, <1>q, AnswersType DEF Accept, Plain, Packet
  <2>2. \A m \in Msgs : out'[m] \in {"rec", "release", "done"} =>
             out'[m] = out[m] \/ (out[m] = "rec" /\ out'[m] = "release")
    <3>1. CASE Clean
      BY <1>2, <1>o, <3>1 DEF Accept
    <3>2. CASE ~Clean
      BY <1>2, <1>o, <3>2 DEF Accept, Resumed
    <3> QED
      BY <3>1, <3>2
  <2> QED
    BY <1>2, <1>h, <2>1, <2>2, HandledKept DEF Accept, BrokerRest
<1>3. CASE Refuse
  <2>1. \A q \in Content(toClient') : q \in Content(toClient) \/ q.type # "PUBREL"
    BY <1>3, <1>q, AnswersType DEF Refuse, Packet
  <2> QED
    BY <1>3, <1>h, <2>1, HandledKept DEF Refuse, BrokerRest
<1>4. CASE HangUp
  <2>1. Content(toBroker') \subseteq Content(toBroker)
    BY <1>4, TailFacts DEF HangUp, NetType
  <2> QED
    BY <1>4, <2>1, HandledQuiet DEF HangUp, ghost
<1>5. CASE TakePublish
  <2>1. \A q \in Content(toClient') : q \in Content(toClient) \/ q.type # "PUBREL"
    <3>1. CASE Head(toBroker).qos = 0
      BY <1>5, <3>1 DEF TakePublish
    <3>2. CASE Head(toBroker).qos # 0
      BY <1>5, <3>2, <1>q, TakesType, AnswersType DEF TakePublish, Ack, Packet
    <3> QED
      BY <3>1, <3>2
  <2> QED
    BY <1>5, <1>h, <2>1, HandledKept DEF TakePublish, BrokerRest
<1>6. CASE TakePubrel \/ TakeSubscribe \/ TakeUnsubscribe \/ TakePing
  <2>1. \A q \in Content(toClient') : q \in Content(toClient) \/ q.type # "PUBREL"
    BY <1>6, <1>q, TakesType, AnswersType
    DEF TakePubrel, TakeSubscribe, TakeUnsubscribe, TakePing, Ack, Plain, Packet
  <2> QED
    BY <1>6, <1>h, <2>1, HandledKept
    DEF TakePubrel, TakeSubscribe, TakeUnsubscribe, TakePing, BrokerRest, broker
<1>7. CASE TakePuback
  <2> DEFINE p == Head(toBroker)
  <2>1. p \in Content(toBroker) /\ Confirms(p) /\ Content(toBroker') \subseteq Content(toBroker)
    BY <1>7, <1>h DEF TakePuback, Confirms
  <2>2. p.id \in handled
    BY <2>1 DEF HandledInv
  <2>3. \A m \in Msgs : out'[m] = out[m] \/ m = p.id
    BY <1>7, <1>o DEF TakePuback
  <2> QED
    BY <1>7, <2>1, <2>2, <2>3, HandledKept DEF TakePuback, BrokerRest
<1>8. CASE TakePubrec
  <2> DEFINE p == Head(toBroker)
  <2>1. p \in Content(toBroker) /\ Confirms(p) /\ Content(toBroker') \subseteq Content(toBroker)
    BY <1>8, <1>h DEF TakePubrec, Confirms
  <2>2. p.id \in handled
    BY <2>1 DEF HandledInv
  <2>3. \A m \in Msgs : out'[m] = out[m] \/ m = p.id
    BY <1>8, <1>o DEF TakePubrec
  <2>4. Content(toClient') \subseteq Content(toClient) \cup {Ack("PUBREL", p.id)}
    BY <1>8, <1>r, TakesType, AnswersType DEF TakePubrec
  <2>5. Ack("PUBREL", p.id).id = p.id
    BY DEF Ack, Packet
  <2> QED
    BY <1>8, <2>1, <2>2, <2>3, <2>4, <2>5, HandledKept DEF TakePubrec, BrokerRest
<1>9. ASSUME NEW m \in Msgs, Send(m) PROVE HandledInv'
  <2> DEFINE p == Packet("PUBLISH", MsgQos[m], m, m)
  <2>1. p \in ClientPacket /\ p.type # "PUBREL"
    BY AnswersType DEF Packet
  <2>2. Content(toClient') = Content(toClient) \cup {p}
    BY <1>9, <2>1, AppendFacts DEF Send, NetType
  <2>3. \A d \in Msgs : out'[d] = out[d] \/ (d = m /\ (out'[d] = "sent" \/ (out'[d] = "done" /\ MsgQos[d] = 0)))
    BY <1>9, <1>o DEF Send
  <2> QED
    BY <1>9, <2>1, <2>2, <2>3, HandledKept DEF Send, BrokerRest
<1>10. ASSUME NEW m \in Msgs, Release(m) PROVE HandledInv'
  <2> DEFINE p == Ack("PUBREL", m)
  <2>1. p \in ClientPacket /\ p.id = m
    BY AnswersType, MessageAssumption DEF Ack, Packet
  <2>2. Content(toClient') = Content(toClient) \cup {p}
    BY <1>10, <2>1, AppendFacts DEF Release, NetType
  <2>3. m \in handled
    BY <1>10 DEF Release, HandledInv
  <2>4. \A d \in Msgs : out'[d] = out[d] \/ d = m
    BY <1>10, <1>o DEF Release
  <2> QED
    BY <1>10, <2>1, <2>2, <2>3, <2>4, HandledKept DEF Release, BrokerRest
<1> QED
  BY <1>1, <1>2, <1>3, <1>4, <1>5, <1>6, <1>7, <1>8, <1>9, <1>10 DEF Broker

\* A message of QoS 1 or 2 the broker will not send again has reached the program's
\* callback (client.c:271-297): of any messages, whatever links broke, acknowledgements
\* were lost and sessions were cleaned or resumed in between.
THEOREM NothingConfirmedUnseen == Spec => []AckedIsHandled
<1>1. TypeInv /\ HandledInv /\ [Next]_vars => HandledInv'
  <2>1. ASSUME HandledInv, UNCHANGED vars PROVE HandledInv'
    BY <2>1, HandledQuiet DEF vars, net, broker, ghost
  <2> QED
    BY <2>1, HandledProgram, HandledInCall, HandledWorld, HandledBroker DEF Next
<1>2. HandledInv => AckedIsHandled
  BY DEF HandledInv, AckedIsHandled
<1> QED
  BY <1>1, <1>2, HandledInit, AlwaysTyped, PTL DEF Spec

-----------------------------------------------------------------------------
(* The acknowledgement a call waits for is its own, and what MqttCalls     *)
(* promises of the calls follows.                                          *)
(*                                                                         *)
(* TokenInv: at most one packet under way asks for an acknowledgement or   *)
(* is one, and it belongs to the call that waits.  CallInv: what is known  *)
(* of a call agrees with where its packets are.  StoredInv: the            *)
(* identifiers that the broker holds are of no call still to be performed. *)
(* DoneInv: an acknowledgement under way means that it was performed.      *)

\* The packets that ask for an acknowledgement, and the acknowledgements.
IsRequest(p) == \/ p.type \in {"CONNECT", "SUBSCRIBE", "UNSUBSCRIBE", "PUBREL"}
                \/ p.type = "PUBLISH" /\ p.qos > 0
IsReply(p)   == p.type \in {"CONNACK", "PUBACK", "PUBREC", "PUBCOMP", "SUBACK", "UNSUBACK"}

\* Those that belong to a call that waits for a packet of type t.
RequestFor(t, p) == \/ t = "CONNACK"  /\ p.type = "CONNECT"
                    \/ t = "PUBACK"   /\ p.type = "PUBLISH" /\ p.qos = 1
                    \/ t = "PUBCOMP"  /\ p.type = "PUBLISH" /\ p.qos = 2
                    \/ t = "PUBCOMP"  /\ p.type = "PUBREL"
                    \/ t = "SUBACK"   /\ p.type = "SUBSCRIBE"
                    \/ t = "UNSUBACK" /\ p.type = "UNSUBSCRIBE"
ReplyFor(t, p)   == p.type = t \/ (t = "PUBCOMP" /\ p.type = "PUBREC")

Needles == {"CONNACK", "PUBACK", "PUBCOMP", "SUBACK", "UNSUBACK"}

\* The broker takes the n-th packet for one of the connection the client is on.
Current(n) == up /\ peer /\ \A k \in DOMAIN toBroker : k >= n => toBroker[k].type # "OPEN"

Asking(n)    == n \in DOMAIN toBroker /\ IsRequest(toBroker[n]) /\ Current(n)
Answering(n) == n \in DOMAIN toClient /\ IsReply(toClient[n])

\* The packet is one of the call that waits.
Mine(p) == pc = "wait" /\ p.id = op.id

\* What is under way on this connection is the request of the call that waits or the
\* acknowledgement of it, once; nothing is left over from an earlier call.
RequestIsMine == \A n \in Nat : Asking(n) => Mine(toBroker[n]) /\ RequestFor(op.needle, toBroker[n])
ReplyIsMine   == \A n \in Nat : Answering(n) => Mine(toClient[n]) /\ ReplyFor(op.needle, toClient[n])
OneUnderWay   == /\ \A m, n \in Nat : Asking(m) /\ Asking(n) => m = n
                 /\ \A m, n \in Nat : Answering(m) /\ Answering(n) => m = n
                 /\ \A m, n \in Nat : ~(Asking(m) /\ Answering(n))

\* connect() has no number and its packets no identifier.
OpInv == pc = "wait" => /\ op.needle \in Needles
                        /\ op.needle = "CONNACK" => op.id = 0 /\ op.call = 0
                        /\ op.needle # "CONNACK" => op.call \in Calls

ClosedIsEmpty == ~up => toClient = <<>>

TokenInv == RequestIsMine /\ ReplyIsMine /\ OneUnderWay /\ OpInv /\ ClosedIsEmpty

LEMMA TokenInit == Init => TokenInv
<1> SUFFICES ASSUME Init PROVE TokenInv
  OBVIOUS
<1>1. DOMAIN toBroker = {} /\ DOMAIN toClient = {} /\ toClient = <<>> /\ pc = "idle"
  BY DEF Init
<1> QED
  BY <1>1
  DEF TokenInv, RequestIsMine, ReplyIsMine, OneUnderWay, OpInv, ClosedIsEmpty, Asking, Answering
-----------------------------------------------------------------------------
\* A step adds no request, no acknowledgement: those there are were there, i, j
\* places further on.
OldRequests(i) == \A n \in Nat : Asking(n)' => n + i \in Nat /\ Asking(n + i) /\ toBroker'[n] = toBroker[n + i]
OldReplies(j)  == \A n \in Nat : Answering(n)' => n + j \in Nat /\ Answering(n + j) /\ toClient'[n] = toClient[n + j]

LEMMA SameRequests ==
    ASSUME UNCHANGED toBroker, up' => up, peer' => peer
    PROVE  OldRequests(0)
  BY DEF OldRequests, Asking, Current

LEMMA NoRequests ==
    ASSUME ~up' \/ ~peer'
    PROVE  OldRequests(0)
  BY DEF OldRequests, Asking, Current

LEMMA TailRequests ==
    ASSUME NetType, toBroker # <<>>, toBroker' = Tail(toBroker), up' => up, peer' => peer
    PROVE  OldRequests(1)
<1>1. /\ Len(toBroker) \in Nat \ {0} /\ DOMAIN toBroker = 1 .. Len(toBroker)
      /\ DOMAIN toBroker' = 1 .. Len(toBroker) - 1
      /\ \A n \in 1 .. Len(toBroker) - 1 : toBroker'[n] = toBroker[n + 1]
  BY TailFacts DEF NetType
<1>2. SUFFICES ASSUME NEW n \in Nat, Asking(n)'
               PROVE  n + 1 \in Nat /\ Asking(n + 1) /\ toBroker'[n] = toBroker[n + 1]
  BY DEF OldRequests
<1>3. n + 1 \in Nat /\ Asking(n + 1) /\ toBroker'[n] = toBroker[n + 1]
  <2>1. n \in 1 .. Len(toBroker) - 1 /\ up' /\ peer' /\ IsRequest(toBroker'[n])
    BY <1>1, <1>2 DEF Asking, Current
  <2>2. \A k \in DOMAIN toBroker' : k >= n => toBroker'[k].type # "OPEN"
    BY <1>2 DEF Asking, Current
  <2>3. ASSUME NEW k \in DOMAIN toBroker, k >= n + 1
        PROVE  toBroker[k].type # "OPEN"
    <3>1. k - 1 \in DOMAIN toBroker' /\ k - 1 >= n /\ toBroker'[k - 1] = toBroker[k]
      BY <1>1, <2>1, <2>3
    <3> QED
      BY <2>2, <3>1
  <2>4. toBroker'[n] = toBroker[n + 1] /\ n + 1 \in DOMAIN toBroker
    BY <1>1, <2>1
  <2> QED
    BY <2>1, <2>3, <2>4 DEF Asking, Current
<1> QED
  BY <1>3

LEMMA WriteRequests ==
    ASSUME NetType, UNCHANGED <<up, peer>>, NEW p \in BrokerPacket, Write(p)
    PROVE  /\ ~IsRequest(p) => OldRequests(0)
           /\ \A n \in Nat : Asking(n)' =>
                \/ Asking(n) /\ toBroker'[n] = toBroker[n]
                \/ n = Len(toBroker) + 1 /\ toBroker'[n] = p
<1>1. ASSUME NEW n \in Nat, Asking(n)'
      PROVE  \/ Asking(n) /\ toBroker'[n] = toBroker[n]
             \/ n = Len(toBroker) + 1 /\ toBroker'[n] = p
  <2>1. CASE toBroker' = toBroker
    BY <1>1, <2>1 DEF Asking, Current
  <2>2. CASE toBroker' = Append(toBroker, p)
    <3>1. /\ Len(toBroker) \in Nat /\ DOMAIN toBroker = 1 .. Len(toBroker)
          /\ DOMAIN toBroker' = 1 .. Len(toBroker) + 1
          /\ \A k \in 1 .. Len(toBroker) : toBroker'[k] = toBroker[k]
          /\ toBroker'[Len(toBroker) + 1] = p
      BY <2>2, AppendFacts DEF NetType
    <3>2. CASE n = Len(toBroker) + 1
      BY <3>1, <3>2
    <3>3. CASE n # Len(toBroker) + 1
      <4>1. n \in DOMAIN toBroker /\ toBroker'[n] = toBroker[n]
        BY <1>1, <3>1, <3>3 DEF Asking
      <4>2. \A k \in DOMAIN toBroker : k >= n => toBroker[k].type # "OPEN"
        BY <1>1, <3>1 DEF Asking, Current
      <4> QED
        BY <1>1, <4>1, <4>2 DEF Asking, Current
    <3> QED
      BY <3>2, <3>3
  <2> QED
    BY <2>1, <2>2 DEF Write
<1>2. ASSUME ~IsRequest(p) PROVE OldRequests(0)
  BY <1>1, <1>2 DEF OldRequests, Asking
<1> QED
  BY <1>1, <1>2

LEMMA SameReplies == UNCHANGED toClient => OldReplies(0)
  BY DEF OldReplies, Answering

LEMMA NoReplies == toClient' = <<>> => OldReplies(0)
  BY DEF OldReplies, Answering

LEMMA TailReplies ==
    ASSUME NetType, toClient # <<>>, toClient' = Tail(toClient)
    PROVE  OldReplies(1)
<1>1. /\ Len(toClient) \in Nat \ {0} /\ DOMAIN toClient = 1 .. Len(toClient)
      /\ DOMAIN toClient' = 1 .. Len(toClient) - 1
      /\ \A n \in 1 .. Len(toClient) - 1 : toClient'[n] = toClient[n + 1]
  BY TailFacts DEF NetType
<1> QED
  BY <1>1 DEF OldReplies, Answering

LEMMA PrefixReplies ==
    ASSUME NetType, toClient' \in Prefixes(toClient)
    PROVE  OldReplies(0)
<1>1. /\ DOMAIN toClient = 1 .. Len(toClient) /\ Len(toClient) \in Nat
      /\ Len(toClient') \in 0 .. Len(toClient) /\ DOMAIN toClient' = 1 .. Len(toClient')
      /\ \A n \in 1 .. Len(toClient') : toClient'[n] = toClient[n]
  BY PrefixFacts DEF NetType
<1> QED
  BY <1>1 DEF OldReplies, Answering

LEMMA SendReplies ==
    ASSUME NetType, NEW p \in ClientPacket, Sends(p)
    PROVE  /\ ~IsReply(p) => OldReplies(0)
           /\ \A n \in Nat : Answering(n)' =>
                \/ Answering(n) /\ toClient'[n] = toClient[n]
                \/ n = Len(toClient) + 1 /\ toClient'[n] = p
<1>1. /\ Len(toClient) \in Nat /\ DOMAIN toClient = 1 .. Len(toClient)
      /\ DOMAIN toClient' = 1 .. Len(toClient) + 1
      /\ \A k \in 1 .. Len(toClient) : toClient'[k] = toClient[k]
      /\ toClient'[Len(toClient) + 1] = p
  BY AppendFacts DEF NetType, Sends
<1>2. ASSUME NEW n \in Nat, Answering(n)'
      PROVE  \/ Answering(n) /\ toClient'[n] = toClient[n]
             \/ n = Len(toClient) + 1 /\ toClient'[n] = p
  BY <1>1, <1>2 DEF Answering
<1>3. ASSUME ~IsReply(p) PROVE OldReplies(0)
  BY <1>2, <1>3 DEF OldReplies, Answering
<1> QED
  BY <1>2, <1>3
-----------------------------------------------------------------------------
\* Nothing new under way, and the call that waits is the same.
LEMMA TokenKept ==
    ASSUME TokenInv, NEW i \in Int, NEW j \in Int, OldRequests(i), OldReplies(j),
           pc = "wait" => UNCHANGED <<pc, op>>, OpInv', ClosedIsEmpty'
    PROVE  TokenInv'
<1>1. RequestIsMine'
  <2> SUFFICES ASSUME NEW n \in Nat, Asking(n)'
               PROVE  Mine(toBroker[n])' /\ RequestFor(op.needle, toBroker[n])'
    BY DEF RequestIsMine
  <2>1. n + i \in Nat /\ Asking(n + i) /\ toBroker'[n] = toBroker[n + i]
    BY DEF OldRequests
  <2>2. Mine(toBroker[n + i]) /\ RequestFor(op.needle, toBroker[n + i])
    BY <2>1 DEF TokenInv, RequestIsMine
  <2> QED
    BY <2>1, <2>2 DEF Mine, RequestFor
<1>2. ReplyIsMine'
  <2> SUFFICES ASSUME NEW n \in Nat, Answering(n)'
               PROVE  Mine(toClient[n])' /\ ReplyFor(op.needle, toClient[n])'
    BY DEF ReplyIsMine
  <2>1. n + j \in Nat /\ Answering(n + j) /\ toClient'[n] = toClient[n + j]
    BY DEF OldReplies
  <2>2. Mine(toClient[n + j]) /\ ReplyFor(op.needle, toClient[n + j])
    BY <2>1 DEF TokenInv, ReplyIsMine
  <2> QED
    BY <2>1, <2>2 DEF Mine, ReplyFor
<1>3. OneUnderWay'
  <2>1. ASSUME NEW m \in Nat, NEW n \in Nat, Asking(m)', Asking(n)' PROVE m = n
    <3>1. m + i \in Nat /\ n + i \in Nat /\ Asking(m + i) /\ Asking(n + i)
      BY <2>1 DEF OldRequests
    <3>2. m + i = n + i
      BY <3>1 DEF TokenInv, OneUnderWay
    <3> QED
      BY <3>2
  <2>2. ASSUME NEW m \in Nat, NEW n \in Nat, Answering(m)', Answering(n)' PROVE m = n
    <3>1. m + j \in Nat /\ n + j \in Nat /\ Answering(m + j) /\ Answering(n + j)
      BY <2>2 DEF OldReplies
    <3>2. m + j = n + j
      BY <3>1 DEF TokenInv, OneUnderWay
    <3> QED
      BY <3>2
  <2>3. ASSUME NEW m \in Nat, NEW n \in Nat, Asking(m)', Answering(n)' PROVE FALSE
    BY <2>3 DEF OldRequests, OldReplies, TokenInv, OneUnderWay
  <2> QED
    BY <2>1, <2>2, <2>3 DEF OneUnderWay
<1> QED
  BY <1>1, <1>2, <1>3 DEF TokenInv

\* A call that does not wait has nothing under way.
LEMMA NotWaiting ==
    ASSUME TokenInv, pc # "wait"
    PROVE  \A n \in Nat : ~Asking(n) /\ ~Answering(n)
  BY DEF TokenInv, RequestIsMine, ReplyIsMine, Mine

\* The first request of a call, or its next.
LEMMA TokenWritten ==
    ASSUME NetType, UNCHANGED <<up, peer>>, NEW p \in BrokerPacket, Write(p),
           \A n \in Nat : ~Asking(n) /\ ~Answering(n)',
           Mine(p)', RequestFor(op'.needle, p), OpInv', ClosedIsEmpty'
    PROVE  TokenInv'
<1>1. \A n \in Nat : Asking(n)' => n = Len(toBroker) + 1 /\ toBroker'[n] = p
  BY WriteRequests
<1>2. RequestIsMine'
  BY <1>1 DEF RequestIsMine, Mine
<1>3. ReplyIsMine' /\ OneUnderWay'
  BY <1>1 DEF ReplyIsMine, OneUnderWay
<1> QED
  BY <1>2, <1>3 DEF TokenInv

\* The broker answers the request at the head of its queue.
LEMMA TokenAnswered ==
    ASSUME NetType, TokenInv, toBroker # <<>>, toBroker' = Tail(toBroker), Asking(1),
           NEW p \in ClientPacket, Sends(p), UNCHANGED <<up, peer, pc, op>>,
           p.id = op.id, ReplyFor(op.needle, p)
    PROVE  TokenInv'
<1>1. 1 \in Nat /\ \A n \in Nat : ~Answering(n) /\ (Asking(n) => n = 1)
  BY DEF TokenInv, OneUnderWay
<1>2. \A n \in Nat : ~Asking(n)'
  <2>1. \A n \in Nat : Asking(n)' => n + 1 \in Nat /\ Asking(n + 1)
    BY TailRequests DEF OldRequests
  <2>2. ASSUME NEW n \in Nat, Asking(n)' PROVE FALSE
    <3>1. n + 1 = 1
      BY <1>1, <2>1, <2>2
    <3>2. 0 \notin DOMAIN toBroker'
      BY TailFacts DEF NetType
    <3> QED
      BY <2>2, <3>1, <3>2 DEF Asking
  <2> QED
    BY <2>2
<1>3. \A n \in Nat : Answering(n)' => n = Len(toClient) + 1 /\ toClient'[n] = p
  BY <1>1, SendReplies
<1>4. pc = "wait"
  BY <1>1 DEF TokenInv, RequestIsMine, Mine
<1>5. RequestIsMine' /\ ReplyIsMine'
  BY <1>2, <1>3, <1>4 DEF RequestIsMine, ReplyIsMine, Mine
<1>6. OneUnderWay' /\ OpInv' /\ ClosedIsEmpty'
  BY <1>2, <1>3 DEF OneUnderWay, TokenInv, OpInv, ClosedIsEmpty, Sends
<1> QED
  BY <1>5, <1>6 DEF TokenInv

\* Nothing is under way.
LEMMA TokenGone ==
    ASSUME \A n \in Nat : ~Asking(n)' /\ ~Answering(n)', OpInv', ClosedIsEmpty'
    PROVE  TokenInv'
  BY DEF TokenInv, RequestIsMine, ReplyIsMine, OneUnderWay

\* A call that fails, a connection that is closed, opened or found dead.
LEMMA TokenClosed ==
    ASSUME TokenInv, ~up', toClient' = <<>>, OpInv'
    PROVE  TokenInv'
  BY TokenGone DEF Asking, Current, Answering, ClosedIsEmpty

LEMMA TokenFail == TokenInv /\ Fail => TokenInv'
  BY TokenClosed DEF Fail, Close, Idle, OpInv

LEMMA TokenProgram == TypeInv /\ TokenInv /\ Program => TokenInv'
<1> SUFFICES ASSUME TypeInv, TokenInv, Program PROVE TokenInv'
  OBVIOUS
<1> USE DEF TypeInv, session, control, broker, budget, calls, ghost
<1>0. /\ Plain("OPEN") \in BrokerPacket /\ Plain("CONNECT") \in BrokerPacket
      /\ Plain("OPEN").type = "OPEN" /\ Plain("CONNECT").type = "CONNECT"
      /\ Plain("CONNECT").id = 0
  BY PlainPackets DEF PacketTypes, Plain, Packet
<1>i. pc = "idle"
  BY DEF Program, Connect, ConnectRefused, ConnectUnwritten, OpenNetwork, ConnectSkip, Command,
         CommandFails, Disconnect, Loop
<1>n. \A n \in Nat : ~Asking(n) /\ ~Answering(n)
  BY <1>i, NotWaiting
<1>1. CASE Connect
  <2>1. /\ Len(toBroker) \in Nat /\ DOMAIN toBroker' = 1 .. Len(toBroker) + 2
        /\ toBroker'[Len(toBroker) + 1] = Plain("OPEN")
        /\ toBroker'[Len(toBroker) + 2] = Plain("CONNECT")
    BY <1>0, <1>1, OpenFacts DEF Connect, NetType
  <2>2. pc' = "wait" /\ op'.needle = "CONNACK" /\ op'.id = 0 /\ op'.call = 0
    BY <1>1 DEF Connect, NoOp
  <2>3. ASSUME NEW n \in Nat, Asking(n)'
        PROVE  n = Len(toBroker) + 2 /\ Mine(toBroker[n])' /\ RequestFor(op.needle, toBroker[n])'
    <3>1. n \in 1 .. Len(toBroker) + 2 /\ ~(n <= Len(toBroker) + 1)
      BY <1>0, <2>1, <2>3 DEF Asking, Current
    <3>2. n = Len(toBroker) + 2
      BY <2>1, <3>1
    <3> QED
      BY <1>0, <2>1, <2>2, <3>2 DEF Mine, RequestFor
  <2>4. \A n \in Nat : ~Answering(n)'
    BY <1>1 DEF Connect, Answering
  <2>5. OpInv' /\ ClosedIsEmpty'
    BY <1>1, <2>2 DEF Connect, OpInv, ClosedIsEmpty, Needles
  <2> QED
    BY <2>3, <2>4, <2>5 DEF TokenInv, RequestIsMine, ReplyIsMine, OneUnderWay
<1>2. CASE ConnectRefused \/ ConnectUnwritten \/ Disconnect
  BY <1>2, <1>i, TokenClosed DEF ConnectRefused, ConnectUnwritten, Disconnect, Close, OpInv
<1>3. CASE OpenNetwork
  <2>1. /\ Len(toBroker) \in Nat /\ DOMAIN toBroker' = 1 .. Len(toBroker) + 1
        /\ toBroker'[Len(toBroker) + 1] = Plain("OPEN")
    BY <1>0, <1>3, AppendFacts DEF OpenNetwork, NetType
  <2>2. ASSUME NEW n \in Nat, Asking(n)' PROVE FALSE
    <3>1. n \in 1 .. Len(toBroker) + 1 /\ ~(n <= Len(toBroker) + 1)
      BY <1>0, <2>1, <2>2 DEF Asking, Current
    <3> QED
      BY <2>1, <3>1
  <2> QED
    BY <1>3, <1>i, <2>2, TokenGone DEF OpenNetwork, OpInv, ClosedIsEmpty, Answering
<1>4. CASE ConnectSkip
  <2>1. pc' = "wait" /\ op'.needle = "CONNACK" /\ op'.id = 0 /\ op'.call = 0
    BY <1>4 DEF ConnectSkip, NoOp
  <2>2. OpInv' /\ ClosedIsEmpty'
    BY <1>4, <2>1 DEF ConnectSkip, OpInv, ClosedIsEmpty, Needles
  <2>3. \A n \in Nat : ~Asking(n) /\ ~Answering(n)'
    BY <1>4, <1>n DEF ConnectSkip, Answering
  <2>4. Mine(Plain("CONNECT"))' /\ RequestFor(op'.needle, Plain("CONNECT"))
    BY <1>0, <2>1 DEF Mine, RequestFor
  <2>5. Write(Plain("CONNECT")) /\ UNCHANGED <<up, peer>>
    BY <1>4 DEF ConnectSkip
  <2> QED
    BY <1>0, <2>2, <2>3, <2>4, <2>5, TokenWritten
<1>5. ASSUME NEW k \in Kinds, Command(k) PROVE TokenInv'
  <2>n. PICK n : n = IF k = "qos0" THEN 0 ELSE NextId
    OBVIOUS
  <2>c. PICK c : c = NextCall
    OBVIOUS
  <2>p. PICK p : p = Request(k, n, c)
    OBVIOUS
  <2>1. c \in Calls /\ n \in 0 .. MaxPacketId /\ (k # "qos0" => n # 0) /\ k \in AllKinds
    BY <1>5, <2>n, <2>c, NextCallIsLeast, NextIdType, CallAssumption DEF Command
  <2>2. p \in BrokerPacket
    BY <2>1, <2>p, RequestType
  <2>3. Write(p) /\ UNCHANGED <<up, peer, toClient>>
    BY <1>5, <2>n, <2>c, <2>p DEF Command
  <2>4. ClosedIsEmpty'
    BY <2>3 DEF ClosedIsEmpty, TokenInv
  <2>5. CASE k = "qos0"
    <3>1. ~IsRequest(p) /\ pc' = "idle"
      BY <1>5, <1>i, <2>5, <2>p DEF Request, Packet, IsRequest, Command
    <3>2. OldRequests(0)
      BY <2>2, <2>3, <3>1, WriteRequests
    <3>3. \A m \in Nat : ~Asking(m)' /\ ~Answering(m)'
      BY <1>n, <2>3, <3>2 DEF OldRequests, Answering
    <3>4. OpInv'
      BY <3>1 DEF OpInv
    <3> QED
      BY <2>4, <3>3, <3>4, TokenGone
  <2>6. CASE k # "qos0"
    <3>1. pc' = "wait" /\ op'.call = c /\ op'.id = n /\ op'.needle = Needle(k)
      BY <1>5, <2>6, <2>n, <2>c DEF Command
    <3>2. p.id = n /\ RequestFor(Needle(k), p) /\ Needle(k) \in Needles /\ Needle(k) # "CONNACK"
      BY <2>1, <2>6, <2>p DEF AllKinds, Request, Packet, Needle, RequestFor, Needles
    <3>3. Mine(p)' /\ RequestFor(op'.needle, p) /\ OpInv'
      BY <2>1, <3>1, <3>2 DEF Mine, OpInv
    <3>4. \A m \in Nat : ~Asking(m) /\ ~Answering(m)'
      BY <1>n, <2>3 DEF Answering
    <3> QED
      BY <2>2, <2>3, <2>4, <3>3, <3>4, TokenWritten
  <2> QED
    BY <2>5, <2>6
<1>6. ASSUME NEW k \in Kinds, CommandFails(k) PROVE TokenInv'
  BY <1>6, TokenClosed DEF CommandFails, Close, Idle, OpInv
<1>7. CASE Loop
  BY <1>7, <1>n, TokenGone DEF Loop, net, OpInv, ClosedIsEmpty, TokenInv, Asking, Current, Answering
<1> QED
  BY <1>1, <1>2, <1>3, <1>4, <1>5, <1>6, <1>7 DEF Program

LEMMA TokenInCall == TypeInv /\ TokenInv /\ InCall => TokenInv'
<1> SUFFICES ASSUME TypeInv, TokenInv, InCall PROVE TokenInv'
  OBVIOUS
<1> USE DEF TypeInv, net, session, control, broker, budget, calls, ghost
<1>r. ASSUME CanRead
      PROVE  /\ Head(toClient) = toClient[1] /\ Head(toClient) \in ClientPacket
             /\ 1 \in Nat /\ 1 \in DOMAIN toClient /\ up
  BY <1>r, TailFacts DEF CanRead, NetType, ClosedIsEmpty, TokenInv
<1>o. UNCHANGED <<pc, op>> => OpInv'
  BY DEF TokenInv, OpInv
<1>p. pc' # "wait" => OpInv'
  BY DEF OpInv
<1>1. CASE ReadRequest
  <2> DEFINE h == Head(toClient)
  <2>1. /\ toClient # <<>> /\ toClient' = Tail(toClient)
        /\ UNCHANGED <<up, peer, op>> /\ (pc = "wait" => UNCHANGED pc) /\ (pc # "wait" => pc' # "wait")
    BY <1>1 DEF ReadRequest, CanRead, Cycling, Counted
  <2>2. OpInv' /\ ClosedIsEmpty'
    BY <1>1, <1>r, <1>o, <1>p, <2>1 DEF ReadRequest, ClosedIsEmpty
  <2>3. OldReplies(1)
    BY <2>1, TailReplies
  <2>4. CASE Answer(h) = <<>>
    <3>1. UNCHANGED toBroker
      BY <1>1, <2>4 DEF ReadRequest
    <3>2. OldRequests(0)
      BY <2>1, <3>1, SameRequests
    <3> QED
      BY <2>1, <2>2, <2>3, <3>2, TokenKept
  <2>5. CASE Answer(h) # <<>>
    <3>1. PICK a : a = Head(Answer(h))
      OBVIOUS
    <3>2. a \in BrokerPacket /\ Write(a)
      BY <1>1, <1>r, <2>5, <3>1, AnswerType DEF ReadRequest
    <3>3. CASE h.type # "PUBREC"
      <4>1. ~IsRequest(a)
        BY <1>1, <2>5, <3>1, <3>3 DEF ReadRequest, Answer, Ack, Packet, IsRequest
      <4>2. OldRequests(0)
        BY <2>1, <3>2, <4>1, WriteRequests
      <4> QED
        BY <2>1, <2>2, <2>3, <4>2, TokenKept
    <3>4. CASE h.type = "PUBREC"
      <4>1. a.type = "PUBREL" /\ a.id = h.id
        BY <3>1, <3>4 DEF Answer, Ack, Packet
      <4>2. Answering(1) /\ h = toClient[1]
        BY <1>1, <1>r, <3>4 DEF ReadRequest, Answering, IsReply
      <4>3. pc = "wait" /\ h.id = op.id /\ ReplyFor(op.needle, h) /\ op.needle \in Needles
        BY <1>r, <4>2 DEF TokenInv, ReplyIsMine, Mine, OpInv
      <4>4. op.needle = "PUBCOMP"
        BY <3>4, <4>3 DEF ReplyFor, Needles
      <4>5. Mine(a)' /\ RequestFor(op'.needle, a)
        BY <2>1, <4>1, <4>3, <4>4 DEF Mine, RequestFor
      <4>6. \A n \in Nat : ~Asking(n) /\ ~Answering(n)'
        <5>1. \A n \in Nat : Answering(n) => n = 1
          BY <4>2 DEF TokenInv, OneUnderWay
        <5>2. ASSUME NEW n \in Nat, Answering(n)' PROVE FALSE
          <6>1. n + 1 = 1
            BY <2>3, <5>1, <5>2 DEF OldReplies
          <6>2. 0 \notin DOMAIN toClient'
            BY <2>1, TailFacts DEF NetType
          <6> QED
            BY <5>2, <6>1, <6>2 DEF Answering
        <5>3. \A n \in Nat : ~Asking(n)
          BY <4>2 DEF TokenInv, OneUnderWay
        <5> QED
          BY <5>2, <5>3
      <4> QED
        BY <2>1, <2>2, <3>2, <4>5, <4>6, TokenWritten
    <3> QED
      BY <3>3, <3>4
  <2> QED
    BY <2>4, <2>5
<1>2. CASE AnswerFails \/ ReadRefusal \/ ReadFails \/ GiveUp \/ PingFails \/ PongTimeout
  BY <1>2, TokenFail DEF AnswerFails, ReadRefusal, ReadFails, GiveUp, PingFails, PongTimeout
<1>3. CASE ReadOther
  <2>1. /\ toClient # <<>> /\ toClient' = Tail(toClient)
        /\ UNCHANGED <<toBroker, up, peer, op>>
        /\ (pc = "wait" => UNCHANGED pc) /\ (pc # "wait" => pc' # "wait")
    BY <1>3 DEF ReadOther, CanRead, Cycling, Counted
  <2>2. OpInv' /\ ClosedIsEmpty'
    BY <1>3, <1>r, <1>o, <1>p, <2>1 DEF ReadOther, ClosedIsEmpty
  <2>3. OldReplies(1) /\ OldRequests(0)
    BY <2>1, TailReplies, SameRequests
  <2> QED
    BY <2>1, <2>2, <2>3, TokenKept
<1>4. CASE ReadNeedle
  <2>1. /\ toClient # <<>> /\ toClient' = Tail(toClient)
        /\ UNCHANGED <<toBroker, up, peer>> /\ pc = "wait" /\ pc' = "idle"
    BY <1>4 DEF ReadNeedle, CanRead, Idle
  <2>2. OpInv' /\ ClosedIsEmpty'
    BY <1>4, <1>r, <1>p, <2>1 DEF ReadNeedle, ClosedIsEmpty
  <2>3. Answering(1)
    BY <1>4, <1>r, <2>1 DEF ReadNeedle, Answering, IsReply, TokenInv, OpInv, Needles
  <2>4. OldReplies(1) /\ OldRequests(0)
    BY <2>1, TailReplies, SameRequests
  <2>5. ASSUME NEW n \in Nat, Answering(n)' PROVE FALSE
    <3>1. n + 1 = 1
      BY <1>r, <1>4, <2>3, <2>4, <2>5 DEF OldReplies, TokenInv, OneUnderWay, ReadNeedle
    <3>2. 0 \notin DOMAIN toClient'
      BY <2>1, TailFacts DEF NetType
    <3> QED
      BY <2>5, <3>1, <3>2 DEF Answering
  <2>6. ASSUME NEW n \in Nat, Asking(n)' PROVE FALSE
    BY <2>3, <2>4, <2>6 DEF OldRequests, TokenInv, OneUnderWay
  <2> QED
    BY <2>2, <2>5, <2>6, TokenGone
<1>5. CASE YieldEnds \/ NoPingDue
  <2>1. pc # "wait" /\ pc' # "wait" /\ UNCHANGED net
    BY <1>5 DEF YieldEnds, NoPingDue, Idle
  <2>2. OpInv' /\ ClosedIsEmpty'
    BY <1>p, <2>1 DEF ClosedIsEmpty, TokenInv
  <2> QED
    BY <2>1, <2>2, NotWaiting, TokenGone DEF Asking, Current, Answering
<1>6. CASE Ping
  <2>1. pc # "wait" /\ pc' # "wait" /\ UNCHANGED <<up, peer, toClient>> /\ Write(Plain("PINGREQ"))
    BY <1>6 DEF Ping, Idle
  <2>2. Plain("PINGREQ") \in BrokerPacket /\ ~IsRequest(Plain("PINGREQ"))
    BY PlainPackets DEF PacketTypes, IsRequest, Plain, Packet
  <2>3. OldRequests(0) /\ OldReplies(0)
    BY <2>1, <2>2, WriteRequests, SameReplies
  <2>4. OpInv' /\ ClosedIsEmpty'
    BY <1>p, <2>1 DEF ClosedIsEmpty, TokenInv
  <2> QED
    BY <2>1, <2>3, <2>4, TokenKept
<1> QED
  BY <1>1, <1>2, <1>3, <1>4, <1>5, <1>6 DEF InCall

LEMMA TokenWorld == TypeInv /\ TokenInv /\ World => TokenInv'
<1> SUFFICES ASSUME TypeInv, TokenInv, World PROVE TokenInv'
  OBVIOUS
<1> USE DEF TypeInv, net, session, control, broker, budget, calls, ghost
<1>o. UNCHANGED <<pc, op>> => OpInv'
  BY DEF TokenInv, OpInv
<1>1. CASE TimerExpires \/ PingDue
  <2>1. UNCHANGED <<up, peer, toBroker, toClient, pc, op>>
    BY <1>1 DEF TimerExpires, PingDue
  <2>2. OldRequests(0) /\ OldReplies(0) /\ OpInv' /\ ClosedIsEmpty'
    BY <1>o, <2>1, SameRequests, SameReplies DEF TokenInv, ClosedIsEmpty
  <2> QED
    BY <2>1, <2>2, TokenKept
<1>2. CASE Break
  <2>1. UNCHANGED <<up, pc, op>> /\ ~peer' /\ toClient' \in Prefixes(toClient)
    BY <1>2 DEF Break
  <2>2. ClosedIsEmpty'
    <3>1. ~up => toClient = <<>>
      BY DEF TokenInv, ClosedIsEmpty
    <3>2. toClient = <<>> => toClient' = <<>>
      <4>1. toClient' \in Seq(ClientPacket) /\ Len(toClient') \in 0 .. Len(toClient)
        BY <2>1, PrefixFacts DEF NetType
      <4>2. ASSUME toClient = <<>> PROVE Len(toClient') = 0
        BY <4>1, <4>2
      <4> QED
        BY <4>1, <4>2, EmptySeq
    <3> QED
      BY <2>1, <3>1, <3>2 DEF ClosedIsEmpty
  <2>3. OldRequests(0) /\ OldReplies(0) /\ OpInv'
    BY <1>o, <2>1, NoRequests, PrefixReplies
  <2> QED
    BY <2>1, <2>2, <2>3, TokenKept
<1>3. CASE LinkDown
  BY <1>3, <1>o, TokenClosed DEF LinkDown
<1>4. CASE Reboot
  BY <1>4, TokenClosed DEF Reboot, Close, Idle, OpInv
<1> QED
  BY <1>1, <1>2, <1>3, <1>4 DEF World
-----------------------------------------------------------------------------
\* What the broker answers to a request.
AckFor(p, q) == \/ p.type = "CONNECT" /\ q.type = "CONNACK" /\ q.id = 0
                \/ /\ q.id = p.id
                   /\ \/ p.type = "PUBLISH" /\ p.qos = 1 /\ q.type = "PUBACK"
                      \/ p.type = "PUBLISH" /\ p.qos = 2 /\ q.type = "PUBREC"
                      \/ p.type = "PUBREL" /\ q.type = "PUBCOMP"
                      \/ p.type = "SUBSCRIBE" /\ q.type = "SUBACK"
                      \/ p.type = "UNSUBSCRIBE" /\ q.type = "UNSUBACK"

\* A request the broker takes and answers on this connection is the one under way.
LEMMA ReachedIsAsking ==
    ASSUME TypeInv, NEW t, Takes(t), Reaches, IsRequest(Head(toBroker))
    PROVE  Asking(1) /\ Head(toBroker) = toBroker[1] /\ 1 \in Nat
<1>1. /\ 1 \in DOMAIN toBroker /\ Head(toBroker) = toBroker[1]
      /\ DOMAIN toBroker = 1 .. Len(toBroker) /\ Len(toBroker) \in Nat \ {0}
  BY TailFacts DEF Takes, TypeInv, NetType
<1>2. toBroker[1].type # "OPEN"
  BY <1>1 DEF IsRequest
<1>3. \A k \in DOMAIN toBroker : k = 1 \/ k \in 2 .. Len(toBroker)
  BY <1>1
<1> QED
  BY <1>1, <1>2, <1>3 DEF Asking, Current, Reaches

\* It acknowledges the request it has just taken, of this connection, or sends
\* something that is no acknowledgement.
LEMMA ReplyTakes ==
    ASSUME TypeInv, TokenInv, NEW t, Takes(t), NEW p \in ClientPacket, Reply(p),
           ~IsReply(p) \/ AckFor(Head(toBroker), p),
           UNCHANGED <<up, peer, pc, op>>
    PROVE  TokenInv'
<1>1. /\ toBroker # <<>> /\ toBroker' = Tail(toBroker) /\ NetType
      /\ 1 \in DOMAIN toBroker /\ Head(toBroker) = toBroker[1]
      /\ DOMAIN toBroker = 1 .. Len(toBroker) /\ Len(toBroker) \in Nat \ {0}
      /\ Head(toBroker).type = t
  BY TailFacts DEF Takes, TypeInv, NetType
<1>2. OldRequests(1)
  BY <1>1, TailRequests
<1>3. OpInv'
  BY DEF TokenInv, OpInv
<1>4. CASE ~Reaches
  <2>1. UNCHANGED toClient
    BY <1>4 DEF Reply
  <2>2. OldReplies(0) /\ ClosedIsEmpty'
    BY <2>1, SameReplies DEF TokenInv, ClosedIsEmpty
  <2> QED
    BY <1>2, <1>3, <2>2, TokenKept
<1>5. CASE Reaches
  <2>1. Sends(p) /\ up /\ ClosedIsEmpty'
    BY <1>5 DEF Reply, Reaches, Sends, ClosedIsEmpty
  <2>2. CASE ~IsReply(p)
    <3>1. OldReplies(0)
      BY <1>1, <2>1, <2>2, SendReplies
    <3> QED
      BY <1>2, <1>3, <2>1, <3>1, TokenKept
  <2>3. CASE IsReply(p)
    <3>1. Asking(1)
      <4>1. IsRequest(Head(toBroker))
        BY <2>3 DEF IsRequest, IsReply, AckFor
      <4> QED
        BY <1>5, <4>1, ReachedIsAsking
    <3>2. Mine(toBroker[1]) /\ RequestFor(op.needle, toBroker[1]) /\ OpInv
      BY <3>1 DEF TokenInv, RequestIsMine
    <3>3. p.id = op.id
      BY <1>1, <2>3, <3>2 DEF Mine, AckFor, RequestFor, OpInv
    <3>4. ReplyFor(op.needle, p)
      BY <1>1, <2>3, <3>2 DEF AckFor, RequestFor, ReplyFor
    <3> QED
      BY <1>1, <2>1, <3>1, <3>3, <3>4, TokenAnswered
  <2> QED
    BY <2>2, <2>3
<1> QED
  BY <1>4, <1>5

\* The broker takes a packet and does not answer, or sends one without being asked.
LEMMA QuietTakes ==
    ASSUME TypeInv, TokenInv, toBroker # <<>>, toBroker' = Tail(toBroker),
           UNCHANGED <<up, toClient, pc, op>>, peer' => peer
    PROVE  TokenInv'
<1>1. OldRequests(1)
  BY TailRequests DEF TypeInv
<1> QED
  BY <1>1, SameReplies, TokenKept DEF TokenInv, OpInv, ClosedIsEmpty

LEMMA TokenBroker == TypeInv /\ TokenInv /\ Broker => TokenInv'
<1> SUFFICES ASSUME TypeInv, TokenInv, Broker PROVE TokenInv'
  OBVIOUS
<1> USE DEF BrokerRest, control
<1>0. CASE BrokerOpen \/ TakePuback
  BY <1>0, QuietTakes DEF BrokerOpen, TakePuback, Takes
<1>1. CASE HangUp
  <2>1. toBroker # <<>> /\ toBroker' = Tail(toBroker) /\ UNCHANGED <<up, toClient, pc, op>>
    BY <1>1 DEF HangUp
  <2>2. peer' => peer
    BY <1>1 DEF HangUp
  <2> QED
    BY <2>1, <2>2, QuietTakes
<1>2. CASE Accept
  BY <1>2, ReplyTakes, AnswersType DEF Accept, Takes, AckFor, Plain, Packet
<1>3. CASE Refuse
  BY <1>3, ReplyTakes, AnswersType DEF Refuse, Takes, AckFor, Packet
<1>4. CASE TakePublish
  <2>1. CASE Head(toBroker).qos = 0
    BY <1>4, <2>1, QuietTakes DEF TakePublish, Takes
  <2>2. CASE Head(toBroker).qos # 0
    <3>1. PICK p : p = Ack(IF Head(toBroker).qos = 1 THEN "PUBACK" ELSE "PUBREC", Head(toBroker).id)
      OBVIOUS
    <3>2. p \in ClientPacket /\ AckFor(Head(toBroker), p)
      <4>1. /\ Head(toBroker).type = "PUBLISH" /\ Head(toBroker).id \in Nat
            /\ Head(toBroker).qos \in {1, 2}
        BY <1>4, <2>2, TakesType DEF TypeInv, TakePublish
      <4>2. p.id = Head(toBroker).id /\ p.type = IF Head(toBroker).qos = 1 THEN "PUBACK" ELSE "PUBREC"
        BY <3>1 DEF Ack, Packet
      <4>3. p \in ClientPacket
        BY <3>1, <4>1, AnswersType
      <4> QED
        BY <4>1, <4>2, <4>3 DEF AckFor
    <3>3. Takes("PUBLISH") /\ Reply(p) /\ UNCHANGED <<up, peer, pc, op>>
      BY <1>4, <2>2, <3>1 DEF TakePublish
    <3> QED
      BY <3>2, <3>3, ReplyTakes
  <2> QED
    BY <2>1, <2>2
<1>5. CASE TakePubrel
  <2>1. PICK p : p = Ack("PUBCOMP", Head(toBroker).id)
    OBVIOUS
  <2>2. p \in ClientPacket /\ AckFor(Head(toBroker), p)
    BY <1>5, <2>1, TakesType, AnswersType DEF TypeInv, TakePubrel, AckFor, Ack, Packet
  <2> QED
    BY <1>5, <2>1, <2>2, ReplyTakes DEF TakePubrel
<1>6. CASE TakeSubscribe
  <2>1. PICK p : /\ p = Ack("SUBACK", Head(toBroker).id) \/ p = Packet("SUBACK", 0, Head(toBroker).id, 128)
                 /\ Reply(p)
    BY <1>6 DEF TakeSubscribe
  <2>2. Head(toBroker).type = "SUBSCRIBE" /\ Head(toBroker).id \in Nat
    BY <1>6, TakesType DEF TypeInv, TakeSubscribe
  <2>3. p.id = Head(toBroker).id /\ p.type = "SUBACK"
    BY <2>1 DEF Ack, Packet
  <2>4. p \in ClientPacket
    BY <2>1, <2>2, AnswersType
  <2>5. AckFor(Head(toBroker), p)
    BY <2>2, <2>3 DEF AckFor
  <2> QED
    BY <1>6, <2>1, <2>4, <2>5, ReplyTakes DEF TakeSubscribe
<1>7. CASE TakeUnsubscribe
  <2>1. PICK p : p = Ack("UNSUBACK", Head(toBroker).id)
    OBVIOUS
  <2>2. p \in ClientPacket /\ AckFor(Head(toBroker), p)
    BY <1>7, <2>1, TakesType, AnswersType DEF TypeInv, TakeUnsubscribe, AckFor, Ack, Packet
  <2> QED
    BY <1>7, <2>1, <2>2, ReplyTakes DEF TakeUnsubscribe
<1>8. CASE TakePing
  BY <1>8, ReplyTakes, AnswersType DEF TakePing, IsReply, Plain, Packet
<1>9. CASE TakePubrec
  <2>1. PICK p : p = Ack("PUBREL", Head(toBroker).id)
    OBVIOUS
  <2>2. p \in ClientPacket /\ ~IsReply(p)
    BY <1>9, <2>1, TakesType, AnswersType DEF TypeInv, TakePubrec, IsReply, Ack, Packet
  <2> QED
    BY <1>9, <2>1, <2>2, ReplyTakes DEF TakePubrec
<1>10. ASSUME NEW m \in Msgs, Send(m) \/ Release(m) PROVE TokenInv'
  <2>1. PICK p : /\ p = Packet("PUBLISH", MsgQos[m], m, m) \/ p = Ack("PUBREL", m)
                 /\ Sends(p)
    BY <1>10 DEF Send, Release, Reaches, Sends
  <2>2. p \in ClientPacket /\ ~IsReply(p)
    <3>1. p.type \in {"PUBLISH", "PUBREL"}
      BY <2>1 DEF Ack, Packet
    <3> QED
      BY <2>1, <3>1, AnswersType, MessageAssumption DEF IsReply
  <2>3. UNCHANGED <<toBroker, up, peer, pc, op>>
    BY <1>10 DEF Send, Release
  <2>4. OldRequests(0) /\ OldReplies(0)
    BY <2>1, <2>2, <2>3, SameRequests, SendReplies DEF TypeInv
  <2> QED
    BY <2>1, <2>3, <2>4, TokenKept DEF TokenInv, OpInv, ClosedIsEmpty, Sends
<1> QED
  BY <1>0, <1>1, <1>2, <1>3, <1>4, <1>5, <1>6, <1>7, <1>8, <1>9, <1>10 DEF Broker

LEMMA TokenStep == TypeInv /\ TokenInv /\ [Next]_vars => TokenInv'
<1>1. ASSUME TokenInv, UNCHANGED vars PROVE TokenInv'
  BY <1>1, SameRequests, SameReplies, TokenKept
  DEF vars, net, control, TokenInv, OpInv, ClosedIsEmpty
<1> QED
  BY <1>1, TokenProgram, TokenInCall, TokenWorld, TokenBroker DEF Next

LEMMA AlwaysToken == Spec => []TokenInv
  BY TokenInit, TokenStep, AlwaysTyped, PTL DEF Spec

\* lwmqtt decodes the identifier of an acknowledgement and never compares it
\* (client.c:599-613), and it is right all the same: whatever was lost, cut short or
\* given up before, what a call can find on its connection is its own acknowledgement.
THEOREM OnlyOwnAnswers == Spec => []AckIsOwn
<1>1. TypeInv /\ TokenInv => AckIsOwn
  <2> SUFFICES ASSUME TypeInv, TokenInv, pc = "wait",
                      NEW n \in DOMAIN toClient, toClient[n].type = op.needle
               PROVE  toClient[n].id = op.id
    BY DEF AckIsOwn
  <2>1. n \in Nat
    BY LenProperties DEF TypeInv, NetType
  <2>2. Answering(n)
    BY DEF Answering, IsReply, TokenInv, OpInv, Needles
  <2> QED
    BY <2>1, <2>2 DEF TokenInv, ReplyIsMine, Mine
<1> QED
  BY <1>1, AlwaysTyped, AlwaysToken, PTL
-----------------------------------------------------------------------------
\* A packet that carries a call.
IsCommand(p) == p.type \in {"PUBLISH", "SUBSCRIBE", "UNSUBSCRIBE"}
Carries(n)   == n \in DOMAIN toBroker /\ IsCommand(toBroker[n])

\* The call that waits is the pending one; what is queued was made, is queued once
\* and has not been performed.
PendingWaits == \A c \in Calls : fate[c] = "pending" <=> pc = "wait" /\ op.call = c
NewIsUndone  == \A c \in Calls : fate[c] = "none" => performed[c] = 0
QueuedIsMade == \A n \in Nat : Carries(n) =>
                   /\ toBroker[n].body \in Calls
                   /\ fate[toBroker[n].body] # "none" /\ performed[toBroker[n].body] = 0
QueuedOnce   == \A m, n \in Nat :
                   Carries(m) /\ Carries(n) /\ toBroker[m].body = toBroker[n].body => m = n

CallInv == PendingWaits /\ NewIsUndone /\ QueuedIsMade /\ QueuedOnce

\* A step adds no packet of a call.
OldCommands(i) == \A n \in Nat : Carries(n)' => n + i \in Nat /\ Carries(n + i) /\ toBroker'[n] = toBroker[n + i]

LEMMA WriteCommands ==
    ASSUME NetType, NEW p \in BrokerPacket, Write(p)
    PROVE  /\ ~IsCommand(p) => OldCommands(0)
           /\ \A n \in Nat : Carries(n)' =>
                \/ Carries(n) /\ toBroker'[n] = toBroker[n]
                \/ n = Len(toBroker) + 1 /\ toBroker'[n] = p
<1>1. ASSUME NEW n \in Nat, Carries(n)'
      PROVE  \/ Carries(n) /\ toBroker'[n] = toBroker[n]
             \/ n = Len(toBroker) + 1 /\ toBroker'[n] = p
  <2>1. CASE toBroker' = toBroker
    BY <1>1, <2>1 DEF Carries
  <2>2. CASE toBroker' = Append(toBroker, p)
    <3>1. /\ Len(toBroker) \in Nat /\ DOMAIN toBroker = 1 .. Len(toBroker)
          /\ DOMAIN toBroker' = 1 .. Len(toBroker) + 1
          /\ \A k \in 1 .. Len(toBroker) : toBroker'[k] = toBroker[k]
          /\ toBroker'[Len(toBroker) + 1] = p
      BY <2>2, AppendFacts DEF NetType
    <3> QED
      BY <1>1, <3>1 DEF Carries
  <2> QED
    BY <2>1, <2>2 DEF Write
<1>2. ASSUME ~IsCommand(p) PROVE OldCommands(0)
  BY <1>1, <1>2 DEF OldCommands, Carries
<1> QED
  BY <1>1, <1>2

LEMMA SameCommands == UNCHANGED toBroker => OldCommands(0)
  BY DEF OldCommands, Carries

LEMMA TailCommands ==
    ASSUME NetType, toBroker # <<>>, toBroker' = Tail(toBroker)
    PROVE  OldCommands(1)
<1>1. /\ Len(toBroker) \in Nat \ {0} /\ DOMAIN toBroker = 1 .. Len(toBroker)
      /\ DOMAIN toBroker' = 1 .. Len(toBroker) - 1
      /\ \A n \in 1 .. Len(toBroker) - 1 : toBroker'[n] = toBroker[n + 1]
  BY TailFacts DEF NetType
<1> QED
  BY <1>1 DEF OldCommands, Carries

LEMMA PrefixCommands ==
    ASSUME NetType, toBroker' \in Prefixes(toBroker)
    PROVE  OldCommands(0)
<1>1. /\ DOMAIN toBroker = 1 .. Len(toBroker) /\ Len(toBroker) \in Nat
      /\ Len(toBroker') \in 0 .. Len(toBroker) /\ DOMAIN toBroker' = 1 .. Len(toBroker')
      /\ \A n \in 1 .. Len(toBroker') : toBroker'[n] = toBroker[n]
  BY PrefixFacts DEF NetType
<1> QED
  BY <1>1 DEF OldCommands, Carries

LEMMA OpenCommands ==
    ASSUME NetType,
           \/ toBroker' = Append(toBroker, Plain("OPEN"))
           \/ toBroker' = toBroker \o <<Plain("OPEN"), Plain("CONNECT")>>
    PROVE  OldCommands(0)
<1>0. /\ Plain("OPEN") \in BrokerPacket /\ Plain("CONNECT") \in BrokerPacket
      /\ ~IsCommand(Plain("OPEN")) /\ ~IsCommand(Plain("CONNECT"))
  BY PlainPackets DEF PacketTypes, IsCommand, Plain, Packet
<1>1. CASE toBroker' = Append(toBroker, Plain("OPEN"))
  <2>1. /\ Len(toBroker) \in Nat /\ DOMAIN toBroker = 1 .. Len(toBroker)
        /\ DOMAIN toBroker' = 1 .. Len(toBroker) + 1
        /\ \A k \in 1 .. Len(toBroker) : toBroker'[k] = toBroker[k]
        /\ toBroker'[Len(toBroker) + 1] = Plain("OPEN")
    BY <1>0, <1>1, AppendFacts DEF NetType
  <2> QED
    BY <1>0, <2>1 DEF OldCommands, Carries
<1>2. CASE toBroker' = toBroker \o <<Plain("OPEN"), Plain("CONNECT")>>
  <2>1. /\ Len(toBroker) \in Nat /\ DOMAIN toBroker = 1 .. Len(toBroker)
        /\ DOMAIN toBroker' = 1 .. Len(toBroker) + 2
        /\ \A k \in 1 .. Len(toBroker) : toBroker'[k] = toBroker[k]
        /\ toBroker'[Len(toBroker) + 1] = Plain("OPEN")
        /\ toBroker'[Len(toBroker) + 2] = Plain("CONNECT")
    BY <1>0, <1>2, OpenFacts DEF NetType
  <2> QED
    BY <1>0, <2>1 DEF OldCommands, Carries
<1> QED
  BY <1>1, <1>2

\* Only a call of publish, subscribe or unsubscribe queues one.
LEMMA NoNewCommand ==
    ASSUME TypeInv, Next, \A k \in Kinds : ~Command(k)
    PROVE  OldCommands(0) \/ OldCommands(1)
<1> USE DEF TypeInv, net
<1>1. CASE Program
  <2>1. CASE Connect \/ OpenNetwork
    BY <2>1, OpenCommands DEF Connect, OpenNetwork
  <2>2. CASE ConnectUnwritten
    BY <2>2, OpenCommands, SameCommands DEF ConnectUnwritten
  <2>3. CASE ConnectSkip \/ Disconnect
    <3>1. /\ Plain("CONNECT") \in BrokerPacket /\ ~IsCommand(Plain("CONNECT"))
          /\ Plain("DISCONNECT") \in BrokerPacket /\ ~IsCommand(Plain("DISCONNECT"))
      BY PlainPackets DEF PacketTypes, IsCommand, Plain, Packet
    <3> QED
      BY <2>3, <3>1, WriteCommands, SameCommands DEF ConnectSkip, Disconnect
  <2>4. CASE ConnectRefused \/ Loop \/ \E k \in Kinds : CommandFails(k)
    BY <2>4, SameCommands DEF ConnectRefused, Loop, CommandFails
  <2> QED
    BY <1>1, <2>1, <2>2, <2>3, <2>4 DEF Program
<1>2. CASE InCall
  <2>1. CASE ReadRequest
    <3> DEFINE h == Head(toClient)
    <3>1. h \in ClientPacket
      BY <2>1, TailFacts DEF ReadRequest, CanRead, NetType
    <3>2. CASE Answer(h) = <<>>
      BY <2>1, <3>2, SameCommands DEF ReadRequest
    <3>3. CASE Answer(h) # <<>>
      <4>1. Head(Answer(h)) \in BrokerPacket /\ Write(Head(Answer(h)))
        BY <2>1, <3>1, <3>3, AnswerType DEF ReadRequest
      <4>2. ~IsCommand(Head(Answer(h)))
        BY <3>3 DEF Answer, Ack, Packet, IsCommand
      <4> QED
        BY <4>1, <4>2, WriteCommands
    <3> QED
      BY <3>2, <3>3
  <2>2. CASE Ping
    <3>1. Plain("PINGREQ") \in BrokerPacket /\ ~IsCommand(Plain("PINGREQ"))
      BY PlainPackets DEF PacketTypes, IsCommand, Plain, Packet
    <3> QED
      BY <2>2, <3>1, WriteCommands DEF Ping
  <2>3. CASE ~ReadRequest /\ ~Ping
    BY <1>2, <2>3, SameCommands
    DEF InCall, AnswerFails, ReadOther, ReadNeedle, ReadRefusal, ReadFails, GiveUp, YieldEnds,
        NoPingDue, PingFails, PongTimeout
  <2> QED
    BY <2>1, <2>2, <2>3
<1>3. CASE World
  BY <1>3, SameCommands, PrefixCommands DEF World, TimerExpires, PingDue, Break, LinkDown, Reboot
<1>4. CASE Broker
  BY <1>4, SameCommands, TailCommands
  DEF Broker, BrokerOpen, Accept, Refuse, HangUp, TakePublish, TakePubrel, TakeSubscribe,
      TakeUnsubscribe, TakePing, TakePuback, TakePubrec, Takes, Send, Release
<1> QED
  BY <1>1, <1>2, <1>3, <1>4 DEF Next

\* What a step does to the calls, if it makes none.
CallsRest == /\ UNCHANGED calls
             /\ \/ UNCHANGED <<pc, op>>
                \/ pc # "wait" /\ (pc' # "wait" \/ op'.call = 0)
             /\ pc = "wait" /\ pc' = "wait" => UNCHANGED op
CallEnds  == /\ pc' # "wait" /\ UNCHANGED <<kind, performed>>
             /\ \E r \in {"true", "false", "lost"} : Settle(r) /\ (r = "true" => ReadNeedle)
CallDone  == /\ toBroker # <<>> /\ toBroker' = Tail(toBroker)
             /\ IsCommand(Head(toBroker)) /\ Performs(Head(toBroker).body)
             /\ UNCHANGED <<kind, fate, pc, op, peer>>

LEMMA CallCases ==
    ASSUME TypeInv, Next, \A k \in Kinds : ~Command(k) /\ ~CommandFails(k)
    PROVE  CallsRest \/ CallEnds \/ CallDone
<1> USE DEF calls, ghost, control
<1>f. Fail => CallEnds
  BY DEF Fail, Idle, CallEnds
<1>1. CASE Program
  BY <1>1
  DEF Program, Connect, ConnectRefused, ConnectUnwritten, OpenNetwork, ConnectSkip, Disconnect,
      Loop, NoOp, CallsRest
<1>2. CASE InCall
  <2>1. CASE ReadRequest \/ ReadOther
    BY <2>1 DEF ReadRequest, ReadOther, CanRead, Cycling, Counted, CallsRest
  <2>2. CASE ReadNeedle
    BY <2>2 DEF ReadNeedle, Idle, CallEnds
  <2>3. CASE AnswerFails \/ ReadRefusal \/ ReadFails \/ GiveUp \/ PingFails \/ PongTimeout
    BY <2>3, <1>f DEF AnswerFails, ReadRefusal, ReadFails, GiveUp, PingFails, PongTimeout
  <2>4. CASE YieldEnds \/ NoPingDue \/ Ping
    BY <2>4 DEF YieldEnds, NoPingDue, Ping, Idle, CallsRest
  <2> QED
    BY <1>2, <2>1, <2>2, <2>3, <2>4 DEF InCall
<1>3. CASE World
  <2>1. CASE TimerExpires \/ PingDue \/ Break \/ LinkDown
    BY <2>1 DEF TimerExpires, PingDue, Break, LinkDown, CallsRest
  <2>2. CASE Reboot
    BY <2>2 DEF Reboot, Idle, CallEnds
  <2> QED
    BY <1>3, <2>1, <2>2 DEF World
<1>4. CASE Broker
  <2>1. CASE TakePublish
    BY <2>1 DEF TakePublish, Takes, BrokerRest, IsCommand, CallsRest, CallDone
  <2>2. CASE TakeSubscribe \/ TakeUnsubscribe
    BY <2>2 DEF TakeSubscribe, TakeUnsubscribe, Takes, BrokerRest, IsCommand, CallsRest, CallDone
  <2>3. CASE ~TakePublish /\ ~TakeSubscribe /\ ~TakeUnsubscribe
    BY <1>4, <2>3
    DEF Broker, BrokerRest, BrokerOpen, Accept, Refuse, HangUp, TakePubrel, TakePing, TakePuback,
        TakePubrec, Send, Release, CallsRest
  <2> QED
    BY <2>1, <2>2, <2>3
<1> QED
  BY <1>1, <1>2, <1>3, <1>4 DEF Next

LEMMA EndsFate ==
    ASSUME TypeInv, PendingWaits, CallEnds
    PROVE  /\ PendingWaits'
           /\ \A c \in Calls : fate'[c] = "none" <=> fate[c] = "none"
<1>1. fate \in [Calls -> {"none", "pending", "true", "false", "lost"}] /\ 0 \notin Calls
  BY DEF TypeInv, CallsType, Calls
<1>2. PICK r \in {"true", "false", "lost"} : Settle(r)
  BY DEF CallEnds
<1>3. pc' # "wait"
  BY DEF CallEnds
<1>4. CASE op.call = 0
  BY <1>1, <1>2, <1>3, <1>4 DEF Settle, PendingWaits
<1>5. CASE op.call # 0
  <2>1. op.call \in Calls /\ pc = "wait"
    BY <1>5 DEF TypeInv, ControlType, Operation, NoOp
  <2>2. \A c \in Calls : fate'[c] = IF c = op.call THEN r ELSE fate[c]
    BY <1>1, <1>2, <1>5 DEF Settle
  <2>3. fate[op.call] = "pending"
    BY <2>1 DEF PendingWaits
  <2> QED
    BY <1>2, <1>3, <2>1, <2>2, <2>3 DEF PendingWaits
<1> QED
  BY <1>4, <1>5

\* The packet at the head of the queue is the only one of its call, and new.
LEMMA DoneOnce ==
    ASSUME TypeInv, CallInv, CallDone
    PROVE  LET b == Head(toBroker).body
           IN  /\ b \in Calls /\ fate[b] # "none" /\ performed[b] = 0
               /\ performed' = [performed EXCEPT ![b] = 1]
               /\ \A c \in Calls : performed'[c] = IF c = b THEN 1 ELSE performed[c]
               /\ \A n \in Nat : Carries(n) /\ toBroker[n].body = b => n = 1
<1> DEFINE b == Head(toBroker).body
<1>1. Head(toBroker) = toBroker[1] /\ 1 \in DOMAIN toBroker
  BY TailFacts DEF TypeInv, NetType, CallDone
<1>2. Carries(1)
  BY <1>1 DEF Carries, CallDone
<1>3. b \in Calls /\ fate[b] # "none" /\ performed[b] = 0
  BY <1>1, <1>2 DEF CallInv, QueuedIsMade
<1>4. performed' = [performed EXCEPT ![b] = 1]
  BY <1>3 DEF CallDone, Performs
<1>5. \A c \in Calls : performed'[c] = IF c = b THEN 1 ELSE performed[c]
  BY <1>4 DEF TypeInv, CallsType
<1>6. \A n \in Nat : Carries(n) /\ toBroker[n].body = b => n = 1
  BY <1>1, <1>2 DEF CallInv, QueuedOnce
<1> QED
  BY <1>3, <1>4, <1>5, <1>6

LEMMA QueueKept ==
    ASSUME CallInv, NEW i \in Int, OldCommands(i),
           \A c \in Calls : fate[c] # "none" => fate'[c] # "none",
           \A c \in Calls : performed[c] = 0 => performed'[c] = 0
    PROVE  QueuedIsMade' /\ QueuedOnce'
<1>1. ASSUME NEW n \in Nat, Carries(n)'
      PROVE  /\ toBroker'[n].body \in Calls
             /\ fate'[toBroker'[n].body] # "none" /\ performed'[toBroker'[n].body] = 0
  BY <1>1 DEF OldCommands, CallInv, QueuedIsMade
<1>2. ASSUME NEW m \in Nat, NEW n \in Nat, Carries(m)', Carries(n)', toBroker'[m].body = toBroker'[n].body
      PROVE  m = n
  <2>1. m + i \in Nat /\ n + i \in Nat /\ m + i = n + i
    BY <1>2 DEF OldCommands, CallInv, QueuedOnce
  <2> QED
    BY <2>1
<1> QED
  BY <1>1, <1>2 DEF QueuedIsMade, QueuedOnce

LEMMA CallInit == Init => CallInv
<1> SUFFICES ASSUME Init PROVE CallInv
  OBVIOUS
<1>1. DOMAIN toBroker = {} /\ pc = "idle"
  BY DEF Init
<1>2. \A c \in Calls : fate[c] = "none" /\ performed[c] = 0
  BY DEF Init
<1> QED
  BY <1>1, <1>2 DEF CallInv, PendingWaits, NewIsUndone, QueuedIsMade, QueuedOnce, Carries

LEMMA CallStep == TypeInv /\ CallInv /\ [Next]_vars => CallInv'
<1> SUFFICES ASSUME TypeInv, CallInv, [Next]_vars PROVE CallInv'
  OBVIOUS
<1> USE DEF TypeInv
<1>t. /\ fate \in [Calls -> {"none", "pending", "true", "false", "lost"}]
      /\ performed \in [Calls -> Nat] /\ 0 \notin Calls
  BY DEF CallsType, Calls
<1>1. ASSUME NEW k \in Kinds, Command(k) PROVE CallInv'
  <2>n. PICK n : n = IF k = "qos0" THEN 0 ELSE NextId
    OBVIOUS
  <2>c. PICK c : c = NextCall
    OBVIOUS
  <2>p. PICK p : p = Request(k, n, c)
    OBVIOUS
  <2>1. /\ c \in Calls /\ n \in 0 .. MaxPacketId /\ (k # "qos0" => n # 0) /\ k \in AllKinds
        /\ fate[c] = "none" /\ performed[c] = 0 /\ pc = "idle"
    BY <1>1, <2>n, <2>c, NextCallIsLeast, NextIdType, CallAssumption
    DEF Command, CallInv, NewIsUndone
  <2>2. p \in BrokerPacket /\ p.body = c
    <3>1. p \in BrokerPacket
      BY <2>1, <2>p, RequestType
    <3>2. p.body = c
      BY <2>1, <2>p DEF AllKinds, Request, Packet
    <3> QED
      BY <3>1, <3>2
  <2>3. Write(p) /\ UNCHANGED performed
    BY <1>1, <2>n, <2>c, <2>p DEF Command
  <2>4. \A d \in Calls : d # c => fate'[d] = fate[d]
    BY <1>1, <1>t, <2>c DEF Command
  <2>5. /\ k = "qos0" => fate'[c] = "true" /\ pc' = "idle"
        /\ k # "qos0" => fate'[c] = "pending" /\ pc' = "wait" /\ op'.call = c
    BY <1>1, <1>t, <2>1, <2>c DEF Command, control
  <2>6. PendingWaits'
    <3>1. \A d \in Calls : fate[d] # "pending"
      BY <2>1 DEF CallInv, PendingWaits
    <3> QED
      BY <2>4, <2>5, <3>1 DEF PendingWaits
  <2>7. NewIsUndone'
    BY <2>3, <2>4, <2>5 DEF CallInv, NewIsUndone
  <2>8. \A m \in Nat : Carries(m)' =>
          \/ Carries(m) /\ toBroker'[m] = toBroker[m]
          \/ m = Len(toBroker) + 1 /\ toBroker'[m] = p
    BY <2>2, <2>3, WriteCommands
  <2>9. QueuedIsMade'
    BY <2>1, <2>2, <2>3, <2>4, <2>5, <2>8 DEF CallInv, QueuedIsMade
  <2>10. \A m \in Nat : Carries(m) => toBroker[m].body # c
    BY <2>1 DEF CallInv, QueuedIsMade
  <2>11. QueuedOnce'
    BY <2>2, <2>8, <2>10 DEF CallInv, QueuedOnce
  <2> QED
    BY <2>6, <2>7, <2>9, <2>11 DEF CallInv
<1>2. ASSUME NEW k \in Kinds, CommandFails(k) PROVE CallInv'
  <2>1. NextCall \in Calls /\ pc = "idle" /\ pc' = "idle" /\ UNCHANGED <<toBroker, performed>>
    BY <1>2, NextCallIsLeast DEF CommandFails, Idle
  <2>2. \A d \in Calls : fate'[d] = IF d = NextCall THEN "false" ELSE fate[d]
    BY <1>2, <1>t DEF CommandFails
  <2>3. PendingWaits' /\ NewIsUndone'
    BY <2>1, <2>2 DEF CallInv, PendingWaits, NewIsUndone
  <2>4. QueuedIsMade' /\ QueuedOnce'
    BY <2>1, <2>2, SameCommands, QueueKept
  <2> QED
    BY <2>3, <2>4 DEF CallInv
<1>3. ASSUME Next, \A k \in Kinds : ~Command(k) /\ ~CommandFails(k) PROVE CallInv'
  <2>1. PICK i \in Int : OldCommands(i)
    BY <1>3, NoNewCommand
  <2>2. CASE CallsRest
    <3>1. PendingWaits'
      BY <1>t, <2>2 DEF CallsRest, calls, CallInv, PendingWaits
    <3>2. NewIsUndone'
      BY <2>2 DEF CallsRest, calls, CallInv, NewIsUndone
    <3>3. QueuedIsMade' /\ QueuedOnce'
      BY <2>1, <2>2, QueueKept DEF CallsRest, calls
    <3> QED
      BY <3>1, <3>2, <3>3 DEF CallInv
  <2>3. CASE CallEnds
    <3>1. PendingWaits' /\ \A c \in Calls : fate'[c] = "none" <=> fate[c] = "none"
      BY <2>3, EndsFate DEF CallInv
    <3>2. UNCHANGED performed
      BY <2>3 DEF CallEnds
    <3>3. NewIsUndone'
      BY <3>1, <3>2 DEF CallInv, NewIsUndone
    <3>4. QueuedIsMade' /\ QueuedOnce'
      BY <2>1, <3>1, <3>2, QueueKept
    <3> QED
      BY <3>1, <3>3, <3>4 DEF CallInv
  <2>4. CASE CallDone
    <3> DEFINE b == Head(toBroker).body
    <3>1. /\ b \in Calls /\ fate[b] # "none" /\ performed[b] = 0
          /\ \A c \in Calls : performed'[c] = IF c = b THEN 1 ELSE performed[c]
          /\ \A n \in Nat : Carries(n) /\ toBroker[n].body = b => n = 1
      BY <2>4, DoneOnce
    <3>2. UNCHANGED <<fate, pc, op>> /\ OldCommands(1) /\ toBroker # <<>> /\ toBroker' = Tail(toBroker)
      BY <2>4, TailCommands DEF CallDone
    <3>3. PendingWaits' /\ NewIsUndone'
      BY <3>1, <3>2 DEF CallInv, PendingWaits, NewIsUndone
    <3>4. ASSUME NEW n \in Nat, Carries(n)' PROVE toBroker'[n].body # b
      <4>1. 0 \notin DOMAIN toBroker'
        BY <3>2, TailFacts DEF NetType
      <4>2. n + 1 # 1
        BY <3>4, <4>1 DEF Carries
      <4> QED
        BY <3>1, <3>2, <3>4, <4>2 DEF OldCommands
    <3>5. QueuedIsMade'
      <4>1. ASSUME NEW n \in Nat, Carries(n)'
            PROVE  /\ toBroker'[n].body \in Calls
                   /\ fate'[toBroker'[n].body] # "none" /\ performed'[toBroker'[n].body] = 0
        <5>1. n + 1 \in Nat /\ Carries(n + 1) /\ toBroker'[n] = toBroker[n + 1]
          BY <3>2, <4>1 DEF OldCommands
        <5>2. /\ toBroker'[n].body \in Calls
              /\ fate[toBroker'[n].body] # "none" /\ performed[toBroker'[n].body] = 0
          BY <5>1 DEF CallInv, QueuedIsMade
        <5>3. toBroker'[n].body # b
          BY <3>4, <4>1
        <5> QED
          BY <3>1, <3>2, <5>2, <5>3
      <4> QED
        BY <4>1 DEF QueuedIsMade
    <3>6. QueuedOnce'
      <4>1. ASSUME NEW m \in Nat, NEW n \in Nat, Carries(m)', Carries(n)',
                   toBroker'[m].body = toBroker'[n].body
            PROVE  m = n
        <5>1. m + 1 \in Nat /\ n + 1 \in Nat /\ m + 1 = n + 1
          BY <3>2, <4>1 DEF OldCommands, CallInv, QueuedOnce
        <5> QED
          BY <5>1
      <4> QED
        BY <4>1 DEF QueuedOnce
    <3> QED
      BY <3>3, <3>5, <3>6 DEF CallInv
  <2> QED
    BY <1>3, <2>2, <2>3, <2>4, CallCases
<1>4. CASE UNCHANGED vars
  <2>1. UNCHANGED <<toBroker, fate, performed, pc, op>>
    BY <1>4 DEF vars, net, control, ghost, calls
  <2> QED
    BY <2>1 DEF CallInv, PendingWaits, NewIsUndone, QueuedIsMade, QueuedOnce, Carries
<1> QED
  BY <1>1, <1>2, <1>3, <1>4

LEMMA AlwaysCalls == Spec => []CallInv
  BY CallInit, CallStep, AlwaysTyped, PTL DEF Spec
-----------------------------------------------------------------------------
\* What asks or answers after a step did so before, or the step wrote it.
LEMMA AskingStep ==
    ASSUME TypeInv, TokenInv, Next, \A k \in Kinds : ~Command(k), NEW n \in Nat, Asking(n)'
    PROVE  \/ \E m \in Nat : Asking(m) /\ toBroker'[n] = toBroker[m]
           \/ toBroker'[n].type = "CONNECT"
           \/ toBroker'[n].type = "PUBREL" /\ ReadRequest /\ Head(toClient).type = "PUBREC"
<1> USE DEF TypeInv, net
<1>o. ASSUME NEW i \in {0, 1}, OldRequests(i)
      PROVE  \E m \in Nat : Asking(m) /\ toBroker'[n] = toBroker[m]
  BY <1>o DEF OldRequests
<1>u. up' /\ peer'
  BY DEF Asking, Current
<1>1. CASE Program
  <2>1. CASE Connect
    <3>1. /\ Plain("OPEN") \in BrokerPacket /\ Plain("CONNECT") \in BrokerPacket
          /\ Plain("OPEN").type = "OPEN" /\ Plain("CONNECT").type = "CONNECT"
      BY PlainPackets DEF PacketTypes, Plain, Packet
    <3>2. /\ Len(toBroker) \in Nat /\ DOMAIN toBroker' = 1 .. Len(toBroker) + 2
          /\ toBroker'[Len(toBroker) + 1] = Plain("OPEN")
          /\ toBroker'[Len(toBroker) + 2] = Plain("CONNECT")
      BY <2>1, <3>1, OpenFacts DEF Connect, NetType
    <3>3. n \in 1 .. Len(toBroker) + 2 /\ ~(n <= Len(toBroker) + 1)
      BY <3>1, <3>2 DEF Asking, Current
    <3>4. n = Len(toBroker) + 2
      BY <3>2, <3>3
    <3> QED
      BY <3>1, <3>2, <3>4
  <2>2. CASE OpenNetwork
    <3>1. Plain("OPEN") \in BrokerPacket /\ Plain("OPEN").type = "OPEN"
      BY PlainPackets DEF PacketTypes, Plain, Packet
    <3>2. /\ Len(toBroker) \in Nat /\ DOMAIN toBroker' = 1 .. Len(toBroker) + 1
          /\ toBroker'[Len(toBroker) + 1] = Plain("OPEN")
      BY <2>2, <3>1, AppendFacts DEF OpenNetwork, NetType
    <3>3. n \in 1 .. Len(toBroker) + 1 /\ ~(n <= Len(toBroker) + 1)
      BY <3>1, <3>2 DEF Asking, Current
    <3> QED
      BY <3>2, <3>3
  <2>3. CASE ConnectSkip
    <3>1. Plain("CONNECT") \in BrokerPacket /\ Plain("CONNECT").type = "CONNECT"
      BY PlainPackets DEF PacketTypes, Plain, Packet
    <3>2. \/ Asking(n) /\ toBroker'[n] = toBroker[n]
          \/ toBroker'[n] = Plain("CONNECT")
      BY <2>3, <3>1, WriteRequests DEF ConnectSkip
    <3> QED
      BY <3>1, <3>2
  <2>4. CASE ConnectRefused \/ ConnectUnwritten \/ Disconnect \/ \E k \in Kinds : CommandFails(k)
    BY <1>u, <2>4 DEF ConnectRefused, ConnectUnwritten, Disconnect, CommandFails, Close
  <2>5. CASE Loop
    BY <1>o, <2>5, SameRequests DEF Loop
  <2> QED
    BY <1>1, <2>1, <2>2, <2>3, <2>4, <2>5 DEF Program
<1>2. CASE InCall
  <2>1. CASE ReadRequest
    <3> DEFINE h == Head(toClient)
    <3>1. h \in ClientPacket /\ UNCHANGED <<up, peer>>
      BY <2>1, TailFacts DEF ReadRequest, CanRead, NetType
    <3>2. CASE Answer(h) = <<>>
      BY <1>o, <2>1, <3>1, <3>2, SameRequests DEF ReadRequest
    <3>3. CASE Answer(h) # <<>>
      <4>1. PICK a : a = Head(Answer(h))
        OBVIOUS
      <4>2. a \in BrokerPacket /\ Write(a)
        BY <2>1, <3>1, <3>3, <4>1, AnswerType DEF ReadRequest
      <4>3. \/ h.type = "PUBREC" /\ a.type = "PUBREL"
            \/ ~IsRequest(a)
        BY <3>3, <4>1 DEF Answer, Ack, Packet, IsRequest
      <4>4. \/ Asking(n) /\ toBroker'[n] = toBroker[n]
            \/ toBroker'[n] = a
        BY <3>1, <4>2, WriteRequests
      <4> QED
        BY <2>1, <4>3, <4>4 DEF Asking
    <3> QED
      BY <3>2, <3>3
  <2>2. CASE Ping
    <3>1. Plain("PINGREQ") \in BrokerPacket /\ ~IsRequest(Plain("PINGREQ"))
      BY PlainPackets DEF PacketTypes, IsRequest, Plain, Packet
    <3> QED
      BY <1>o, <2>2, <3>1, WriteRequests DEF Ping
  <2>3. CASE AnswerFails \/ ReadRefusal \/ ReadFails \/ GiveUp \/ PingFails \/ PongTimeout
    BY <1>u, <2>3
    DEF AnswerFails, ReadRefusal, ReadFails, GiveUp, PingFails, PongTimeout, Fail, Close
  <2>4. CASE ReadOther \/ ReadNeedle \/ YieldEnds \/ NoPingDue
    BY <1>o, <2>4, SameRequests DEF ReadOther, ReadNeedle, YieldEnds, NoPingDue
  <2> QED
    BY <1>2, <2>1, <2>2, <2>3, <2>4 DEF InCall
<1>3. CASE World
  <2>1. CASE TimerExpires \/ PingDue
    BY <1>o, <2>1, SameRequests DEF TimerExpires, PingDue
  <2>2. CASE Break \/ LinkDown \/ Reboot
    BY <1>u, <2>2 DEF Break, LinkDown, Reboot, Close
  <2> QED
    BY <1>3, <2>1, <2>2 DEF World
<1>4. CASE Broker
  <2>1. \/ toBroker # <<>> /\ toBroker' = Tail(toBroker)
        \/ UNCHANGED toBroker
    BY <1>4
    DEF Broker, BrokerOpen, Accept, Refuse, HangUp, TakePublish, TakePubrel, TakeSubscribe,
        TakeUnsubscribe, TakePing, TakePuback, TakePubrec, Takes, Send, Release
  <2>2. UNCHANGED up /\ (peer' => peer)
    <3>1. CASE HangUp
      BY <3>1 DEF HangUp
    <3>2. CASE ~HangUp
      <4>1. UNCHANGED <<up, peer>>
        BY <1>4, <3>2
        DEF Broker, BrokerRest, BrokerOpen, Accept, Refuse, TakePublish, TakePubrel, TakeSubscribe,
            TakeUnsubscribe, TakePing, TakePuback, TakePubrec, Send, Release
      <4> QED
        BY <4>1
    <3> QED
      BY <3>1, <3>2
  <2> QED
    BY <1>o, <2>1, <2>2, SameRequests, TailRequests
<1> QED
  BY <1>1, <1>2, <1>3, <1>4 DEF Next

LEMMA AnsweringStep ==
    ASSUME TypeInv, Next, ~Broker, NEW n \in Nat, Answering(n)'
    PROVE  \E m \in Nat : Answering(m) /\ toClient'[n] = toClient[m]
<1> USE DEF TypeInv, net
<1>o. ASSUME NEW i \in {0, 1}, OldReplies(i)
      PROVE  \E m \in Nat : Answering(m) /\ toClient'[n] = toClient[m]
  BY <1>o DEF OldReplies
<1>1. CASE Program
  BY <1>o, <1>1, SameReplies, NoReplies
  DEF Program, Connect, ConnectRefused, ConnectUnwritten, OpenNetwork, ConnectSkip, Command,
      CommandFails, Disconnect, Loop, Close
<1>2. CASE InCall
  <2>1. CASE ReadRequest \/ ReadOther \/ ReadNeedle
    BY <1>o, <2>1, TailReplies DEF ReadRequest, ReadOther, ReadNeedle, CanRead
  <2>2. CASE ~ReadRequest /\ ~ReadOther /\ ~ReadNeedle
    BY <1>o, <1>2, <2>2, SameReplies, NoReplies
    DEF InCall, AnswerFails, ReadRefusal, ReadFails, GiveUp, YieldEnds, NoPingDue, Ping,
        PingFails, PongTimeout, Fail, Close
  <2> QED
    BY <2>1, <2>2
<1>3. CASE World
  BY <1>o, <1>3, SameReplies, NoReplies, PrefixReplies
  DEF World, TimerExpires, PingDue, Break, LinkDown, Reboot, Close
<1> QED
  BY <1>1, <1>2, <1>3 DEF Next

LEMMA AnsweringReply ==
    ASSUME TypeInv, NEW p \in ClientPacket, Reply(p), NEW n \in Nat, Answering(n)'
    PROVE  \/ Answering(n) /\ toClient'[n] = toClient[n]
           \/ Reaches /\ toClient'[n] = p
<1>1. CASE Reaches
  BY <1>1, SendReplies DEF TypeInv, Reply, Reaches, Sends
<1>2. CASE ~Reaches
  BY <1>2 DEF Reply, Answering
<1> QED
  BY <1>1, <1>2

\* Nothing but the call's end takes what it waits for from it, and nothing undoes it.
LEMMA WaitStays ==
    ASSUME TypeInv, CallInv, Next, pc = "wait", pc' = "wait"
    PROVE  /\ UNCHANGED op
           /\ \A c \in Calls : performed[c] = 1 => performed'[c] = 1
<1>1. \A k \in Kinds : ~Command(k) /\ ~CommandFails(k)
  BY DEF Command, CommandFails
<1>2. CASE CallsRest
  BY <1>2 DEF CallsRest, calls
<1>3. CASE CallDone
  BY <1>3, DoneOnce DEF CallDone
<1> QED
  BY <1>1, <1>2, <1>3, CallCases DEF CallEnds

-----------------------------------------------------------------------------
\* The identifier of a QoS 2 call is not one the broker still holds: with a clean
\* session, because the broker forgets them when it accepts the connection and a call
\* ends only after its PUBREL was answered; with a kept one, as long as the device has
\* not restarted and the identifiers have not wrapped.
NoReuse == Clean \/ (MaxReboots = 0 /\ MaxCalls <= MaxPacketId)

Settled == up /\ peer /\ greeted /\ \A p \in Content(toBroker) : p.type \notin {"OPEN", "CONNECT"}

ReleaseUnderWay == \/ \E p \in Content(toBroker) : p.type = "PUBREL"
                   \/ \E p \in Content(toClient) : p.type = "PUBREC"

StoredClean ==
    Settled => \A i \in stored : pc = "wait" /\ op.needle = "PUBCOMP" /\ i = op.id /\ ReleaseUnderWay

IsQos2(p)  == p.type = "PUBLISH" /\ p.qos = 2
StoredKept ==
    /\ \A n \in Nat : Carries(n) /\ IsQos2(toBroker[n]) => toBroker[n].id \notin stored
    /\ \A m, n \in Nat : /\ Carries(m) /\ IsQos2(toBroker[m])
                         /\ Carries(n) /\ IsQos2(toBroker[n])
                         /\ toBroker[m].id = toBroker[n].id
                         => m = n
    /\ \A c \in Calls : fate[c] = "none" =>
         /\ last_packet_id <= c
         /\ stored \subseteq 2 .. last_packet_id
         /\ \A n \in Nat : Carries(n) /\ IsQos2(toBroker[n]) => toBroker[n].id \in 2 .. last_packet_id

\* Nothing of another QoS 2 call is under way, so nothing is stored.
LEMMA NothingStored ==
    ASSUME TypeInv, TokenInv, StoredClean, Settled, NEW n \in Nat,
           \/ Asking(n) /\ toBroker[n].type # "PUBREL"
           \/ Answering(n) /\ toClient[n].type # "PUBREC"
    PROVE  stored = {}
<1> SUFFICES ASSUME NEW i \in stored PROVE FALSE
  OBVIOUS
<1>1. ReleaseUnderWay
  BY DEF StoredClean
<1>2. ASSUME NEW p \in Content(toBroker), p.type = "PUBREL" PROVE FALSE
  <2>1. PICK m \in DOMAIN toBroker : toBroker[m] = p
    BY <1>2 DEF Content
  <2>2. m \in Nat
    BY LenProperties DEF TypeInv, NetType
  <2>3. \A k \in DOMAIN toBroker : toBroker[k].type # "OPEN"
    BY DEF Settled, Content
  <2>4. Asking(m)
    BY <1>2, <2>1, <2>3 DEF Asking, Current, IsRequest, Settled
  <2> QED
    BY <1>2, <2>1, <2>2, <2>4 DEF TokenInv, OneUnderWay
<1>3. ASSUME NEW p \in Content(toClient), p.type = "PUBREC" PROVE FALSE
  <2>1. PICK m \in DOMAIN toClient : toClient[m] = p
    BY <1>3 DEF Content
  <2>2. m \in Nat
    BY LenProperties DEF TypeInv, NetType
  <2>3. Answering(m)
    BY <1>3, <2>1 DEF Answering, IsReply
  <2> QED
    BY <1>3, <2>1, <2>2, <2>3 DEF TokenInv, OneUnderWay
<1> QED
  BY <1>1, <1>2, <1>3 DEF ReleaseUnderWay

LEMMA WriteGrows ==
    ASSUME NetType, NEW p \in BrokerPacket, Write(p)
    PROVE  /\ Content(toBroker) \subseteq Content(toBroker')
           /\ up /\ peer => p \in Content(toBroker')
  BY AppendFacts DEF NetType, Write

LEMMA CleanProgram == TypeInv /\ StoredClean /\ Program => StoredClean'
<1> SUFFICES ASSUME TypeInv, StoredClean, Program, Settled' PROVE stored' = {}
  BY DEF StoredClean
<1> USE DEF TypeInv, net, control, broker
<1>u. up' /\ \A p \in Content(toBroker') : p.type \notin {"OPEN", "CONNECT"}
  BY DEF Settled
<1>p. /\ Plain("OPEN") \in BrokerPacket /\ Plain("CONNECT") \in BrokerPacket
      /\ Plain("OPEN").type = "OPEN" /\ Plain("CONNECT").type = "CONNECT"
  BY PlainPackets DEF PacketTypes, Plain, Packet
<1>k. ASSUME UNCHANGED <<up, peer, greeted, stored>>, Content(toBroker) \subseteq Content(toBroker'),
             pc = "idle"
      PROVE  stored' = {}
  <2>1. Settled
    BY <1>k DEF Settled
  <2> QED
    BY <1>k, <2>1 DEF StoredClean
<1>1. CASE Connect
  <2>1. Plain("OPEN") \in Content(toBroker')
    BY <1>1, <1>p, OpenFacts DEF Connect, NetType
  <2> QED
    BY <1>p, <1>u, <2>1
<1>2. CASE OpenNetwork
  <2>1. Plain("OPEN") \in Content(toBroker')
    BY <1>2, <1>p, AppendFacts DEF OpenNetwork, NetType
  <2> QED
    BY <1>p, <1>u, <2>1
<1>3. CASE ConnectRefused \/ ConnectUnwritten \/ Disconnect \/ \E k \in Kinds : CommandFails(k)
  BY <1>3, <1>u DEF ConnectRefused, ConnectUnwritten, Disconnect, CommandFails, Close
<1>4. CASE ConnectSkip
  BY <1>4, <1>k, <1>p, WriteGrows DEF ConnectSkip
<1>5. ASSUME NEW k \in Kinds, Command(k) PROVE stored' = {}
  <2>n. PICK n : n = IF k = "qos0" THEN 0 ELSE NextId
    OBVIOUS
  <2>p. PICK p : p = Request(k, n, NextCall)
    OBVIOUS
  <2>1. p \in BrokerPacket
    BY <1>5, <2>n, <2>p, NextCallIsLeast, NextIdType, CallAssumption, RequestType DEF Command
  <2>2. Write(p) /\ UNCHANGED <<up, peer, greeted, stored>> /\ pc = "idle"
    BY <1>5, <2>n, <2>p DEF Command
  <2> QED
    BY <1>k, <2>1, <2>2, WriteGrows
<1>6. CASE Loop
  BY <1>6, <1>k DEF Loop
<1> QED
  BY <1>1, <1>2, <1>3, <1>4, <1>5, <1>6 DEF Program

LEMMA CleanInCall == TypeInv /\ TokenInv /\ StoredClean /\ InCall => StoredClean'
<1> SUFFICES ASSUME TypeInv, TokenInv, StoredClean, InCall, Settled'
             PROVE  \A i \in stored' : pc' = "wait" /\ op'.needle = "PUBCOMP" /\ i = op'.id /\ ReleaseUnderWay'
  BY DEF StoredClean
<1> USE DEF TypeInv, net, control, broker
<1>u. up'
  BY DEF Settled
<1>k. ASSUME UNCHANGED <<up, peer, greeted, stored>>, Content(toBroker) \subseteq Content(toBroker')
      PROVE  Settled
  BY <1>k DEF Settled
\* Outside of a call nothing is stored, and nothing is added.
<1>n. ASSUME pc # "wait", UNCHANGED <<up, peer, greeted, stored>>,
             Content(toBroker) \subseteq Content(toBroker')
      PROVE  stored' = {}
  BY <1>k, <1>n DEF StoredClean
<1>1. CASE ReadRequest \/ ReadOther
  <2> DEFINE h == Head(toClient)
  <2>1. /\ h \in ClientPacket /\ h \in Content(toClient)
        /\ Content(toClient) = Content(toClient') \cup {h}
        /\ UNCHANGED <<up, peer, greeted, stored, op>>
        /\ (pc = "wait" => pc' = "wait")
    BY <1>1, TailFacts DEF ReadRequest, ReadOther, CanRead, Counted, NetType
  <2>2. /\ Content(toBroker) \subseteq Content(toBroker')
        /\ h.type = "PUBREC" => \E p \in Content(toBroker') : p.type = "PUBREL"
    <3>1. CASE Answer(h) = <<>> \/ ReadOther
      <4>1. UNCHANGED toBroker
        BY <1>1, <3>1 DEF ReadRequest, ReadOther
      <4>2. h.type # "PUBREC"
        BY <1>1, <3>1 DEF ReadOther, Answer
      <4> QED
        BY <4>1, <4>2
    <3>2. CASE Answer(h) # <<>> /\ ReadRequest
      <4>1. PICK a : a = Head(Answer(h))
        OBVIOUS
      <4>2. a \in BrokerPacket /\ Write(a)
        BY <2>1, <3>2, <4>1, AnswerType DEF ReadRequest
      <4>3. h.type = "PUBREC" => a.type = "PUBREL"
        BY <4>1 DEF Answer, Ack, Packet
      <4>4. up /\ peer
        BY <2>1 DEF Settled
      <4> QED
        BY <4>2, <4>3, <4>4, WriteGrows
    <3> QED
      BY <1>1, <3>1, <3>2
  <2>3. Settled
    BY <1>k, <2>1, <2>2
  <2>4. ReleaseUnderWay => ReleaseUnderWay'
    BY <2>1, <2>2 DEF ReleaseUnderWay
  <2> QED
    BY <2>1, <2>3, <2>4 DEF StoredClean
<1>2. CASE ReadNeedle
  <2>1. /\ toClient # <<>> /\ pc = "wait" /\ Head(toClient).type = op.needle
        /\ UNCHANGED <<up, peer, greeted, stored, toBroker>>
    BY <1>2 DEF ReadNeedle, CanRead
  <2>2. Settled
    BY <1>k, <2>1
  <2>3. Answering(1) /\ toClient[1].type # "PUBREC"
    BY <2>1, TailFacts DEF NetType, Answering, IsReply, TokenInv, OpInv, Needles
  <2>4. stored = {}
    BY <2>2, <2>3, NothingStored
  <2> QED
    BY <2>1, <2>4
<1>3. CASE AnswerFails \/ ReadRefusal \/ ReadFails \/ GiveUp \/ PingFails \/ PongTimeout
  BY <1>3, <1>u
  DEF AnswerFails, ReadRefusal, ReadFails, GiveUp, PingFails, PongTimeout, Fail, Close
<1>4. CASE YieldEnds \/ NoPingDue
  BY <1>4, <1>n DEF YieldEnds, NoPingDue
<1>5. CASE Ping
  <2>1. Plain("PINGREQ") \in BrokerPacket
    BY PlainPackets DEF PacketTypes
  <2> QED
    BY <1>5, <1>n, <2>1, WriteGrows DEF Ping
<1> QED
  BY <1>1, <1>2, <1>3, <1>4, <1>5 DEF InCall

LEMMA CleanWorld == StoredClean /\ World => StoredClean'
<1> USE DEF net, control, broker
<1>1. ASSUME StoredClean, TimerExpires \/ PingDue PROVE StoredClean'
  BY <1>1 DEF TimerExpires, PingDue, StoredClean, Settled, ReleaseUnderWay
<1>2. ASSUME Break \/ LinkDown \/ Reboot PROVE StoredClean'
  BY <1>2 DEF Break, LinkDown, Reboot, Close, StoredClean, Settled
<1> QED
  BY <1>1, <1>2 DEF World

LEMMA CleanBroker ==
    ASSUME Clean, TypeInv, TokenInv, StoredClean, Broker
    PROVE  StoredClean'
<1> SUFFICES ASSUME Settled'
             PROVE  \A i \in stored' : pc' = "wait" /\ op'.needle = "PUBCOMP" /\ i = op'.id /\ ReleaseUnderWay'
  BY DEF StoredClean
<1> USE DEF TypeInv, BrokerRest, control, broker
<1>h. ASSUME NEW t, Takes(t)
      PROVE  /\ Content(toBroker) = Content(toBroker') \cup {Head(toBroker)}
             /\ Head(toBroker).type = t
  BY <1>h, TailFacts DEF Takes, NetType
<1>c. Content(toClient) \subseteq Content(toClient')
  <2>1. CASE UNCHANGED toClient
    BY <2>1
  <2>2. ASSUME NEW p \in ClientPacket, Sends(p) PROVE Content(toClient) \subseteq Content(toClient')
    BY <2>2, AppendFacts DEF Sends, NetType
  <2> QED
    BY <2>1, <2>2, BrokerSends
<1>s. ASSUME NEW t, Takes(t), t \notin {"OPEN", "CONNECT"}, UNCHANGED <<up, peer, greeted>>
      PROVE  Settled /\ Reaches
  <2>1. Settled
    BY <1>h, <1>s DEF Settled
  <2>2. \A n \in 2 .. Len(toBroker) : toBroker[n] \in Content(toBroker)
    <3>1. DOMAIN toBroker = 1 .. Len(toBroker) /\ Len(toBroker) \in Nat
      BY LenProperties DEF NetType
    <3> QED
      BY <3>1 DEF Content
  <2> QED
    BY <2>1, <2>2 DEF Settled, Reaches
\* Another packet than a PUBREL is taken, and what is stored stays.
<1>k. ASSUME Settled, Content(toBroker) \subseteq Content(toBroker') \cup {Head(toBroker)},
             Content(toBroker) = Content(toBroker') \/ Head(toBroker).type # "PUBREL",
             UNCHANGED <<stored, pc, op>>
      PROVE  \A i \in stored' : pc' = "wait" /\ op'.needle = "PUBCOMP" /\ i = op'.id /\ ReleaseUnderWay'
  BY <1>c, <1>k DEF StoredClean, ReleaseUnderWay
<1>1. CASE BrokerOpen \/ Refuse \/ HangUp
  BY <1>1 DEF BrokerOpen, Refuse, HangUp, Settled
<1>2. CASE Accept
  BY <1>2 DEF Accept
<1>3. CASE TakePublish
  <2> DEFINE p == Head(toBroker)
  <2>1. Takes("PUBLISH") /\ UNCHANGED <<up, peer, greeted, pc, op>>
    BY <1>3 DEF TakePublish
  <2>2. Settled /\ Reaches
    BY <1>s, <2>1
  <2>3. CASE p.qos = 2
    <3>1. Asking(1) /\ toBroker[1].type # "PUBREL" /\ p = toBroker[1]
      BY <1>h, <2>1, <2>2, <2>3, ReachedIsAsking DEF IsRequest
    <3>2. stored = {}
      BY <2>2, <3>1, NothingStored
    <3>3. stored' = {p.id}
      BY <1>3, <2>3, <3>2 DEF TakePublish
    <3>4. pc = "wait" /\ p.id = op.id /\ op.needle = "PUBCOMP"
      BY <1>h, <2>1, <2>3, <3>1 DEF TokenInv, RequestIsMine, Mine, RequestFor
    <3>5. Ack("PUBREC", p.id) \in Content(toClient') /\ Ack("PUBREC", p.id).type = "PUBREC"
      <4>1. Ack("PUBREC", p.id) \in ClientPacket
        BY <2>1, TakesType, AnswersType
      <4>2. toClient' = Append(toClient, Ack("PUBREC", p.id))
        BY <1>3, <2>2, <2>3 DEF TakePublish, Reply
      <4> QED
        BY <4>1, <4>2, AppendFacts DEF NetType, Ack, Packet
    <3>6. ReleaseUnderWay'
      BY <3>5 DEF ReleaseUnderWay
    <3> QED
      BY <2>1, <3>3, <3>4, <3>6
  <2>4. CASE p.qos # 2
    <3>1. UNCHANGED stored
      BY <1>3, <2>4 DEF TakePublish
    <3> QED
      BY <1>h, <1>k, <2>1, <2>2, <3>1
  <2> QED
    BY <2>3, <2>4
<1>4. CASE TakePubrel
  <2> DEFINE p == Head(toBroker)
  <2>1. Takes("PUBREL") /\ UNCHANGED <<up, peer, greeted, pc, op>> /\ stored' = stored \ {p.id}
    BY <1>4 DEF TakePubrel
  <2>2. Settled /\ Reaches
    BY <1>s, <2>1
  <2>3. p.id = op.id
    BY <1>h, <2>1, <2>2, ReachedIsAsking DEF IsRequest, TokenInv, RequestIsMine, Mine
  <2>4. stored' = {}
    BY <2>1, <2>2, <2>3 DEF StoredClean
  <2> QED
    BY <2>4
<1>5. CASE TakeSubscribe \/ TakeUnsubscribe \/ TakePing \/ TakePuback \/ TakePubrec
  <2>1. PICK t \in {"SUBSCRIBE", "UNSUBSCRIBE", "PINGREQ", "PUBACK", "PUBCOMP", "PUBREC"} : Takes(t)
    BY <1>5 DEF TakeSubscribe, TakeUnsubscribe, TakePing, TakePuback, TakePubrec
  <2>2. UNCHANGED <<up, peer, greeted, stored, pc, op>>
    BY <1>5 DEF TakeSubscribe, TakeUnsubscribe, TakePing, TakePuback, TakePubrec
  <2> QED
    BY <1>h, <1>k, <1>s, <2>1, <2>2
<1>6. CASE \E m \in Msgs : Send(m) \/ Release(m)
  <2>1. UNCHANGED <<up, peer, greeted, stored, pc, op, toBroker>>
    BY <1>6 DEF Send, Release
  <2>2. Settled
    BY <2>1 DEF Settled
  <2> QED
    BY <1>k, <2>1, <2>2
<1> QED
  BY <1>1, <1>2, <1>3, <1>4, <1>5, <1>6 DEF Broker

LEMMA CleanStep == Clean /\ TypeInv /\ TokenInv /\ StoredClean /\ [Next]_vars => StoredClean'
<1>1. ASSUME StoredClean, UNCHANGED vars PROVE StoredClean'
  BY <1>1 DEF vars, net, control, broker, StoredClean, Settled, ReleaseUnderWay
<1> QED
  BY <1>1, CleanProgram, CleanInCall, CleanWorld, CleanBroker DEF Next

LEMMA CleanInit == Init => StoredClean
  BY DEF Init, StoredClean
-----------------------------------------------------------------------------
LEMMA KeptInit == Init => StoredKept
<1> SUFFICES ASSUME Init PROVE StoredKept
  OBVIOUS
<1>1. DOMAIN toBroker = {} /\ stored = {} /\ last_packet_id = 1
  BY DEF Init
<1>2. \A c \in Calls : 1 <= c
  BY CallAssumption DEF Calls
<1> QED
  BY <1>1, <1>2 DEF StoredKept, Carries

\* No QoS 2 call is queued, and no identifier is taken.
LEMMA KeptOld ==
    ASSUME StoredKept, NEW i \in Int, OldCommands(i), stored' \subseteq stored,
           UNCHANGED last_packet_id, \A c \in Calls : fate'[c] = "none" => fate[c] = "none"
    PROVE  StoredKept'
<1>1. ASSUME NEW n \in Nat, Carries(n)', IsQos2(toBroker[n])'
      PROVE  /\ n + i \in Nat /\ Carries(n + i) /\ IsQos2(toBroker[n + i])
             /\ toBroker'[n].id = toBroker[n + i].id
  BY <1>1 DEF OldCommands, IsQos2
<1>2. ASSUME NEW n \in Nat, Carries(n)', IsQos2(toBroker[n])'
      PROVE  toBroker'[n].id \notin stored'
  BY <1>1, <1>2 DEF StoredKept
<1>3. ASSUME NEW m \in Nat, NEW n \in Nat, Carries(m)', IsQos2(toBroker[m])', Carries(n)',
             IsQos2(toBroker[n])', toBroker'[m].id = toBroker'[n].id
      PROVE  m = n
  <2>1. m + i = n + i
    BY <1>1, <1>3 DEF StoredKept
  <2> QED
    BY <2>1
<1>4. ASSUME NEW c \in Calls, fate'[c] = "none"
      PROVE  /\ last_packet_id' <= c
             /\ stored' \subseteq 2 .. last_packet_id'
             /\ \A n \in Nat : Carries(n)' /\ IsQos2(toBroker[n])' => toBroker'[n].id \in 2 .. last_packet_id'
  BY <1>1, <1>4 DEF StoredKept
<1> QED
  BY <1>2, <1>3, <1>4 DEF StoredKept

\* The identifier a call gets is none of those in use, and if it wraps no call is left.
LEMMA NumberIsNew ==
    ASSUME SessionType, StoredKept, MaxCalls <= MaxPacketId, \E c \in Calls : fate[c] = "none"
    PROVE  /\ stored \subseteq 2 .. last_packet_id
           /\ \A n \in Nat : Carries(n) /\ IsQos2(toBroker[n]) => toBroker[n].id \in 2 .. last_packet_id
           /\ NextId \notin 2 .. last_packet_id
           /\ \A d \in Calls : fate[d] = "none" /\ d # NextCall =>
                last_packet_id <= d /\ NextId = last_packet_id + 1 /\ NextId <= d
<1> DEFINE c == NextCall
<1>1. c \in Calls /\ fate[c] = "none" /\ \A d \in Calls : fate[d] = "none" => c <= d
  BY NextCallIsLeast
<1>2. /\ last_packet_id <= c
      /\ stored \subseteq 2 .. last_packet_id
      /\ \A n \in Nat : Carries(n) /\ IsQos2(toBroker[n]) => toBroker[n].id \in 2 .. last_packet_id
  BY <1>1 DEF StoredKept
<1>3. /\ last_packet_id \in Nat /\ MaxCalls \in Nat /\ MaxPacketId \in Nat
      /\ \A d \in Calls : d \in Nat /\ d <= MaxCalls
  BY CallAssumption DEF SessionType, Calls
<1>4. NextId \notin 2 .. last_packet_id
  BY <1>3 DEF NextId
<1>5. ASSUME NEW d \in Calls, fate[d] = "none", d # c
      PROVE  last_packet_id <= d /\ NextId = last_packet_id + 1 /\ NextId <= d
  <2> HIDE DEF c
  <2>1. c < d /\ last_packet_id < d /\ d <= MaxPacketId
    BY <1>1, <1>2, <1>3, <1>5
  <2> QED
    BY <1>3, <2>1 DEF NextId
<1> QED
  BY <1>2, <1>4, <1>5

LEMMA KeptStep ==
    ASSUME ~Clean, MaxReboots = 0, MaxCalls <= MaxPacketId,
           TypeInv, CallInv, StoredKept, [Next]_vars
    PROVE  StoredKept'
<1> USE DEF TypeInv, broker, session
<1>f. fate \in [Calls -> {"none", "pending", "true", "false", "lost"}] /\ last_packet_id \in Nat
  BY DEF CallsType, SessionType
<1>1. ASSUME NEW k \in Kinds, Command(k) PROVE StoredKept'
  <2>n. PICK n : n = IF k = "qos0" THEN 0 ELSE NextId
    OBVIOUS
  <2>c. PICK c : c = NextCall
    OBVIOUS
  <2>p. PICK p : p = Request(k, n, c)
    OBVIOUS
  <2>1. /\ c \in Calls /\ n \in 0 .. MaxPacketId /\ (k # "qos0" => n # 0) /\ k \in AllKinds
    BY <1>1, <2>n, <2>c, NextCallIsLeast, NextIdType, CallAssumption DEF Command
  <2>2. p \in BrokerPacket
    BY <2>1, <2>p, RequestType
  <2>3. IsQos2(p) => p.id = NextId /\ k # "qos0"
    BY <2>1, <2>n, <2>p DEF AllKinds, Request, Packet, IsQos2
  <2>4. /\ Write(p) /\ UNCHANGED stored
        /\ last_packet_id' = IF k = "qos0" THEN last_packet_id ELSE NextId
    BY <1>1, <2>n, <2>c, <2>p DEF Command
  <2>5. \A d \in Calls : fate'[d] = "none" => d # c /\ fate[d] = "none"
    BY <1>1, <1>f, <2>1, <2>c DEF Command
  <2>6. /\ stored \subseteq 2 .. last_packet_id
        /\ \A m \in Nat : Carries(m) /\ IsQos2(toBroker[m]) => toBroker[m].id \in 2 .. last_packet_id
        /\ NextId \notin 2 .. last_packet_id
        /\ \A d \in Calls : fate[d] = "none" /\ d # c =>
             last_packet_id <= d /\ NextId = last_packet_id + 1 /\ NextId <= d
    BY <1>1, <2>c, NumberIsNew DEF Command
  <2>7. ASSUME NEW m \in Nat, Carries(m)', IsQos2(toBroker[m])'
        PROVE  \/ Carries(m) /\ IsQos2(toBroker[m]) /\ toBroker'[m] = toBroker[m]
               \/ m = Len(toBroker) + 1 /\ toBroker'[m].id = NextId /\ k # "qos0"
    BY <2>2, <2>3, <2>4, <2>7, WriteCommands DEF IsQos2
  <2>8. ASSUME NEW m \in Nat, Carries(m)', IsQos2(toBroker[m])'
        PROVE  toBroker'[m].id \notin stored'
    BY <2>4, <2>6, <2>7, <2>8 DEF StoredKept
  <2>9. ASSUME NEW l \in Nat, NEW m \in Nat, Carries(l)', IsQos2(toBroker[l])', Carries(m)',
               IsQos2(toBroker[m])', toBroker'[l].id = toBroker'[m].id
        PROVE  l = m
    BY <2>6, <2>7, <2>9 DEF StoredKept
  <2>10. ASSUME NEW d \in Calls, fate'[d] = "none"
         PROVE  /\ last_packet_id' <= d
                /\ stored' \subseteq 2 .. last_packet_id'
                /\ \A m \in Nat : Carries(m)' /\ IsQos2(toBroker[m])' => toBroker'[m].id \in 2 .. last_packet_id'
    <3>1. last_packet_id <= d /\ NextId = last_packet_id + 1 /\ NextId <= d
      BY <2>5, <2>6, <2>10
    <3>2. last_packet_id' \in {last_packet_id, last_packet_id + 1} /\ last_packet_id' <= d
      BY <2>4, <3>1
    <3>3. 2 .. last_packet_id \subseteq 2 .. last_packet_id'
      BY <1>f, <3>2
    <3>4. k # "qos0" => NextId \in 2 .. last_packet_id'
      <4>1. last_packet_id \in 1 .. MaxPacketId
        BY DEF SessionType
      <4> QED
        BY <1>f, <2>4, <3>1, <4>1
    <3> QED
      BY <2>4, <2>6, <2>7, <3>2, <3>3, <3>4
  <2> QED
    BY <2>8, <2>9, <2>10 DEF StoredKept
<1>2. ASSUME NEW k \in Kinds, CommandFails(k) PROVE StoredKept'
  <2>1. /\ UNCHANGED <<stored, toBroker>>
        /\ last_packet_id' = IF k = "qos0" THEN last_packet_id ELSE NextId
    BY <1>2 DEF CommandFails
  <2>2. \A d \in Calls : fate'[d] = "none" => d # NextCall /\ fate[d] = "none"
    BY <1>2, <1>f, NextCallIsLeast DEF CommandFails
  <2>3. /\ stored \subseteq 2 .. last_packet_id
        /\ \A m \in Nat : Carries(m) /\ IsQos2(toBroker[m]) => toBroker[m].id \in 2 .. last_packet_id
        /\ \A d \in Calls : fate[d] = "none" /\ d # NextCall =>
             last_packet_id <= d /\ NextId = last_packet_id + 1 /\ NextId <= d
    BY <1>2, NumberIsNew DEF CommandFails
  <2>4. ASSUME NEW d \in Calls, fate'[d] = "none"
        PROVE  /\ last_packet_id' <= d
               /\ 2 .. last_packet_id \subseteq 2 .. last_packet_id'
    <3>1. last_packet_id <= d /\ NextId = last_packet_id + 1 /\ NextId <= d
      BY <2>2, <2>3, <2>4
    <3>2. last_packet_id' \in {last_packet_id, last_packet_id + 1} /\ last_packet_id' <= d
      BY <2>1, <3>1
    <3> QED
      BY <1>f, <3>2
  <2> QED
    BY <2>1, <2>3, <2>4 DEF StoredKept, Carries, IsQos2
<1>3. CASE TakePublish
  <2> DEFINE p == Head(toBroker)
  <2>1. /\ p = toBroker[1] /\ 1 \in Nat /\ Carries(1) /\ OldCommands(1)
        /\ UNCHANGED <<fate, last_packet_id>> /\ 0 \notin DOMAIN toBroker'
    <3>1. toBroker # <<>> /\ toBroker' = Tail(toBroker) /\ p.type = "PUBLISH"
      BY <1>3 DEF TakePublish, Takes
    <3>2. UNCHANGED <<fate, last_packet_id>>
      BY <1>3 DEF TakePublish, BrokerRest
    <3>3. p = toBroker[1] /\ 1 \in DOMAIN toBroker /\ 0 \notin DOMAIN toBroker'
      BY <3>1, TailFacts DEF NetType
    <3> QED
      BY <3>1, <3>2, <3>3, TailCommands DEF Carries, IsCommand
  <2>2. CASE stored' = stored
    BY <2>1, <2>2, KeptOld
  <2>3. CASE stored' # stored
    <3>1. stored' = stored \cup {p.id} /\ IsQos2(p)
      BY <1>3, <2>3 DEF TakePublish, Takes, IsQos2
    <3>2. ASSUME NEW n \in Nat, Carries(n)', IsQos2(toBroker[n])'
          PROVE  /\ n + 1 \in Nat /\ n + 1 # 1 /\ Carries(n + 1) /\ IsQos2(toBroker[n + 1])
                 /\ toBroker'[n].id = toBroker[n + 1].id
      <4>1. n # 0
        BY <2>1, <3>2 DEF Carries
      <4> QED
        BY <2>1, <3>2, <4>1 DEF OldCommands, IsQos2
    <3>3. ASSUME NEW n \in Nat, Carries(n)', IsQos2(toBroker[n])'
          PROVE  toBroker'[n].id \notin stored'
      BY <2>1, <3>1, <3>2, <3>3 DEF StoredKept
    <3>4. ASSUME NEW m \in Nat, NEW n \in Nat, Carries(m)', IsQos2(toBroker[m])', Carries(n)',
                 IsQos2(toBroker[n])', toBroker'[m].id = toBroker'[n].id
          PROVE  m = n
      <4>1. m + 1 = n + 1
        BY <3>2, <3>4 DEF StoredKept
      <4> QED
        BY <4>1
    <3>5. ASSUME NEW c \in Calls, fate'[c] = "none"
          PROVE  /\ last_packet_id' <= c
                 /\ stored' \subseteq 2 .. last_packet_id'
                 /\ \A n \in Nat : Carries(n)' /\ IsQos2(toBroker[n])' => toBroker'[n].id \in 2 .. last_packet_id'
      BY <2>1, <3>1, <3>2, <3>5 DEF StoredKept
    <3> QED
      BY <3>3, <3>4, <3>5 DEF StoredKept
  <2> QED
    BY <2>2, <2>3
<1>4. CASE Reboot
  BY <1>4 DEF Reboot, SessionType
<1>5. ASSUME Next, ~TakePublish, ~Reboot, \A k \in Kinds : ~Command(k) /\ ~CommandFails(k)
      PROVE  StoredKept'
  <2>1. PICK i \in Int : OldCommands(i)
    BY <1>5, NoNewCommand
  <2>2. \A c \in Calls : fate'[c] = "none" => fate[c] = "none"
    BY <1>5, CallCases, EndsFate DEF CallsRest, CallDone, calls, CallInv
  <2>3. UNCHANGED last_packet_id /\ stored' \subseteq stored
    <3>1. CASE Program
      BY <1>5, <3>1
      DEF Program, Connect, ConnectRefused, ConnectUnwritten, OpenNetwork, ConnectSkip,
          Disconnect, Loop
    <3>2. CASE InCall
      BY <3>2
      DEF InCall, ReadRequest, AnswerFails, ReadOther, ReadNeedle, ReadRefusal, ReadFails, GiveUp,
          YieldEnds, NoPingDue, Ping, PingFails, PongTimeout, Fail
    <3>3. CASE World
      BY <1>5, <3>3 DEF World, TimerExpires, PingDue, Break, LinkDown
    <3>4. CASE Broker
      <4>1. CASE TakePubrel
        BY <4>1 DEF TakePubrel, BrokerRest
      <4>2. CASE ~TakePubrel
        BY <1>5, <3>4, <4>2
        DEF Broker, BrokerRest, BrokerOpen, Accept, Refuse, HangUp, TakeSubscribe,
            TakeUnsubscribe, TakePing, TakePuback, TakePubrec, Send, Release
      <4> QED
        BY <4>1, <4>2
    <3> QED
      BY <1>5, <3>1, <3>2, <3>3, <3>4 DEF Next
  <2> QED
    BY <2>1, <2>2, <2>3, KeptOld
<1>6. CASE UNCHANGED vars
  <2>1. UNCHANGED <<toBroker, fate, stored, last_packet_id>>
    BY <1>6 DEF vars, net, ghost, calls
  <2> QED
    BY <2>1, SameCommands, KeptOld
<1> QED
  BY <1>1, <1>2, <1>3, <1>4, <1>5, <1>6
-----------------------------------------------------------------------------
StoredInv == IF Clean THEN StoredClean ELSE StoredKept

\* A PUBLISH the broker holds for one it has already is not of the call that waits.
LEMMA NotHeld ==
    ASSUME TypeInv, TokenInv, StoredInv, TakePublish, Reaches, Head(toBroker).qos = 2
    PROVE  Head(toBroker).id \notin stored
<1> DEFINE p == Head(toBroker)
<1>1. Takes("PUBLISH") /\ greeted /\ p.type = "PUBLISH"
  BY DEF TakePublish, Takes
<1>2. Asking(1) /\ p = toBroker[1] /\ 1 \in Nat
  BY <1>1, ReachedIsAsking DEF IsRequest
<1>3. CASE Clean
  <2>1. ASSUME NEW q \in Content(toBroker), q.type \in {"OPEN", "CONNECT"} PROVE FALSE
    <3>1. PICK m \in DOMAIN toBroker : toBroker[m] = q
      BY <2>1 DEF Content
    <3>2. m \in Nat /\ DOMAIN toBroker = 1 .. Len(toBroker) /\ Len(toBroker) \in Nat
      BY LenProperties DEF TypeInv, NetType
    <3>3. m # 1
      BY <1>1, <1>2, <2>1, <3>1
    <3>4. q.type = "CONNECT"
      BY <2>1, <3>1, <3>2, <3>3 DEF Reaches
    <3>5. \A k \in DOMAIN toBroker : k >= m => toBroker[k].type # "OPEN"
      BY <3>2, <3>3 DEF Reaches
    <3>6. Asking(m)
      BY <3>1, <3>4, <3>5 DEF Asking, Current, IsRequest, Reaches
    <3> QED
      BY <1>2, <3>2, <3>3, <3>6 DEF TokenInv, OneUnderWay
  <2>2. Settled
    BY <1>1, <2>1 DEF Settled, Reaches
  <2>3. StoredClean
    BY <1>3 DEF StoredInv
  <2>4. stored = {}
    BY <1>1, <1>2, <2>2, <2>3, NothingStored
  <2> QED
    BY <2>4
<1>4. CASE ~Clean
  <2>1. Carries(1) /\ IsQos2(toBroker[1])
    BY <1>1, <1>2 DEF Carries, Asking, IsCommand, IsQos2
  <2>2. StoredKept
    BY <1>4 DEF StoredInv
  <2> QED
    BY <1>2, <2>1, <2>2 DEF StoredKept
<1> QED
  BY <1>3, <1>4

\* The request under way is the one of the call that waits, and what answers it says
\* that the broker has performed the call; a PUBREL follows such an answer.
Grants(p)   == p.type # "CONNACK" /\ (p.type = "SUBACK" => p.body = 0)
RequestDone == \A n \in Nat : Asking(n) =>
                  /\ IsCommand(toBroker[n]) => toBroker[n].body = op.call
                  /\ toBroker[n].type = "PUBREL" => performed[op.call] = 1
ReplyDone   == \A n \in Nat : Answering(n) /\ Grants(toClient[n]) => performed[op.call] = 1

DoneInv == RequestDone /\ ReplyDone

LEMMA DoneInit == Init => DoneInv
<1> SUFFICES ASSUME Init PROVE DoneInv
  OBVIOUS
<1>1. DOMAIN toBroker = {} /\ DOMAIN toClient = {}
  BY DEF Init
<1> QED
  BY <1>1 DEF DoneInv, RequestDone, ReplyDone, Asking, Answering

LEMMA RequestDoneStep ==
    ASSUME TypeInv, TokenInv, TokenInv', CallInv, DoneInv, Next
    PROVE  RequestDone'
<1> SUFFICES ASSUME NEW n \in Nat, Asking(n)'
             PROVE  /\ IsCommand(toBroker'[n]) => toBroker'[n].body = op'.call
                    /\ toBroker'[n].type = "PUBREL" => performed'[op'.call] = 1
  BY DEF RequestDone
<1>w. pc' = "wait"
  BY DEF TokenInv, RequestIsMine, Mine
<1>1. ASSUME NEW m \in Nat, Asking(m), toBroker'[n] = toBroker[m]
      PROVE  /\ IsCommand(toBroker'[n]) => toBroker'[n].body = op'.call
             /\ toBroker'[n].type = "PUBREL" => performed'[op'.call] = 1
  <2>1. pc = "wait" /\ RequestFor(op.needle, toBroker[m])
    BY <1>1 DEF TokenInv, RequestIsMine, Mine
  <2>2. UNCHANGED op /\ \A c \in Calls : performed[c] = 1 => performed'[c] = 1
    BY <1>w, <2>1, WaitStays
  <2>3. toBroker[m].type = "PUBREL" => op.call \in Calls
    BY <2>1 DEF RequestFor, TokenInv, OpInv
  <2> QED
    BY <1>1, <2>2, <2>3 DEF DoneInv, RequestDone
<1>2. CASE toBroker'[n].type = "CONNECT"
  BY <1>2 DEF IsCommand
<1>3. CASE toBroker'[n].type = "PUBREL" /\ ReadRequest /\ Head(toClient).type = "PUBREC"
  <2>1. Head(toClient) = toClient[1] /\ 1 \in DOMAIN toClient
    BY <1>3, TailFacts DEF TypeInv, NetType, ReadRequest, CanRead
  <2>2. Answering(1) /\ Grants(toClient[1])
    BY <1>3, <2>1 DEF Answering, IsReply, Grants
  <2>3. UNCHANGED <<op, performed>>
    BY <1>3 DEF ReadRequest, Counted, calls
  <2> QED
    BY <1>3, <2>2, <2>3 DEF DoneInv, ReplyDone, IsCommand
<1>4. ASSUME NEW k \in Kinds, Command(k)
      PROVE  /\ IsCommand(toBroker'[n]) => toBroker'[n].body = op'.call
             /\ toBroker'[n].type = "PUBREL" => performed'[op'.call] = 1
  <2>1. k # "qos0" /\ pc # "wait"
    BY <1>w, <1>4 DEF Command, control
  <2>n. PICK i : i = NextId
    OBVIOUS
  <2>p. PICK p : p = Request(k, i, NextCall)
    OBVIOUS
  <2>2. k \in AllKinds /\ p \in BrokerPacket
    BY <1>4, <2>n, <2>p, NextCallIsLeast, NextIdType, CallAssumption, RequestType
    DEF Command, TypeInv
  <2>3. Write(p) /\ UNCHANGED <<up, peer>> /\ op'.call = NextCall
    BY <1>4, <2>1, <2>n, <2>p DEF Command
  <2>4. p.body = NextCall /\ p.type # "PUBREL"
    BY <2>1, <2>2, <2>p DEF AllKinds, Request, Packet
  <2>5. ~Asking(n)
    BY <2>1, NotWaiting
  <2>6. toBroker'[n] = p
    BY <2>2, <2>3, <2>5, WriteRequests DEF TypeInv
  <2> QED
    BY <2>3, <2>4, <2>6
<1> QED
  BY <1>1, <1>2, <1>3, <1>4, AskingStep

\* What the broker sends in answer to the request under way, it has done.
LEMMA ReplyDoneBroker ==
    ASSUME TypeInv, TokenInv, CallInv, StoredInv, DoneInv, Broker,
           NEW n \in Nat, Answering(n)', Grants(toClient[n])',
           ~\E m \in Nat : Answering(m) /\ toClient'[n] = toClient[m]
    PROVE  performed'[op.call] = 1
<1> DEFINE h == Head(toBroker)
<1>o. ~(Answering(n) /\ toClient'[n] = toClient[n])
  OBVIOUS
<1>r. ASSUME NEW t, Takes(t), IsRequest(h), Reaches
      PROVE  /\ IsCommand(h) => h.body = op.call
             /\ t = "PUBREL" => performed[op.call] = 1
  <2>1. Asking(1) /\ h = toBroker[1] /\ 1 \in Nat
    BY <1>r, ReachedIsAsking
  <2> QED
    BY <1>r, <2>1 DEF DoneInv, RequestDone, Takes
\* Of a packet that carries a call.
<1>p. ASSUME NEW t, Takes(t), IsCommand(h), Performs(h.body), IsRequest(h), Reaches,
             UNCHANGED <<kind, fate, pc, op, peer>>
      PROVE  performed'[op.call] = 1
  <2>1. CallDone
    BY <1>p DEF CallDone, Takes
  <2>2. h.body \in Calls /\ performed'[h.body] = 1
    BY <2>1, DoneOnce
  <2>3. h.body = op.call
    BY <1>p, <1>r DEF Takes
  <2> QED
    BY <2>2, <2>3
<1> USE DEF BrokerRest, control
<1>1. CASE BrokerOpen \/ TakePuback \/ HangUp
  BY <1>1, <1>o DEF BrokerOpen, TakePuback, HangUp, Answering
<1>2. CASE Accept \/ Refuse
  <2>1. PICK p \in ClientPacket : Reply(p) /\ p.type = "CONNACK"
    BY <1>2, AnswersType DEF Accept, Refuse, Plain, Packet
  <2> QED
    BY <1>o, <2>1, AnsweringReply DEF Grants
<1>3. CASE TakePublish
  <2>1. Takes("PUBLISH") /\ h.type = "PUBLISH"
    BY <1>3 DEF TakePublish, Takes
  <2>2. h.qos # 0
    BY <1>3, <1>o DEF TakePublish, Answering
  <2>3. h.qos \in 0 .. 2 /\ h.id \in Nat
    BY <2>1, TakesType DEF TypeInv
  <2>4. PICK p : p = Ack(IF h.qos = 1 THEN "PUBACK" ELSE "PUBREC", h.id)
    OBVIOUS
  <2>5. p \in ClientPacket /\ Reply(p)
    BY <1>3, <2>2, <2>3, <2>4, AnswersType DEF TakePublish
  <2>6. Reaches
    BY <1>o, <2>5, AnsweringReply
  <2>7. ~(h.qos = 2 /\ h.id \in stored)
    BY <1>3, <2>6, NotHeld
  <2>8. Performs(h.body) /\ UNCHANGED <<kind, fate, pc, op, peer>>
    BY <1>3, <2>7 DEF TakePublish
  <2>9. IsCommand(h) /\ IsRequest(h)
    BY <2>1, <2>2, <2>3 DEF IsCommand, IsRequest
  <2> QED
    BY <1>p, <2>1, <2>6, <2>8, <2>9
<1>4. CASE TakePubrel
  <2>1. Takes("PUBREL") /\ h.type = "PUBREL" /\ UNCHANGED performed
    BY <1>4 DEF TakePubrel, Takes
  <2>2. Ack("PUBCOMP", h.id) \in ClientPacket /\ Reply(Ack("PUBCOMP", h.id))
    BY <1>4, <2>1, TakesType, AnswersType DEF TypeInv, TakePubrel
  <2>3. Reaches
    BY <1>o, <2>2, AnsweringReply
  <2> QED
    BY <1>r, <2>1, <2>3 DEF IsRequest
<1>5. CASE TakeSubscribe
  <2>1. Takes("SUBSCRIBE") /\ h.type = "SUBSCRIBE" /\ UNCHANGED <<kind, fate, pc, op, peer>>
    BY <1>5 DEF TakeSubscribe, Takes
  <2>2. h.id \in Nat
    BY <2>1, TakesType DEF TypeInv
  <2>3. CASE Performs(h.body) /\ Reply(Ack("SUBACK", h.id))
    <3>1. Reaches
      BY <1>o, <2>2, <2>3, AnsweringReply, AnswersType
    <3> QED
      BY <1>p, <2>1, <2>3, <3>1 DEF IsCommand, IsRequest
  <2>4. CASE Reply(Packet("SUBACK", 0, h.id, 128))
    <3>1. toClient'[n] = Packet("SUBACK", 0, h.id, 128)
      BY <1>o, <2>2, <2>4, AnsweringReply, AnswersType
    <3> QED
      BY <3>1 DEF Grants, Packet
  <2> QED
    BY <1>5, <2>3, <2>4 DEF TakeSubscribe
<1>6. CASE TakeUnsubscribe
  <2>1. /\ Takes("UNSUBSCRIBE") /\ h.type = "UNSUBSCRIBE" /\ UNCHANGED <<kind, fate, pc, op, peer>>
        /\ Performs(h.body) /\ Reply(Ack("UNSUBACK", h.id))
    BY <1>6 DEF TakeUnsubscribe, Takes
  <2>2. h.id \in Nat
    BY <2>1, TakesType DEF TypeInv
  <2>3. Reaches
    BY <1>o, <2>1, <2>2, AnsweringReply, AnswersType
  <2> QED
    BY <1>p, <2>1, <2>3 DEF IsCommand, IsRequest
<1>7. CASE TakePing
  <2>1. Plain("PINGRESP") \in ClientPacket /\ Reply(Plain("PINGRESP"))
    BY <1>7, AnswersType DEF TakePing
  <2> QED
    BY <1>o, <2>1, AnsweringReply DEF Answering, IsReply, Plain, Packet
<1>8. CASE TakePubrec
  <2>1. PICK p : p = Ack("PUBREL", h.id)
    OBVIOUS
  <2>2. p \in ClientPacket /\ Reply(p) /\ ~IsReply(p)
    BY <1>8, <2>1, TakesType, AnswersType DEF TypeInv, TakePubrec, IsReply, Ack, Packet
  <2> QED
    BY <1>o, <2>2, AnsweringReply DEF Answering
<1>9. ASSUME NEW m \in Msgs, Send(m) \/ Release(m) PROVE FALSE
  <2>1. PICK p : /\ p = Packet("PUBLISH", MsgQos[m], m, m) \/ p = Ack("PUBREL", m)
                 /\ Sends(p)
    BY <1>9 DEF Send, Release, Reaches, Sends
  <2>2. p \in ClientPacket /\ ~IsReply(p)
    <3>1. p.type \in {"PUBLISH", "PUBREL"}
      BY <2>1 DEF Ack, Packet
    <3> QED
      BY <2>1, <3>1, AnswersType, MessageAssumption DEF IsReply
  <2> QED
    BY <1>o, <2>1, <2>2, SendReplies DEF TypeInv, Answering
<1> QED
  BY <1>1, <1>2, <1>3, <1>4, <1>5, <1>6, <1>7, <1>8, <1>9 DEF Broker

LEMMA DoneStep ==
    ASSUME TypeInv, TokenInv, TokenInv', CallInv, StoredInv, DoneInv, [Next]_vars
    PROVE  DoneInv'
<1>1. CASE Next
  <2>1. ASSUME NEW n \in Nat, Answering(n)', Grants(toClient[n])'
        PROVE  performed'[op'.call] = 1
    <3>1. pc' = "wait"
      BY <2>1 DEF TokenInv, ReplyIsMine, Mine
    <3>2. CASE \E m \in Nat : Answering(m) /\ toClient'[n] = toClient[m]
      <4>1. PICK m \in Nat : Answering(m) /\ toClient'[n] = toClient[m]
        BY <3>2
      <4>2. pc = "wait" /\ ReplyFor(op.needle, toClient[m]) /\ Grants(toClient[m])
        BY <2>1, <4>1 DEF TokenInv, ReplyIsMine, Mine, Grants
      <4>3. UNCHANGED op /\ \A c \in Calls : performed[c] = 1 => performed'[c] = 1
        BY <1>1, <3>1, <4>2, WaitStays
      <4>4. op.call \in Calls
        BY <4>2 DEF Grants, ReplyFor, TokenInv, OpInv
      <4> QED
        BY <4>1, <4>2, <4>3, <4>4 DEF DoneInv, ReplyDone
    <3>3. CASE ~\E m \in Nat : Answering(m) /\ toClient'[n] = toClient[m]
      <4>1. Broker
        BY <1>1, <2>1, <3>3, AnsweringStep
      <4>2. UNCHANGED op
        BY <4>1
        DEF Broker, BrokerRest, BrokerOpen, Accept, Refuse, HangUp, TakePublish, TakePubrel,
            TakeSubscribe, TakeUnsubscribe, TakePing, TakePuback, TakePubrec, Send, Release, control
      <4> QED
        BY <2>1, <3>3, <4>1, <4>2, ReplyDoneBroker
    <3> QED
      BY <3>2, <3>3
  <2>2. ReplyDone'
    BY <2>1 DEF ReplyDone
  <2> QED
    BY <1>1, <2>2, RequestDoneStep DEF DoneInv
<1>2. CASE UNCHANGED vars
  <2>1. UNCHANGED <<up, peer, toBroker, toClient, op, performed>>
    BY <1>2 DEF vars, net, control, ghost, calls
  <2> QED
    BY <2>1 DEF DoneInv, RequestDone, ReplyDone, Asking, Current, Answering
<1> QED
  BY <1>1, <1>2
-----------------------------------------------------------------------------
LEMMA StoredInit == Init => StoredInv
  BY CleanInit, KeptInit DEF StoredInv

LEMMA StoredStep ==
    ASSUME NoReuse, TypeInv, TokenInv, CallInv, StoredInv, [Next]_vars
    PROVE  StoredInv'
  BY CleanStep, KeptStep DEF NoReuse, StoredInv

\* A call that returns true was performed.
LEMMA TrueIsPerformed ==
    ASSUME TypeInv, TokenInv, DoneInv, ReadNeedle, op.call # 0
    PROVE  performed[op.call] = 1
<1>1. /\ toClient # <<>> /\ pc = "wait"
      /\ Head(toClient).type = op.needle /\ Head(toClient).body = 0
  BY DEF ReadNeedle, CanRead, Refuses
<1>2. Head(toClient) = toClient[1] /\ 1 \in DOMAIN toClient
  BY <1>1, TailFacts DEF TypeInv, NetType
<1>3. Answering(1) /\ Grants(toClient[1])
  BY <1>1, <1>2 DEF Answering, IsReply, Grants, TokenInv, OpInv, Needles
<1> QED
  BY <1>3 DEF DoneInv, ReplyDone

\* Every step is one of the abstract calls, or none of their business.
LEMMA Simulation ==
    ASSUME TypeInv, TokenInv, CallInv, DoneInv, [Next]_vars
    PROVE  [Promise!Next]_(Promise!callVars)
<1> USE DEF Promise!Next, Promise!callVars
<1>f. /\ fate \in [Calls -> {"none", "pending", "true", "false", "lost"}] /\ 0 \notin Calls
  BY DEF TypeInv, CallsType, Calls
<1>1. ASSUME NEW k \in Kinds, Command(k) \/ CommandFails(k) PROVE Promise!Next
  <2>1. NextCall \in Calls /\ fate[NextCall] = "none"
    BY <1>1, NextCallIsLeast DEF Command, CommandFails
  <2>2. pc = "idle" /\ UNCHANGED performed /\ kind' = [kind EXCEPT ![NextCall] = k]
    BY <1>1 DEF Command, CommandFails
  <2>3. \A d \in Calls : fate[d] # "pending"
    BY <2>2 DEF CallInv, PendingWaits
  <2>4. \E r \in {"pending", "false"} \cup (IF k = "qos0" THEN {"true"} ELSE {}) :
           fate' = [fate EXCEPT ![NextCall] = r]
    BY <1>1 DEF Command, CommandFails
  <2>5. Promise!Begin(NextCall, k)
    BY <2>1, <2>2, <2>3, <2>4 DEF Promise!Begin
  <2> QED
    BY <2>1, <2>5
<1>2. CASE CallsRest
  BY <1>2 DEF CallsRest, calls
<1>3. CASE CallDone
  <2> DEFINE b == Head(toBroker).body
  <2>1. /\ b \in Calls /\ fate[b] # "none" /\ performed[b] = 0
        /\ performed' = [performed EXCEPT ![b] = 1]
    BY <1>3, DoneOnce
  <2>2. Promise!Perform(b)
    BY <1>3, <2>1 DEF Promise!Perform, CallDone
  <2> QED
    BY <2>1, <2>2
<1>4. CASE CallEnds
  <2>1. PICK r \in {"true", "false", "lost"} : Settle(r) /\ (r = "true" => ReadNeedle)
    BY <1>4 DEF CallEnds
  <2>2. UNCHANGED <<kind, performed>>
    BY <1>4 DEF CallEnds
  <2>3. CASE op.call = 0
    BY <2>1, <2>2, <2>3 DEF Settle
  <2>4. CASE op.call # 0
    <3>1. op.call \in Calls /\ pc = "wait"
      BY <2>4 DEF TypeInv, ControlType, Operation, NoOp
    <3>2. fate[op.call] = "pending" /\ fate' = [fate EXCEPT ![op.call] = r]
      BY <2>1, <2>4, <3>1 DEF Settle, CallInv, PendingWaits
    <3>3. r = "true" => performed[op.call] = 1
      BY <2>1, <2>4, TrueIsPerformed
    <3>4. Promise!Return(op.call, r)
      BY <2>2, <3>2, <3>3 DEF Promise!Return
    <3> QED
      BY <3>1, <3>4
  <2> QED
    BY <2>3, <2>4
<1>5. CASE UNCHANGED vars
  BY <1>5 DEF vars, ghost, calls
<1> QED
  BY <1>1, <1>2, <1>3, <1>4, <1>5, CallCases

LEMMA PublishedStep ==
    ASSUME TypeInv, TokenInv, CallInv, DoneInv, PublishedIsPerformed, [Next]_vars
    PROVE  PublishedIsPerformed'
<1>0. /\ fate \in [Calls -> {"none", "pending", "true", "false", "lost"}]
      /\ kind \in [Calls -> AllKinds \cup {"none"}] /\ performed \in [Calls -> Nat]
  BY DEF TypeInv, CallsType
<1> SUFFICES ASSUME NEW c \in Calls, fate'[c] = "true", kind'[c] # "qos0"
             PROVE  performed'[c] = 1
  BY DEF PublishedIsPerformed
<1>1. CASE UNCHANGED calls
  BY <1>1 DEF calls, PublishedIsPerformed
<1>2. ASSUME NEW d \in Calls, NEW k \in Kinds, Promise!Begin(d, k) PROVE performed'[c] = 1
  BY <1>0, <1>2 DEF Promise!Begin, PublishedIsPerformed
<1>3. ASSUME NEW d \in Calls, Promise!Perform(d) PROVE performed'[c] = 1
  BY <1>0, <1>3 DEF Promise!Perform, PublishedIsPerformed
<1>4. ASSUME NEW d \in Calls, NEW r \in {"true", "false", "lost"}, Promise!Return(d, r)
      PROVE  performed'[c] = 1
  BY <1>0, <1>4 DEF Promise!Return, PublishedIsPerformed
<1> QED
  BY <1>1, <1>2, <1>3, <1>4, Simulation DEF Promise!Next, Promise!callVars, calls

LEMMA AlwaysDone == NoReuse => (Spec => []DoneInv)
<1> SUFFICES ASSUME NoReuse PROVE Spec => []DoneInv
  OBVIOUS
<1>1. TypeInv /\ TokenInv /\ CallInv /\ StoredInv /\ [Next]_vars => StoredInv'
  BY StoredStep
<1>2. TypeInv /\ TokenInv /\ TokenInv' /\ CallInv /\ StoredInv /\ DoneInv /\ [Next]_vars => DoneInv'
  BY DoneStep
<1> QED
  BY <1>1, <1>2, StoredInit, DoneInit, AlwaysTyped, AlwaysToken, AlwaysCalls, PTL DEF Spec

\* Calls of publish with QoS 1 and 2, subscribe and unsubscribe that returned true
\* were performed by the broker, once, whatever broke before or meanwhile; with a kept
\* session, provided the device does not restart and the identifiers do not wrap.
THEOREM TrueMeansPerformed == NoReuse => (Spec => []PublishedIsPerformed)
<1> SUFFICES ASSUME NoReuse PROVE Spec => []PublishedIsPerformed
  OBVIOUS
<1>1. Init => PublishedIsPerformed
  BY DEF Init, PublishedIsPerformed
<1>2. TypeInv /\ TokenInv /\ CallInv /\ DoneInv /\ PublishedIsPerformed /\ [Next]_vars =>
        PublishedIsPerformed'
  BY PublishedStep
<1> QED
  BY <1>1, <1>2, AlwaysTyped, AlwaysToken, AlwaysCalls, AlwaysDone, PTL DEF Spec

\* The client, the network and the broker implement MqttCalls under the same
\* condition: no call is performed before it was made or more than once, and none
\* returns true that was not performed.
THEOREM CallsAreKept == NoReuse => (Spec => CallsPromise)
<1> SUFFICES ASSUME NoReuse PROVE Spec => CallsPromise
  OBVIOUS
<1>1. Init => Promise!Init
  BY DEF Init, Promise!Init
<1>2. TypeInv /\ TokenInv /\ CallInv /\ DoneInv /\ [Next]_vars => [Promise!Next]_(Promise!callVars)
  BY Simulation
<1> QED
  BY <1>1, <1>2, AlwaysTyped, AlwaysToken, AlwaysCalls, AlwaysDone, PTL
  DEF Spec, CallsPromise, Promise!Spec
=============================================================================

------------------------------ MODULE LwmqttCodec ------------------------------
(***************************************************************************)
(* The packets of lwmqtt (lib/MQTT/src/lwmqtt: packet.c, helpers.c,        *)
(* string.c) and the reading of one from the network                       *)
(* (lwmqtt_read_packet_in_buffer in client.c).                             *)
(*                                                                         *)
(* A packet is written into a buffer, with its length computed before it   *)
(* is written, or it is any sequence of bytes the broker sends.  It is     *)
(* read byte by byte until its length is known, then as a whole, and       *)
(* decoded.  The decoders are not told how long the packet is, only how    *)
(* large the buffer is, and what lies behind the packet in it is left from *)
(* an earlier one.                                                         *)
(*                                                                         *)
(* A byte has Radix (128) values and a top bit; the first byte of a packet *)
(* is a record of the fields it holds.                                     *)
(***************************************************************************)
EXTENDS Naturals, SequencesExt

CONSTANTS
    Radix,      \* 128: what a byte of a variable length number holds
    Inputs,     \* packets to write and byte sequences to read
    BufSizes,   \* sizes of the buffer, the same for reading and for writing
    MaxCount    \* max_count of lwmqtt_decode_suback: the size of the caller's array

Byte    == 0 .. 2 * Radix - 1
NumBase == 2 * Radix
Word    == 0 .. NumBase * NumBase - 1
Text    == Seq(Byte)

Receivable == {"CONNACK", "PUBLISH", "PUBACK", "PUBREC", "PUBREL", "PUBCOMP", "SUBACK",
               "UNSUBACK", "PINGRESP"}

PacketTypes == Receivable
               \cup {"NO", "CONNECT", "SUBSCRIBE", "UNSUBSCRIBE", "PINGREQ", "DISCONNECT"}

\* What the first byte of a packet holds.
Fields == [type : PacketTypes, qos : 0 .. 3, retained : BOOLEAN]

\* What the packets that are written are made of, and what a broker may send.
Connects   == [kind : {"CONNECT"}, clientId : Text, keepAlive : Word,
               will : {<<>>} \cup (Text \X Text), username : Text, password : Text]
Publishes  == [kind : {"PUBLISH"}, topic : Text, payload : Text, qos : 0 .. 2, id : Word,
               retained : BOOLEAN]
Requests   == [kind : {"SUBSCRIBE", "UNSUBSCRIBE"}, filters : Seq(Text), id : Word,
               qos : 0 .. 2]
Acks       == [kind : {"PUBACK", "PUBREC", "PUBREL", "PUBCOMP"}, id : Word]
Pings      == [kind : {"PINGREQ"}]
Arrivals   == [kind : {"bytes"}, header : Fields, rest : Text]

ASSUME NumberAssumption == Radix \in Nat \ {0, 1} /\ MaxCount \in Nat
ASSUME BufferAssumption == BufSizes \subseteq Nat \ {0}
ASSUME InputAssumption ==
    Inputs \subseteq Connects \cup Publishes \cup Requests \cup Acks \cup Pings \cup Arrivals

VARIABLES
    input, bufSize,
    phase,    \* "write", "sent", "header", "length", "rest", "decode", "done", or how
              \* it failed: "unwritten", "refused", "lost"
    stream,   \* bytes under way
    buf,      \* bytes of the packet that was read
    result    \* of decoding it

vars == <<input, bufSize, phase, stream, buf, result>>

Header(t, q, r) == [type |-> t, qos |-> q, retained |-> r]
-----------------------------------------------------------------------------
(* Writing. *)

Num(n) == <<n \div NumBase, n % NumBase>>

\* The bytes a variable length number may have.
MaxBytes == 4

\* lwmqtt_varnum_length refuses the largest number of MaxBytes bytes, too.
Overflows(n) == n >= Radix * Radix * Radix * Radix - 1

\* What is left of a number before each of its bytes, and after the last.
Left(n) == LET a == n \div Radix  b == a \div Radix  c == b \div Radix
           IN  <<n, a, b, c, c \div Radix>>

Digits(n) == CHOOSE k \in 1 .. MaxBytes :
                Left(n)[k + 1] = 0 /\ \A j \in 2 .. k : Left(n)[j] > 0

Varnum(n) == [k \in 1 .. Digits(n) |->
                 (Left(n)[k] % Radix) + (IF Left(n)[k + 1] > 0 THEN Radix ELSE 0)]

\* Fault: the length of a string is not cut to 16 bits.
lwmqtt_string_Long(s) == s

lwmqtt_string(s) == SubSeq(s, 1, Len(s) % (NumBase * NumBase))

Str(s) == Num(Len(lwmqtt_string(s))) \o lwmqtt_string(s)

StrLen(s) == 2 + Len(lwmqtt_string(s))

Total(ns) == LET sum[n \in 0 .. Len(ns)] == IF n = 0 THEN 0 ELSE sum[n - 1] + ns[n]
             IN  sum[Len(ns)]

Version == [n \in 1 .. 4 |-> 1]     \* "MQTT"

Given(s) == Len(lwmqtt_string(s)) > 0

ConnectLength(o) ==
    10 + StrLen(o.clientId)
       + (IF o.will = <<>> THEN 0 ELSE StrLen(o.will[1]) + StrLen(o.will[2]))
       + (IF Given(o.username)
            THEN StrLen(o.username) + (IF Given(o.password) THEN StrLen(o.password) ELSE 0)
            ELSE 0)

ConnectBody(o) ==
    Str(Version) \o <<4 % NumBase, 0>> \o Num(o.keepAlive) \o Str(o.clientId)
      \o (IF o.will = <<>> THEN <<>> ELSE Str(o.will[1]) \o Str(o.will[2]))
      \o (IF Given(o.username) THEN Str(o.username) ELSE <<>>)
      \o (IF Given(o.username) /\ Given(o.password) THEN Str(o.password) ELSE <<>>)

\* Fault: the two bytes of the identifier are counted for QoS 2 only.
PublishLength_Qos2(m) ==
    StrLen(m.topic) + Len(m.payload) + (IF m.qos > 1 THEN 2 ELSE 0)

PublishLength(m) == StrLen(m.topic) + Len(m.payload) + (IF m.qos > 0 THEN 2 ELSE 0)

PublishBody(m) == Str(m.topic) \o (IF m.qos > 0 THEN Num(m.id) ELSE <<>>) \o m.payload

SubscribeLength(s) == 2 + Total([n \in DOMAIN s.filters |-> StrLen(s.filters[n]) + 1])

SubscribeBody(s) ==
    Num(s.id) \o FlattenSeq([n \in DOMAIN s.filters |-> Str(s.filters[n]) \o <<s.qos>>])

UnsubscribeLength(s) == 2 + Total([n \in DOMAIN s.filters |-> StrLen(s.filters[n])])

UnsubscribeBody(s) == Num(s.id) \o FlattenSeq([n \in DOMAIN s.filters |-> Str(s.filters[n])])

\* What a packet announces as its remaining length, and what follows.
Length(i) == CASE i.kind = "CONNECT"     -> ConnectLength(i)
               [] i.kind = "PUBLISH"     -> PublishLength(i)
               [] i.kind = "SUBSCRIBE"   -> SubscribeLength(i)
               [] i.kind = "UNSUBSCRIBE" -> UnsubscribeLength(i)
               [] i.kind = "PINGREQ"     -> 0
               [] OTHER                  -> 2

Body(i) == CASE i.kind = "CONNECT"     -> ConnectBody(i)
             [] i.kind = "PUBLISH"     -> PublishBody(i)
             [] i.kind = "SUBSCRIBE"   -> SubscribeBody(i)
             [] i.kind = "UNSUBSCRIBE" -> UnsubscribeBody(i)
             [] i.kind = "PINGREQ"     -> <<>>
             [] OTHER                  -> Num(i.id)

HeaderOf(i) == Header(i.kind,
                      CASE i.kind = "PUBLISH" -> i.qos
                        [] i.kind \in {"SUBSCRIBE", "UNSUBSCRIBE", "PUBREL"} -> 1
                        [] OTHER -> 0,
                      i.kind = "PUBLISH" /\ i.retained)

Packet(i) == <<HeaderOf(i)>> \o Varnum(Length(i)) \o Body(i)
-----------------------------------------------------------------------------
(* Decoding. A cursor has passed `at' bytes and must not pass `end'. *)

Ok(c) == c.err = "none"

Fail(c, e) == [c EXCEPT !.err = e]

Need(c, n) == IF ~Ok(c) THEN c
              ELSE IF c.end - c.at < n THEN Fail(c, "short")
              ELSE [c EXCEPT !.at = @ + n]

\* What lies behind the packet in the buffer is read as 0: any value would do.
At(b, n) == IF n <= Len(b) THEN b[n] ELSE 0

\* What was read between two positions of the cursor.
Between(b, m, n) == [k \in 1 .. n - m |-> At(b, m + k)]

NumAt(b, n) == NumBase * At(b, n + 1) + At(b, n + 2)

\* The bytes of the variable length number: its length and its value.
LastByte(b) == CHOOSE k \in 1 .. Len(b) - 1 : /\ b[1 + k] < Radix
                                              /\ \A j \in 1 .. k - 1 : b[1 + j] >= Radix

ReadVarnum(b) ==
    LET digit(k) == IF k <= LastByte(b) THEN b[1 + k] % Radix ELSE 0
    IN  digit(1) + Radix * (digit(2) + Radix * (digit(3) + Radix * digit(4)))

AfterLength(b) == [at |-> 1 + LastByte(b), end |-> bufSize, err |-> "none"]

\* Faults: the end stays that of the buffer; an identifier is read for QoS 2 only.
BodyOf_Buffer(b) ==
    LET c == AfterLength(b)
    IN  IF ReadVarnum(b) < 2 THEN Fail(c, "mismatch")
        ELSE IF c.end - c.at < ReadVarnum(b) THEN Fail(c, "short")
        ELSE c

HasId_Qos2(b) == b[1].qos = 2

BodyOf(b) ==
    LET c == AfterLength(b)
    IN  IF ReadVarnum(b) < 2 THEN Fail(c, "mismatch")
        ELSE IF c.end - c.at < ReadVarnum(b) THEN Fail(c, "short")
        ELSE [c EXCEPT !.end = c.at + ReadVarnum(b)]

HasId(b) == b[1].qos \in {1, 2}

DecodePublish(b) ==
    LET l == Need(BodyOf(b), 2)
        t == Need(l, NumAt(b, l.at - 2))
        i == IF HasId(b) THEN Need(t, 2) ELSE t
        p == Need(i, i.end - i.at)
    IN  IF ~Ok(p) THEN [cursor |-> p]
        ELSE [cursor   |-> p,
              topic    |-> Between(b, l.at, t.at),
              qos      |-> IF HasId(b) THEN b[1].qos ELSE 0,
              id       |-> IF HasId(b) THEN NumAt(b, t.at) ELSE 0,
              retained |-> b[1].retained,
              payload  |-> Between(b, i.at, p.at)]

DecodeAck(b) ==
    LET c == AfterLength(b)
        p == IF ReadVarnum(b) # 2 THEN Fail(c, "mismatch") ELSE Need(c, 2)
    IN  IF ~Ok(p) THEN [cursor |-> p] ELSE [cursor |-> p, id |-> NumAt(b, p.at - 2)]

DecodeConnack(b) ==
    LET c == AfterLength(b)
        p == IF ReadVarnum(b) # 2 THEN Fail(c, "mismatch") ELSE Need(Need(c, 1), 1)
    IN  [cursor          |-> p,
         session_present |-> Ok(p) /\ At(b, c.at + 1) >= Radix,     \* bit 7
         return_code     |-> IF Ok(p) THEN At(b, p.at) ELSE 0]

\* The codes are stored one by one; `*count > max_count' stops one too late.
Stored(n) == IF n > MaxCount + 1 THEN MaxCount + 1 ELSE n

DecodeSuback(b) ==
    LET c == AfterLength(b)
        n == ReadVarnum(b) - 2
        p == IF ReadVarnum(b) < 3 THEN Fail(c, "mismatch") ELSE Need(c, 2)
        q == Need(p, Stored(n))
    IN  [cursor |-> IF Ok(q) /\ n > Stored(n) THEN Fail(q, "overflow") ELSE q,
         stored |-> IF Ok(p) THEN Stored(n) ELSE 0]

DecodePacket(b) == CASE b[1].type = "PUBLISH"  -> DecodePublish(b)
                     [] b[1].type = "CONNACK"  -> DecodeConnack(b)
                     [] b[1].type = "SUBACK"   -> DecodeSuback(b)
                     [] b[1].type = "PINGRESP" -> [cursor |-> AfterLength(b)]
                     [] OTHER                  -> DecodeAck(b)
-----------------------------------------------------------------------------
Nothing == [cursor |-> [at |-> 0, end |-> 0, err |-> "none"]]

Init == /\ input \in Inputs /\ bufSize \in BufSizes
        /\ phase = "write"
        /\ stream = <<>> /\ buf = <<>> /\ result = Nothing

\* What the broker sends.
Receive == /\ phase = "write" /\ input.kind = "bytes"
           /\ stream' = <<input.header>> \o input.rest
           /\ phase' = "header"
           /\ UNCHANGED <<input, bufSize, buf, result>>

Fits == ~Overflows(Length(input)) /\ Len(Packet(input)) <= bufSize

\* A packet the client sends; one that another client can receive is read there.
Encode == /\ phase = "write" /\ input.kind # "bytes"
          /\ Fits
          /\ stream' = Packet(input)
          /\ phase' = IF input.kind \in Receivable THEN "header" ELSE "sent"
          /\ UNCHANGED <<input, bufSize, buf, result>>

EncodeFails == /\ phase = "write" /\ input.kind # "bytes"
               /\ ~Fits
               /\ phase' = "unwritten"
               /\ UNCHANGED <<input, bufSize, stream, buf, result>>

Take(n) == /\ Len(buf) + n <= bufSize /\ n <= Len(stream)
           /\ buf' = buf \o SubSeq(stream, 1, n)
           /\ stream' = SubSeq(stream, n + 1, Len(stream))

ReadHeader == /\ phase = "header"
              /\ Take(1)
              /\ phase' = IF Head(stream).type \in Receivable THEN "length" ELSE "refused"
              /\ UNCHANGED <<input, bufSize, result>>

\* Only the byte after the last one allowed shows that a number is too long.
ReadLength == /\ phase = "length"
              /\ Take(1)
              /\ phase' = IF Len(buf) = MaxBytes + 1 THEN "refused"
                          ELSE IF Head(stream) >= Radix THEN "length"
                          ELSE "rest"
              /\ UNCHANGED <<input, bufSize, result>>

ReadRest == /\ phase = "rest"
            /\ Take(ReadVarnum(buf))
            /\ phase' = "decode"
            /\ UNCHANGED <<input, bufSize, result>>

\* More than the buffer holds.
TooLong == /\ \/ phase = "length" /\ Len(buf) = bufSize
              \/ phase = "rest" /\ Len(buf) + ReadVarnum(buf) > bufSize
           /\ phase' = "refused"
           /\ UNCHANGED <<input, bufSize, stream, buf, result>>

\* The link breaks or the time runs out in the middle.
ReadStops == /\ phase \in {"header", "length", "rest"}
             /\ phase' = "lost"
             /\ UNCHANGED <<input, bufSize, stream, buf, result>>

Decode == /\ phase = "decode"
          /\ result' = DecodePacket(buf)
          /\ phase' = IF Ok(result'.cursor) THEN "done" ELSE "refused"
          /\ UNCHANGED <<input, bufSize, stream, buf>>

Next == \/ Receive \/ Encode \/ EncodeFails
        \/ ReadHeader \/ ReadLength \/ ReadRest \/ TooLong \/ ReadStops
        \/ Decode

Spec == Init /\ [][Next]_vars
-----------------------------------------------------------------------------
IsPacket(s) == \A n \in DOMAIN s : n > 1 => s[n] \in Byte

TypeOK == /\ input \in Inputs /\ bufSize \in BufSizes
          /\ phase \in {"write", "sent", "unwritten", "header", "length", "rest", "decode",
                        "done", "refused", "lost"}
          /\ IsPacket(stream) /\ IsPacket(buf)
          /\ result.cursor.err \in {"none", "short", "mismatch", "overflow"}

\* packet.c:64-83,370,482-485,554-557,691-694: the length is added up before the packet is
\* written.  In every packet that was just written, a publish, an acknowledgement or any
\* other, it is the number of bytes that follow it, whatever the options, topics and
\* payload, so the broker finds the next packet where it is.
AnnouncedIsWritten ==
    phase = "sent" \/ (phase = "header" /\ input.kind # "bytes") =>
        Len(stream) = 1 + LastByte(stream) + ReadVarnum(stream)

\* A publish that could be written can be read by a client with a buffer of the same
\* size, up to its last byte, and is what was sent.
RoundTrip ==
    input.kind \in Receivable =>
      /\ phase # "refused"
      /\ phase = "done" => stream = <<>>
      /\ phase = "done" /\ input.kind = "PUBLISH" =>
           /\ result.topic = lwmqtt_string(input.topic)
           /\ result.payload = input.payload
           /\ result.qos = input.qos /\ result.retained = input.retained
           /\ input.qos > 0 => result.id = input.id
      /\ phase = "done" /\ input.kind \notin {"PUBLISH", "PINGRESP"} => result.id = input.id

\* client.c:266 and others hand the decoders the whole buffer: whatever the broker
\* sent, they look at no byte that an earlier packet left in it.
OwnBytesOnly == result.cursor.at <= Len(buf)

\* packet.h:163 "The maximum number of members allowed in the granted_qos_levels
\* array."
GrantedFit == "stored" \in DOMAIN result => result.stored <= MaxCount
=============================================================================

-------------------------- MODULE LwmqttCodec_proofs --------------------------
(***************************************************************************)
(* What LwmqttCodec says of a packet, for a byte of any size, texts and    *)
(* lists of any length and buffers of any size.                            *)
(*                                                                         *)
(* The lemmas go the way of the code.  What is added up before a packet is *)
(* written is the length of what is strung together afterwards             *)
(* (BodyIsCounted), the length's own bytes end where they should and say   *)
(* what was written (VarnumIsRead), and no decoder passes the last byte    *)
(* (DecodeStaysInside).  The invariant ReadInv says how much of a packet   *)
(* is in the buffer in every phase, for whatever arrives; SentInv says     *)
(* that, of a packet another client wrote, it is the beginning and the     *)
(* rest is still to come, so that what is decoded is the packet itself     *)
(* (PacketIsReadBack).                                                     *)
(***************************************************************************)
EXTENDS LwmqttCodec, SequenceTheorems, Numbers_proofs

(* The lengths that are added up, and the bytes that are strung together. *)

\* The sum of the first numbers, one by one.
LEMMA TotalIsSum ==
    ASSUME NEW ns \in Seq(Nat)
    PROVE  \E f \in [0 .. Len(ns) -> Nat] :
              /\ Total(ns) = f[Len(ns)]
              /\ f[0] = 0
              /\ \A n \in 1 .. Len(ns) : f[n] = f[n - 1] + ns[n]
<1> PICK N \in Nat : N = Len(ns)
  OBVIOUS
<1> DEFINE step == [n \in 1 .. N |-> [x \in Nat |-> x + ns[n]]]
           Sums == CHOOSE f : f = [n \in 0 .. N |-> IF n = 0 THEN 0 ELSE f[n - 1] + ns[n]]
<1>1. N \in Nat /\ \A n \in 1 .. N : ns[n] \in Nat
  OBVIOUS
<1>2. step \in [1 .. N -> [Nat -> Nat]]
  BY <1>1
<1>3. PICK f \in [0 .. N -> Nat] : f[0] = 0 /\ \A n \in 1 .. N : f[n] = step[n][f[n - 1]]
  <2> HIDE DEF step, Sums
  <2> QED  BY <1>1, <1>2, NatTable
<1>4. \A n \in 1 .. N : f[n - 1] \in Nat /\ step[n][f[n - 1]] = f[n - 1] + ns[n]
  <2>1. \A n \in 1 .. N : f[n - 1] \in Nat
    BY <1>1
  <2> QED  BY <2>1
<1>5. f = [n \in 0 .. N |-> IF n = 0 THEN 0 ELSE f[n - 1] + ns[n]]
  <2> HIDE DEF step, Sums
  <2>1. ASSUME NEW n \in 0 .. N PROVE f[n] = IF n = 0 THEN 0 ELSE f[n - 1] + ns[n]
    <3>1. CASE n = 0
      BY <3>1, <1>3
    <3>2. CASE n \in 1 .. N
      BY <3>2, <1>3, <1>4
    <3> QED  BY <3>1, <3>2
  <2> QED  BY <2>1
<1>6. Sums = [n \in 0 .. N |-> IF n = 0 THEN 0 ELSE Sums[n - 1] + ns[n]]
  BY <1>5
<1>7. Total(ns) = Sums[N]
  BY DEF Total
<1>8. ASSUME NEW t, t = [n \in 0 .. N |-> IF n = 0 THEN 0 ELSE t[n - 1] + ns[n]]
      PROVE  t \in [0 .. N -> Nat] /\ t[0] = 0 /\ \A n \in 1 .. N : t[n] = t[n - 1] + ns[n]
  <2> HIDE DEF step, Sums
  <2>1. DOMAIN t = 0 .. N /\ \A n \in 0 .. N : t[n] = IF n = 0 THEN 0 ELSE t[n - 1] + ns[n]
    BY <1>8
  <2> DEFINE Bad == {n \in 0 .. N : t[n] \notin Nat}
  <2>2. ASSUME Bad # {} PROVE FALSE
    <3>1. Bad \in SUBSET Nat
      BY <1>1
    <3>2. PICK n \in Bad : \A k \in Bad : n <= k
      <4> HIDE DEF Bad
      <4> QED  BY <2>2, <3>1, LeastExists
    <3>3. n # 0
      BY <2>1, <1>1
    <3>4. n - 1 \notin Bad /\ n - 1 \in 0 .. N
      BY <3>2, <3>3, <1>1
    <3>5. n \in 1 .. N /\ t[n - 1] \in Nat /\ ns[n] \in Nat
      BY <3>2, <3>3, <3>4, <1>1
    <3>6. t[n] = t[n - 1] + ns[n]
      BY <2>1, <3>5, <1>1
    <3>7. t[n] \in Nat
      BY <3>5, <3>6
    <3> QED  BY <3>2, <3>7
  <2>3. \A n \in 0 .. N : t[n] \in Nat
    BY <2>2
  <2>4. t \in [0 .. N -> Nat]
    <3>1. t = [n \in 0 .. N |-> t[n]]
      BY <1>8
    <3> QED  BY <3>1, <2>3
  <2>5. t[0] = 0
    BY <2>1, <1>1
  <2>6. \A n \in 1 .. N : t[n] = t[n - 1] + ns[n]
    BY <2>1, <1>1
  <2> QED  BY <2>4, <2>5, <2>6
<1> HIDE DEF Sums, step
<1>9. Sums \in [0 .. N -> Nat] /\ Sums[0] = 0 /\ \A n \in 1 .. N : Sums[n] = Sums[n - 1] + ns[n]
  BY <1>6, <1>8
<1> QED  BY <1>7, <1>9

\* A text behind another one.
LEMMA TextBehind ==
    ASSUME NEW s \in Text, NEW t \in Text
    PROVE  /\ s \o t \in Text /\ Len(s \o t) = Len(s) + Len(t)
           /\ Len(s) \in Nat /\ Len(t) \in Nat
           /\ \A k \in 1 .. Len(s) : (s \o t)[k] = s[k] /\ s[k] \in Byte
           /\ \A k \in 1 .. Len(t) : (s \o t)[Len(s) + k] = t[k] /\ t[k] \in Byte
<1>1. s \in Seq(Byte) /\ t \in Seq(Byte)
  BY DEF Text
<1> QED  BY <1>1, ConcatProperties DEF Text

\* A table of texts, in the form in which SMT finds it.
LEMMA TextTable ==
    \A N \in Nat : \A step \in [1 .. N -> [Text -> Text]] :
       \E f \in [0 .. N -> Text] : f[0] = <<>> /\ \A n \in 1 .. N : f[n] = step[n][f[n - 1]]
<1> DEFINE none == <<>>
<1>1. none \in Text
  BY DEF Text
<1>2. \A N \in Nat : \A step \in [1 .. N -> [Text -> Text]] :
         \E f \in [0 .. N -> Text] : f[0] = none /\ \A n \in 1 .. N : f[n] = step[n][f[n - 1]]
  <2> HIDE DEF none
  <2> QED  BY <1>1, TableExists
<1> QED  BY <1>2

\* Texts one behind the other are a text; every text adds its length.
LEMMA JoinedIsCounted ==
    ASSUME NEW ss \in Seq(Text), NEW ns \in Seq(Nat), Len(ns) = Len(ss),
           \A n \in 1 .. Len(ss) : Len(ss[n]) = ns[n]
    PROVE  FlattenSeq(ss) \in Text /\ Len(FlattenSeq(ss)) = Total(ns)
<1> PICK N \in Nat : N = Len(ss)
  OBVIOUS
<1>1. PICK f \in [0 .. N -> Nat] :
         Total(ns) = f[N] /\ f[0] = 0 /\ \A n \in 1 .. N : f[n] = f[n - 1] + ns[n]
  BY TotalIsSum
<1>2. \A n \in 1 .. N : ss[n] \in Text /\ Len(ss[n]) = ns[n]
  BY DEF Text
<1>3. CASE N = 0
  <2>1. ss = <<>> /\ FlattenSeq(ss) = <<>>
    BY <1>3 DEF FlattenSeq
  <2> QED  BY <2>1, <1>1, <1>3 DEF Text
<1>4. CASE N # 0
  <2> DEFINE Step(t) == [i \in 1 .. N |-> IF i = 1 THEN ss[i] ELSE t[i - 1] \o ss[i]]
             joined == CHOOSE t : t = Step(t)
  <2>1. \E t : t = Step(t)
    <3> DEFINE step == [n \in 1 .. N |-> [x \in Text |-> x \o ss[n]]]
    <3>1. step \in [1 .. N -> [Text -> Text]] /\ <<>> \in Text
      <4>1. \A n \in 1 .. N : \A x \in Text : x \o ss[n] \in Text
        BY <1>2, TextBehind
      <4>2. <<>> \in Text
        BY DEF Text
      <4> QED  BY <4>1, <4>2
    <3>2. PICK t \in [0 .. N -> Text] : t[0] = <<>> /\ \A n \in 1 .. N : t[n] = step[n][t[n - 1]]
      <4> HIDE DEF step, Step, joined
      <4> QED  BY <3>1, TextTable
    <3>3. ASSUME NEW n \in 1 .. N PROVE t[n] = IF n = 1 THEN ss[n] ELSE t[n - 1] \o ss[n]
      <4>1. t[n - 1] \in Text /\ t[n] = t[n - 1] \o ss[n]
        <5>1. t[n - 1] \in Text /\ t[n] = step[n][t[n - 1]]
          <6> HIDE DEF step, Step, joined
          <6>1. n - 1 \in 0 .. N
            OBVIOUS
          <6> QED  BY <6>1, <3>2
        <5> QED  BY <5>1
      <4>2. <<>> \o ss[n] = ss[n]
        <5>1. ss[n] \in Seq(Byte)
          BY <1>2 DEF Text
        <5> QED  BY <5>1, ConcatEmptySeq
      <4>3. CASE n = 1
        <5>1. t[n - 1] = <<>>
          BY <4>3, <3>2
        <5> QED  BY <4>1, <4>2, <4>3, <5>1
      <4> QED  BY <4>1, <4>3
    <3> DEFINE u == [i \in 1 .. N |-> t[i]]
    <3>4. \A i \in 1 .. N : u[i] = IF i = 1 THEN ss[i] ELSE u[i - 1] \o ss[i]
      BY <3>3
    <3>5. u = Step(u)
      <4> HIDE DEF u
      <4>1. u = [i \in 1 .. N |-> u[i]]
        BY DEF u
      <4> QED  BY <3>4, <4>1
    <3> QED  BY <3>5
  <2>2. joined = Step(joined)
    <3> HIDE DEF Step
    <3> QED  BY <2>1
  <2>3. FlattenSeq(ss) = joined[N]
    BY <1>4 DEF FlattenSeq
  <2>4. ASSUME NEW t, t = Step(t) PROVE t[N] \in Text /\ Len(t[N]) = f[N]
    <3>1. \A n \in 1 .. N : t[n] = IF n = 1 THEN ss[n] ELSE t[n - 1] \o ss[n]
      BY <2>4
    <3> HIDE DEF joined, Step
    <3> DEFINE Bad == {n \in 1 .. N : ~(t[n] \in Text /\ Len(t[n]) = f[n])}
    <3>2. ASSUME Bad # {} PROVE FALSE
      <4>1. Bad \in SUBSET Nat
        OBVIOUS
      <4>2. PICK n \in Bad : \A k \in Bad : n <= k
        <5> HIDE DEF Bad
        <5> QED  BY <3>2, <4>1, LeastExists
      <4>3. n \in 1 .. N
        BY <4>2
      <4>4. CASE n = 1
        <5>1. t[n] = ss[n]
          BY <4>3, <4>4, <3>1
        <5>2. f[n] = f[0] + ns[n] /\ f[0] = 0 /\ ns[n] \in Nat
          BY <4>3, <4>4, <1>1, <1>2
        <5>3. t[n] \in Text /\ Len(t[n]) = f[n]
          BY <5>1, <5>2, <1>2, <4>3
        <5> QED  BY <5>3, <4>2
      <4>5. CASE n # 1
        <5>1. t[n] = t[n - 1] \o ss[n] /\ n - 1 \in 1 .. N
          <6>1. n - 1 \in 1 .. N
            BY <4>3, <4>5
          <6> QED  BY <4>3, <4>5, <6>1, <3>1
        <5>2. t[n - 1] \in Text /\ Len(t[n - 1]) = f[n - 1]
          BY <5>1, <4>2, <4>3
        <5>3. t[n] \in Text /\ Len(t[n]) = f[n - 1] + ns[n]
          <6>1. ss[n] \in Text /\ Len(ss[n]) = ns[n]
            BY <4>3, <1>2
          <6> DEFINE u == t[n - 1]
                     v == ss[n]
          <6>2. u \in Text /\ v \in Text /\ Len(u) = f[n - 1] /\ Len(v) = ns[n] /\ t[n] = u \o v
            BY <5>1, <5>2, <6>1
          <6> HIDE DEF u, v
          <6>3. u \o v \in Text /\ Len(u \o v) = Len(u) + Len(v)
            BY <6>2, TextBehind
          <6> QED  BY <6>2, <6>3
        <5>4. f[n] = f[n - 1] + ns[n]
          BY <4>3, <1>1
        <5>5. t[n] \in Text /\ Len(t[n]) = f[n]
          BY <5>3, <5>4
        <5> QED  BY <5>5, <4>2
      <4> QED  BY <4>4, <4>5
    <3> QED  BY <3>2, <1>4
  <2>5. joined[N] \in Text /\ Len(joined[N]) = f[N]
    <3> HIDE DEF joined, Step
    <3> QED  BY <2>2, <2>4
  <2> QED  BY <2>3, <2>5, <1>1
<1> QED  BY <1>3, <1>4

(* The parts of a packet. *)

\* Two bytes say every number of 16 bits.
LEMMA WordIsText ==
    ASSUME NEW n \in Word
    PROVE  /\ Num(n) \in Text /\ Len(Num(n)) = 2
           /\ NumBase * Num(n)[1] + Num(n)[2] = n
<1> DEFINE W == NumBase
<1>1. W \in Nat \ {0} /\ n \in Nat /\ n < W * W /\ Byte = 0 .. W - 1
  <2>1. Radix \in Nat \ {0, 1}
    BY NumberAssumption
  <2>2. NumBase \in Nat \ {0} /\ Byte = 0 .. NumBase - 1
    BY <2>1 DEF NumBase, Byte
  <2>3. NumBase * NumBase \in Nat
    BY <2>2
  <2> QED  BY <2>2, <2>3 DEF Word
<1> HIDE DEF W
<1>2. /\ n \div W \in Nat /\ n % W \in 0 .. W - 1
      /\ n = W * (n \div W) + (n % W)
  <2>1. W \in Nat \ {0} /\ n \in Nat /\ n \in Int
    BY <1>1
  <2> QED  BY <2>1, Division
<1>3. n \div W < W
  <2> PICK q \in Nat : q = n \div W
    BY <1>2
  <2> PICK r \in Nat : r = n % W
    BY <1>2
  <2>1. W * q < W * W /\ W \in Int /\ q \in Int
    <3>1. W * q \in Nat /\ W * q + r < W * W
      BY <1>1, <1>2
    <3> QED  BY <3>1, <1>1
  <2> QED  BY <2>1, <1>1, Smaller
<1>4. Num(n) = <<n \div W, n % W>>
  BY DEF Num, W
<1>5. Num(n) \in Seq(Byte)
  BY <1>1, <1>2, <1>3, <1>4
<1> QED  BY <1>2, <1>4, <1>5 DEF Text, W

\* A string and the 16 bits of its length.
LEMMA StringIsText ==
    ASSUME NEW s \in Text
    PROVE  /\ lwmqtt_string(s) \in Text /\ Len(lwmqtt_string(s)) \in Word
           /\ Str(s) \in Text /\ Len(Str(s)) = StrLen(s) /\ StrLen(s) \in Nat
<1> PICK L \in Nat : L = NumBase * NumBase
  BY NumberAssumption DEF NumBase
<1>1. L > 0
  BY NumberAssumption DEF NumBase
<1> PICK N \in Nat : N = Len(s)
  BY DEF Text
<1>2. N % L \in 0 .. L - 1 /\ N % L <= N
  <2>1. N \div L \in Nat /\ N % L \in 0 .. L - 1 /\ N = L * (N \div L) + (N % L)
    <3>1. L \in Nat \ {0} /\ N \in Int
      BY <1>1
    <3> QED  BY <3>1, Division
  <2> PICK q \in Nat : q = N \div L
    BY <2>1
  <2>2. L * q \in Nat
    OBVIOUS
  <2> QED  BY <2>1, <2>2
<1>3. lwmqtt_string(s) = SubSeq(s, 1, N % L)
  BY DEF lwmqtt_string
<1>4. lwmqtt_string(s) \in Text /\ Len(lwmqtt_string(s)) = N % L
  <2>1. \A i \in 1 .. N % L : s[i] \in Byte
    BY <1>2 DEF Text
  <2>2. N % L \in Int /\ 1 \in Int
    BY <1>2
  <2> QED  BY <1>2, <1>3, <2>1, <2>2, SubSeqProperties DEF Text
<1>5. Len(lwmqtt_string(s)) \in Word
  BY <1>2, <1>4 DEF Word
<1>6. Num(Len(lwmqtt_string(s))) \in Text /\ Len(Num(Len(lwmqtt_string(s)))) = 2
  BY <1>5, WordIsText
<1>7. Str(s) \in Text /\ Len(Str(s)) = 2 + Len(lwmqtt_string(s)) /\ Len(lwmqtt_string(s)) \in Nat
  BY <1>4, <1>6, TextBehind DEF Str
<1> QED  BY <1>4, <1>5, <1>7 DEF StrLen

\* The protocol's name.
LEMMA VersionIsText == Str(Version) \in Text /\ Len(Str(Version)) = 6
<1> PICK v \in Text : v = Version
  <2>1. 1 \in Byte
    BY NumberAssumption DEF Byte
  <2>2. Version \in Seq(Byte)
    BY <2>1 DEF Version
  <2> QED  BY <2>2 DEF Text
<1>1. Len(v) = 4
  BY DEF Version
<1>2. lwmqtt_string(v) = v
  <2>1. PICK L \in Nat : L = NumBase * NumBase /\ L > 4
    <3>1. PICK d \in Nat : Radix = 2 + d
      BY NumberAssumption
    <3>2. NumBase * NumBase = 16 + 16 * d + 4 * (d * d) /\ d * d \in Nat
      BY <3>1 DEF NumBase
    <3> QED  BY <3>2
  <2>2. 4 % L = 4
    BY <2>1
  <2> QED  BY <1>1, <2>1, <2>2, SubSeqFull DEF lwmqtt_string, Text
<1>3. Str(v) \in Text /\ Len(Str(v)) = StrLen(v)
  BY StringIsText
<1> QED  BY <1>1, <1>2, <1>3 DEF StrLen

\* A connect: the options it has are those that are counted.
LEMMA ConnectIsCounted ==
    ASSUME NEW o \in Connects
    PROVE  /\ ConnectBody(o) \in Text /\ ConnectLength(o) \in Nat
           /\ Len(ConnectBody(o)) = ConnectLength(o)
<1> DEFINE will == IF o.will = <<>> THEN <<>> ELSE Str(o.will[1]) \o Str(o.will[2])
           name == IF Given(o.username) THEN Str(o.username) ELSE <<>>
           word == IF Given(o.username) /\ Given(o.password) THEN Str(o.password) ELSE <<>>
           w == IF o.will = <<>> THEN 0 ELSE StrLen(o.will[1]) + StrLen(o.will[2])
           n == IF Given(o.username) THEN StrLen(o.username) ELSE 0
           p == IF Given(o.username) /\ Given(o.password) THEN StrLen(o.password) ELSE 0
           version == Str(Version)
           flags == <<4 % NumBase, 0>>
<1>1. /\ o.clientId \in Text /\ o.keepAlive \in Word
      /\ o.will = <<>> \/ o.will \in Text \X Text
      /\ o.username \in Text /\ o.password \in Text
  BY DEF Connects
<1>2. version \in Text /\ Len(version) = 6
  BY VersionIsText
<1>3. flags \in Text /\ Len(flags) = 2
  <2>1. 4 % NumBase \in Byte /\ 0 \in Byte
    BY NumberAssumption DEF NumBase, Byte
  <2> QED  BY <2>1 DEF Text
<1>4. Num(o.keepAlive) \in Text /\ Len(Num(o.keepAlive)) = 2
  BY <1>1, WordIsText
<1>5. /\ Str(o.clientId) \in Text /\ StrLen(o.clientId) \in Nat
      /\ Len(Str(o.clientId)) = StrLen(o.clientId)
  BY <1>1, StringIsText
<1>6. will \in Text /\ Len(will) = w /\ w \in Nat
  <2>1. CASE o.will = <<>>
    BY <2>1 DEF Text
  <2>2. CASE o.will # <<>>
    <3> DEFINE s == o.will[1]
               t == o.will[2]
    <3>1. s \in Text /\ t \in Text
      BY <1>1, <2>2
    <3> HIDE DEF s, t
    <3>2. /\ Str(s) \in Text /\ Len(Str(s)) = StrLen(s) /\ StrLen(s) \in Nat
          /\ Str(t) \in Text /\ Len(Str(t)) = StrLen(t) /\ StrLen(t) \in Nat
      BY <3>1, StringIsText
    <3>3. Str(s) \o Str(t) \in Text /\ Len(Str(s) \o Str(t)) = StrLen(s) + StrLen(t)
      BY <3>2, TextBehind
    <3> QED  BY <2>2, <3>2, <3>3 DEF s, t
  <2> QED  BY <2>1, <2>2
<1>7. name \in Text /\ Len(name) = n /\ n \in Nat
  BY <1>1, StringIsText DEF Text
<1>8. word \in Text /\ Len(word) = p /\ p \in Nat
  BY <1>1, StringIsText DEF Text
<1>9. ConnectBody(o) =
         version \o flags \o Num(o.keepAlive) \o Str(o.clientId) \o will \o name \o word
  BY DEF ConnectBody
<1>10. ConnectLength(o) = 10 + StrLen(o.clientId) + w + n + p
  <2>1. CASE ~Given(o.username)
    BY <2>1, <1>5, <1>6 DEF ConnectLength
  <2>2. CASE Given(o.username)
    <3>1. ConnectLength(o) = 10 + StrLen(o.clientId) + w + (StrLen(o.username) + p)
      BY <2>2 DEF ConnectLength
    <3>2. n = StrLen(o.username)
      BY <2>2
    <3> HIDE DEF w, n, p
    <3> QED  BY <3>1, <3>2, <1>5, <1>6, <1>7, <1>8
  <2> QED  BY <2>1, <2>2
<1> HIDE DEF will, name, word, w, n, p, flags, version
<1> DEFINE a == version \o flags
<1>11. version \o flags \in Text /\ Len(version \o flags) = 8
  <2>1. version \o flags \in Text /\ Len(version \o flags) = Len(version) + Len(flags)
    BY <1>2, <1>3, TextBehind
  <2> QED  BY <2>1, <1>2, <1>3
<1>12. /\ version \o flags \o Num(o.keepAlive) \in Text
       /\ Len(version \o flags \o Num(o.keepAlive)) = 10
  <2> HIDE DEF a
  <2>1. a \in Text /\ Len(a) = 8
    BY <1>11 DEF a
  <2>2. /\ a \o Num(o.keepAlive) \in Text
        /\ Len(a \o Num(o.keepAlive)) = Len(a) + Len(Num(o.keepAlive))
    BY <2>1, <1>4, TextBehind
  <2>3. Len(a \o Num(o.keepAlive)) = 10
    BY <2>1, <2>2, <1>4
  <2> QED  BY <2>2, <2>3 DEF a
<1> DEFINE head == version \o flags \o Num(o.keepAlive)
<1>13. /\ head \o Str(o.clientId) \in Text
       /\ Len(head \o Str(o.clientId)) = 10 + StrLen(o.clientId)
  BY <1>12, <1>5, TextBehind
<1>14. /\ head \o Str(o.clientId) \o will \in Text
       /\ Len(head \o Str(o.clientId) \o will) = 10 + StrLen(o.clientId) + w
  BY <1>13, <1>6, TextBehind
<1>15. /\ head \o Str(o.clientId) \o will \o name \in Text
       /\ Len(head \o Str(o.clientId) \o will \o name) = 10 + StrLen(o.clientId) + w + n
  BY <1>14, <1>7, TextBehind
<1>16. /\ head \o Str(o.clientId) \o will \o name \o word \in Text
       /\ Len(head \o Str(o.clientId) \o will \o name \o word) = 10 + StrLen(o.clientId) + w + n + p
  BY <1>15, <1>8, TextBehind
<1>17. 10 + StrLen(o.clientId) + w + n + p \in Nat
  BY <1>5, <1>6, <1>7, <1>8
<1> QED  BY <1>9, <1>10, <1>16, <1>17

\* A publish: the identifier is there, and is counted, when its quality of service has one.
LEMMA PublishIsCounted ==
    ASSUME NEW m \in Publishes
    PROVE  /\ PublishBody(m) \in Text /\ PublishLength(m) \in Nat
           /\ Len(PublishBody(m)) = PublishLength(m)
<1> DEFINE s == Str(m.topic)
           id == IF m.qos > 0 THEN Num(m.id) ELSE <<>>
           n == IF m.qos > 0 THEN 2 ELSE 0
<1>1. m.topic \in Text /\ m.payload \in Text /\ m.id \in Word
  BY DEF Publishes
<1>2. s \in Text /\ Len(s) = StrLen(m.topic) /\ StrLen(m.topic) \in Nat
  BY <1>1, StringIsText
<1>3. id \in Text /\ Len(id) = n /\ n \in Nat
  <2>1. Num(m.id) \in Text /\ Len(Num(m.id)) = 2
    BY <1>1, WordIsText
  <2>2. <<>> \in Text /\ Len(<<>>) = 0
    BY DEF Text
  <2>3. CASE m.qos > 0
    <3>1. id = Num(m.id) /\ n = 2
      BY <2>3
    <3> QED  BY <3>1, <2>1
  <2>4. CASE ~(m.qos > 0)
    <3>1. id = <<>> /\ n = 0
      BY <2>4
    <3> QED  BY <3>1, <2>2
  <2> QED  BY <2>3, <2>4
<1>4. m.payload \in Text /\ Len(m.payload) \in Nat
  BY <1>1 DEF Text
<1>5. /\ PublishBody(m) = s \o id \o m.payload
      /\ PublishLength(m) = StrLen(m.topic) + Len(m.payload) + n
  BY DEF PublishBody, PublishLength
<1> HIDE DEF s, id, n
<1>6. s \o id \in Text /\ Len(s \o id) = Len(s) + Len(id)
  BY <1>2, <1>3, TextBehind
<1> DEFINE a == s \o id
<1> HIDE DEF a
<1>7. a \o m.payload \in Text /\ Len(a \o m.payload) = Len(a) + Len(m.payload)
  BY <1>4, <1>6, TextBehind DEF a
<1>8. Len(a) = StrLen(m.topic) + n
  BY <1>2, <1>3, <1>6 DEF a
<1>9. PublishBody(m) = a \o m.payload
  BY <1>5 DEF a
<1> QED  BY <1>2, <1>3, <1>4, <1>5, <1>7, <1>8, <1>9

\* A list of filters, with a byte for each when it is a subscription.
LEMMA FiltersAreCounted ==
    ASSUME NEW s \in Requests, NEW n \in Nat, NEW more \in Text, Len(more) = n
    PROVE  LET all == Num(s.id) \o FlattenSeq([k \in DOMAIN s.filters |-> Str(s.filters[k]) \o more])
               sum == 2 + Total([k \in DOMAIN s.filters |-> StrLen(s.filters[k]) + n])
           IN  all \in Text /\ sum \in Nat /\ Len(all) = sum
<1> DEFINE ss == [k \in DOMAIN s.filters |-> Str(s.filters[k]) \o more]
           ns == [k \in DOMAIN s.filters |-> StrLen(s.filters[k]) + n]
<1>1. s.filters \in Seq(Text) /\ s.id \in Word
  BY DEF Requests
<1> PICK N \in Nat : N = Len(s.filters)
  BY <1>1
<1>2. DOMAIN s.filters = 1 .. N /\ \A k \in 1 .. N : s.filters[k] \in Text
  BY <1>1
<1>3. ASSUME NEW k \in 1 .. N
      PROVE  /\ Str(s.filters[k]) \o more \in Text /\ StrLen(s.filters[k]) + n \in Nat
             /\ Len(Str(s.filters[k]) \o more) = StrLen(s.filters[k]) + n
  <2> PICK f \in Text : f = s.filters[k]
    BY <1>2
  <2>1. Str(f) \in Text /\ Len(Str(f)) = StrLen(f) /\ StrLen(f) \in Nat
    BY StringIsText
  <2>2. Str(f) \o more \in Text /\ Len(Str(f) \o more) = Len(Str(f)) + Len(more)
    BY <2>1, TextBehind
  <2>3. Len(Str(f) \o more) = StrLen(f) + n
    BY <2>1, <2>2
  <2> QED  BY <2>1, <2>2, <2>3
<1>4. ss \in Seq(Text) /\ Len(ss) = N
  BY <1>2, <1>3
<1>5. ns \in Seq(Nat) /\ Len(ns) = N
  BY <1>2, <1>3
<1>6. \A k \in 1 .. N : Len(ss[k]) = ns[k]
  BY <1>2, <1>3
<1> HIDE DEF ss, ns
<1>7. FlattenSeq(ss) \in Text /\ Len(FlattenSeq(ss)) = Total(ns)
  BY <1>4, <1>5, <1>6, JoinedIsCounted
<1>8. Num(s.id) \in Text /\ Len(Num(s.id)) = 2
  BY <1>1, WordIsText
<1>9. /\ Num(s.id) \o FlattenSeq(ss) \in Text
      /\ Len(Num(s.id) \o FlattenSeq(ss)) = Len(Num(s.id)) + Len(FlattenSeq(ss))
      /\ Len(FlattenSeq(ss)) \in Nat
  BY <1>7, <1>8, TextBehind
<1>10. Num(s.id) \o FlattenSeq(ss) \in Text /\ 2 + Total(ns) \in Nat
       /\ Len(Num(s.id) \o FlattenSeq(ss)) = 2 + Total(ns)
  BY <1>7, <1>8, <1>9
<1> QED  BY <1>10 DEF ss, ns

\* Every packet announces the number of bytes that are written after the number itself.
Written == Connects \cup Publishes \cup Requests \cup Acks \cup Pings

LEMMA BodyIsCounted ==
    ASSUME NEW i \in Written
    PROVE  Body(i) \in Text /\ Length(i) \in Nat /\ Len(Body(i)) = Length(i)
<1>1. CASE i \in Connects
  <2>1. i.kind = "CONNECT"
    BY <1>1 DEF Connects
  <2> QED  BY <2>1, <1>1, ConnectIsCounted DEF Body, Length
<1>2. CASE i \in Publishes
  <2>1. i.kind = "PUBLISH"
    BY <1>2 DEF Publishes
  <2> QED  BY <2>1, <1>2, PublishIsCounted DEF Body, Length
<1>3. CASE i \in Requests
  <2>1. i.kind = "SUBSCRIBE" \/ i.kind = "UNSUBSCRIBE"
    BY <1>3 DEF Requests
  <2>2. CASE i.kind = "SUBSCRIBE"
    <3>1. <<i.qos>> \in Text /\ Len(<<i.qos>>) = 1
      <4>1. i.qos \in Byte
        BY <1>3, NumberAssumption DEF Requests, Byte
      <4> QED  BY <4>1 DEF Text
    <3>2. SubscribeBody(i) \in Text /\ SubscribeLength(i) \in Nat
          /\ Len(SubscribeBody(i)) = SubscribeLength(i)
      BY <1>3, <3>1, FiltersAreCounted DEF SubscribeBody, SubscribeLength
    <3> QED  BY <2>2, <3>2 DEF Body, Length
  <2>3. CASE i.kind = "UNSUBSCRIBE"
    <3>1. UnsubscribeBody(i) \in Text /\ UnsubscribeLength(i) \in Nat
          /\ Len(UnsubscribeBody(i)) = UnsubscribeLength(i)
      <4>1. i.filters \in Seq(Text)
        BY <1>3 DEF Requests
      <4>2. \A k \in DOMAIN i.filters :
               /\ Str(i.filters[k]) \o <<>> = Str(i.filters[k])
               /\ StrLen(i.filters[k]) + 0 = StrLen(i.filters[k])
        <5> TAKE k \in DOMAIN i.filters
        <5>1. i.filters[k] \in Text
          BY <4>1
        <5>2. Str(i.filters[k]) \in Seq(Byte) /\ StrLen(i.filters[k]) \in Nat
          BY <5>1, StringIsText DEF Text
        <5> QED  BY <5>2, ConcatEmptySeq
      <4>3. <<>> \in Text /\ Len(<<>>) = 0
        BY DEF Text
      <4>4. /\ [k \in DOMAIN i.filters |-> Str(i.filters[k]) \o <<>>]
                  = [k \in DOMAIN i.filters |-> Str(i.filters[k])]
            /\ [k \in DOMAIN i.filters |-> StrLen(i.filters[k]) + 0]
                  = [k \in DOMAIN i.filters |-> StrLen(i.filters[k])]
        BY <4>2
      <4> PICK z \in Nat : z = 0
        OBVIOUS
      <4> PICK none \in Text : none = <<>>
        BY <4>3
      <4>5. LET all == Num(i.id) \o FlattenSeq([k \in DOMAIN i.filters |-> Str(i.filters[k]) \o none])
                sum == 2 + Total([k \in DOMAIN i.filters |-> StrLen(i.filters[k]) + z])
            IN  all \in Text /\ sum \in Nat /\ Len(all) = sum
        BY <1>3, <4>3, FiltersAreCounted
      <4> QED  BY <4>4, <4>5 DEF UnsubscribeBody, UnsubscribeLength
    <3> QED  BY <2>3, <3>1 DEF Body, Length
  <2> QED  BY <2>1, <2>2, <2>3
<1>4. CASE i \in Acks
  <2>1. i.kind \in {"PUBACK", "PUBREC", "PUBREL", "PUBCOMP"} /\ i.id \in Word
    BY <1>4 DEF Acks
  <2>2. Body(i) = Num(i.id) /\ Length(i) = 2
    BY <2>1 DEF Body, Length
  <2> QED  BY <2>1, <2>2, WordIsText
<1>5. CASE i \in Pings
  <2>1. i.kind = "PINGREQ"
    BY <1>5 DEF Pings
  <2>2. Body(i) = <<>> /\ Length(i) = 0
    BY <2>1 DEF Body, Length
  <2> QED  BY <2>2 DEF Text
<1> QED  BY <1>1, <1>2, <1>3, <1>4, <1>5 DEF Written

(* The variable length number. *)

\* A number's bytes end with the m-th after the first byte.
LengthEnds(b, m) == /\ m \in 1 .. MaxBytes /\ m < Len(b)
                    /\ b[m + 1] < Radix
                    /\ \A j \in 1 .. m - 1 : b[j + 1] >= Radix

\* Bytes, the first of which is that of a packet.
Raw(s) == /\ s \in Seq(Fields \cup Byte) /\ s # <<>>
          /\ s[1] \in Fields
          /\ \A n \in 2 .. Len(s) : s[n] \in Byte

\* As many bytes as the number in them says.
Whole(b) == /\ Raw(b)
            /\ \E m \in 1 .. MaxBytes : LengthEnds(b, m) /\ Len(b) = 1 + m + ReadVarnum(b)

\* What is left of a number, division by division.
LEMMA LeftIsQuotient ==
    ASSUME NEW n \in Nat
    PROVE  /\ \A k \in 1 .. 5 : Left(n)[k] \in Nat
           /\ Left(n)[1] = n
           /\ \A k \in 1 .. 4 : /\ Left(n)[k] % Radix \in 0 .. Radix - 1
                                /\ Left(n)[k] = Radix * Left(n)[k + 1] + (Left(n)[k] % Radix)
<1>1. Radix \in Nat \ {0}
  BY NumberAssumption
<1> DEFINE a == n \div Radix
           b == a \div Radix
           c == b \div Radix
           d == c \div Radix
<1>2. Left(n) = <<n, a, b, c, d>>
  BY DEF Left
<1>3. ASSUME NEW x \in Nat
      PROVE  /\ x \div Radix \in Nat /\ x % Radix \in 0 .. Radix - 1
             /\ x = Radix * (x \div Radix) + (x % Radix)
  <2>1. x \in Int
    OBVIOUS
  <2> QED  BY <1>1, <2>1, Division
<1>4. a \in Nat /\ n % Radix \in 0 .. Radix - 1 /\ n = Radix * a + (n % Radix)
  BY <1>3
<1> HIDE DEF a
<1>5. b \in Nat /\ a % Radix \in 0 .. Radix - 1 /\ a = Radix * b + (a % Radix)
  BY <1>3, <1>4
<1> HIDE DEF b
<1>6. c \in Nat /\ b % Radix \in 0 .. Radix - 1 /\ b = Radix * c + (b % Radix)
  BY <1>3, <1>5
<1> HIDE DEF c
<1>7. d \in Nat /\ c % Radix \in 0 .. Radix - 1 /\ c = Radix * d + (c % Radix)
  BY <1>3, <1>6
<1> HIDE DEF d
<1>8. /\ Left(n)[1] = n /\ Left(n)[2] = a /\ Left(n)[3] = b
      /\ Left(n)[4] = c /\ Left(n)[5] = d
  BY <1>2
<1>9. \A k \in 1 .. 5 : k = 1 \/ k = 2 \/ k = 3 \/ k = 4 \/ k = 5
  OBVIOUS
<1>10. \A k \in 1 .. 5 : Left(n)[k] \in Nat
  BY <1>4, <1>5, <1>6, <1>7, <1>8, <1>9
<1>11. ASSUME NEW k \in 1 .. 4
       PROVE  /\ Left(n)[k] % Radix \in 0 .. Radix - 1
              /\ Left(n)[k] = Radix * Left(n)[k + 1] + (Left(n)[k] % Radix)
  <2>1. CASE k = 1
    BY <2>1, <1>4, <1>8
  <2>2. CASE k = 2
    BY <2>2, <1>5, <1>8
  <2>3. CASE k = 3
    BY <2>3, <1>6, <1>8
  <2>4. CASE k = 4
    BY <2>4, <1>7, <1>8
  <2> QED  BY <2>1, <2>2, <2>3, <2>4
<1> QED  BY <1>8, <1>10, <1>11

LEMMA LeftOf ==
    ASSUME NEW n \in Nat, NEW k \in 1 .. 4
    PROVE  /\ Left(n)[k] \in Nat /\ Left(n)[k + 1] \in Nat
           /\ Left(n)[k] % Radix \in 0 .. Radix - 1
           /\ Left(n)[k] = Radix * Left(n)[k + 1] + (Left(n)[k] % Radix)
<1>1. k \in 1 .. 5 /\ k + 1 \in 1 .. 5
  OBVIOUS
<1> QED  BY <1>1, LeftIsQuotient

\* A number that does not overflow has a last byte among those that are allowed.
LEMMA DigitsSuffice ==
    ASSUME NEW n \in Nat, ~Overflows(n)
    PROVE  /\ Digits(n) \in 1 .. MaxBytes
           /\ Left(n)[Digits(n) + 1] = 0
           /\ \A j \in 2 .. Digits(n) : Left(n)[j] > 0
<1> DEFINE a == Left(n)[2]
           b == Left(n)[3]
           c == Left(n)[4]
           d == Left(n)[5]
           Ends(k) == Left(n)[k + 1] = 0 /\ \A j \in 2 .. k : Left(n)[j] > 0
<1>1. a \in Nat /\ b \in Nat /\ c \in Nat /\ d \in Nat
  BY LeftIsQuotient
<1>2. /\ n >= Radix * a /\ a >= Radix * b /\ b >= Radix * c /\ c >= Radix * d
  <2>1. ASSUME NEW k \in 1 .. 4 PROVE Left(n)[k] >= Radix * Left(n)[k + 1]
    <3>2. /\ Left(n)[k] \in Nat /\ Left(n)[k + 1] \in Nat
          /\ Left(n)[k] % Radix \in 0 .. Radix - 1
          /\ Left(n)[k] = Radix * Left(n)[k + 1] + (Left(n)[k] % Radix)
      BY LeftOf
    <3>3. PICK y \in Nat : y = Left(n)[k + 1]
      BY <3>2
    <3>4. PICK r \in Nat : r = Left(n)[k] % Radix
      BY <3>2, NumberAssumption
    <3>5. Radix * y \in Nat
      BY NumberAssumption
    <3> QED  BY <3>2, <3>3, <3>4, <3>5
  <2>2. Left(n)[1] = n
    BY LeftIsQuotient
  <2> QED  BY <2>1, <2>2
<1>3. d = 0
  <2> PICK R \in Nat : R = Radix /\ R > 1
    BY NumberAssumption
  <2>1. ASSUME NEW x \in Nat, NEW y \in Nat, NEW p \in Nat, x >= R * y, y >= p PROVE x >= R * p
    <3>1. PICK e \in Nat : y = p + e
      BY <2>1
    <3>2. R * y = R * p + R * e /\ R * e \in Nat /\ R * p \in Nat
      BY <3>1
    <3> QED  BY <3>2, <2>1
  <2> HIDE DEF a, b, c, d
  <2>2. ASSUME d >= 1 PROVE FALSE
    <3>1. c >= R
      <4>1. c >= R * 1
        BY <1>1, <1>2, <2>1, <2>2
      <4> QED  BY <4>1
    <3>2. b >= R * R
      BY <1>1, <1>2, <2>1, <3>1
    <3>3. R * R \in Nat /\ R * (R * R) \in Nat /\ R * (R * (R * R)) \in Nat
      OBVIOUS
    <3>4. a >= R * (R * R)
      BY <1>1, <1>2, <2>1, <3>2, <3>3
    <3>5. n >= R * (R * (R * R))
      BY <1>1, <1>2, <2>1, <3>3, <3>4
    <3>6. R * R * R * R = R * (R * (R * R))
      OBVIOUS
    <3>7. ~(n >= R * R * R * R - 1)
      BY DEF Overflows
    <3> QED  BY <3>3, <3>5, <3>6, <3>7
  <2> QED  BY <2>2, <1>1
<1>4. \E k \in 1 .. 4 : Ends(k)
  <2>1. CASE a = 0
    BY <2>1
  <2>2. CASE a > 0 /\ b = 0
    BY <2>2
  <2>3. CASE a > 0 /\ b > 0 /\ c = 0
    BY <2>3
  <2>4. CASE a > 0 /\ b > 0 /\ c > 0
    BY <2>4, <1>3
  <2> QED  BY <2>1, <2>2, <2>3, <2>4, <1>1
<1>5. Digits(n) = CHOOSE k \in 1 .. 4 : Ends(k)
  BY DEF Digits, MaxBytes
<1>6. Digits(n) \in 1 .. 4 /\ Ends(Digits(n))
  <2> HIDE DEF Ends
  <2> QED  BY <1>4, <1>5
<1> QED  BY <1>6 DEF MaxBytes

\* The last byte of the number is where it ends.
LEMMA LastByteIs ==
    ASSUME NEW b, Raw(b), NEW m \in 1 .. MaxBytes, LengthEnds(b, m)
    PROVE  LastByte(b) = m
<1> DEFINE Ends(k) == b[1 + k] < Radix /\ \A j \in 1 .. k - 1 : b[1 + j] >= Radix
           l == CHOOSE k \in 1 .. Len(b) - 1 : Ends(k)
<1>1. Radix \in Nat /\ Len(b) \in Nat /\ \A k \in 1 .. Len(b) - 1 : b[1 + k] \in Nat
  <2>1. Radix \in Nat /\ Byte \subseteq Nat
    BY NumberAssumption DEF Byte
  <2>2. Len(b) \in Nat /\ \A n \in 2 .. Len(b) : b[n] \in Nat
    <3>1. Len(b) \in Nat /\ \A n \in 2 .. Len(b) : b[n] \in Byte
      BY DEF Raw
    <3> QED  BY <2>1, <3>1
  <2> QED  BY <2>1, <2>2
<1>2. m \in 1 .. Len(b) - 1 /\ m \in Nat
  BY <1>1 DEF LengthEnds, MaxBytes
<1>3. Ends(m)
  BY <1>1, <1>2 DEF LengthEnds
<1>4. l \in 1 .. Len(b) - 1 /\ Ends(l)
  <2> HIDE DEF Ends
  <2> QED  BY <1>2, <1>3
<1>5. LastByte(b) = l
  BY DEF LastByte
<1> HIDE DEF l
<1>6. ~(l < m) /\ ~(m < l)
  <2>1. ASSUME l < m PROVE FALSE
    <3>1. l \in 1 .. m - 1
      BY <2>1, <1>2, <1>4
    <3> QED  BY <3>1, <1>1, <1>3, <1>4
  <2>2. ASSUME m < l PROVE FALSE
    <3>1. m \in 1 .. l - 1
      BY <2>2, <1>2, <1>4
    <3> QED  BY <3>1, <1>1, <1>2, <1>3, <1>4
  <2> QED  BY <2>1, <2>2
<1> QED  BY <1>2, <1>4, <1>5, <1>6

\* What a number of m bytes is worth.
Digit(b, m, k) == IF k <= m THEN b[1 + k] % Radix ELSE 0

LEMMA ReadVarnumIs ==
    ASSUME NEW b, Raw(b), NEW m \in 1 .. MaxBytes, LengthEnds(b, m)
    PROVE  /\ ReadVarnum(b) = Digit(b, m, 1) + Radix * (Digit(b, m, 2)
                                + Radix * (Digit(b, m, 3) + Radix * Digit(b, m, 4)))
           /\ \A k \in 1 .. 4 : Digit(b, m, k) \in 0 .. Radix - 1
           /\ ReadVarnum(b) \in Nat
<1>1. LastByte(b) = m
  BY LastByteIs
<1>2. ReadVarnum(b) = Digit(b, m, 1) + Radix * (Digit(b, m, 2)
                        + Radix * (Digit(b, m, 3) + Radix * Digit(b, m, 4)))
  BY <1>1 DEF ReadVarnum, Digit
<1>3. Radix \in Nat \ {0} /\ Byte \subseteq Int
  BY NumberAssumption DEF Byte
<1>4. ASSUME NEW k \in 1 .. 4 PROVE Digit(b, m, k) \in 0 .. Radix - 1
  <2>1. CASE k <= m
    <3>1. 1 + k \in 2 .. Len(b)
      BY <2>1 DEF LengthEnds, Raw
    <3>2. PICK x \in Int : x = b[1 + k]
      BY <3>1, <1>3 DEF Raw
    <3>3. x % Radix \in 0 .. Radix - 1
      BY <1>3
    <3> QED  BY <2>1, <3>2, <3>3 DEF Digit
  <2>2. CASE ~(k <= m)
    BY <2>2, <1>3 DEF Digit
  <2> QED  BY <2>1, <2>2
<1>5. ReadVarnum(b) \in Nat
  <2> PICK x \in Nat : x = Digit(b, m, 1)
    BY <1>4, <1>3
  <2> PICK y \in Nat : y = Digit(b, m, 2)
    BY <1>4, <1>3
  <2> PICK z \in Nat : z = Digit(b, m, 3)
    BY <1>4, <1>3
  <2> PICK u \in Nat : u = Digit(b, m, 4)
    BY <1>4, <1>3
  <2>1. Radix * u \in Nat
    BY <1>3
  <2>2. Radix * (z + Radix * u) \in Nat
    BY <1>3, <2>1
  <2>3. Radix * (y + Radix * (z + Radix * u)) \in Nat
    BY <1>3, <2>2
  <2> QED  BY <1>2, <2>3
<1> QED  BY <1>2, <1>4, <1>5

\* It is worth the same wherever these bytes come first.
LEMMA ReadVarnumIsOfItsBytes ==
    ASSUME NEW b, Raw(b), NEW m \in 1 .. MaxBytes, LengthEnds(b, m),
           NEW c, Raw(c), m < Len(c), \A k \in 1 .. m : c[1 + k] = b[1 + k]
    PROVE  LengthEnds(c, m) /\ ReadVarnum(c) = ReadVarnum(b)
<1>1. LengthEnds(c, m)
  BY DEF LengthEnds
<1>2. \A k \in 1 .. 4 : Digit(c, m, k) = Digit(b, m, k)
  BY DEF Digit
<1> QED  BY <1>1, <1>2, ReadVarnumIs

\* The bytes of a number: all but the last have the top bit.
LEMMA VarnumIsText ==
    ASSUME NEW n \in Nat, ~Overflows(n)
    PROVE  /\ Varnum(n) \in Text /\ Len(Varnum(n)) = Digits(n) /\ Digits(n) \in 1 .. MaxBytes
           /\ Varnum(n)[Digits(n)] < Radix
           /\ \A k \in 1 .. Digits(n) - 1 : Varnum(n)[k] >= Radix
           /\ \A k \in 1 .. Digits(n) : Varnum(n)[k] % Radix = Left(n)[k] % Radix
<1> PICK R \in Nat : R = Radix /\ R > 1
  BY NumberAssumption
<1> PICK d \in 1 .. 4 : d = Digits(n)
  BY DigitsSuffice DEF MaxBytes
<1>1. Left(n)[d + 1] = 0 /\ \A j \in 2 .. d : Left(n)[j] > 0
  BY DigitsSuffice
<1>2. Varnum(n) = [k \in 1 .. d |-> (Left(n)[k] % R) + (IF Left(n)[k + 1] > 0 THEN R ELSE 0)]
  BY DEF Varnum
<1>3. ASSUME NEW k \in 1 .. d
      PROVE  /\ Varnum(n)[k] \in Byte /\ Varnum(n)[k] % R = Left(n)[k] % R
             /\ k = d => Varnum(n)[k] < R
             /\ k < d => Varnum(n)[k] >= R
  <2>1. PICK x \in 0 .. R - 1 : x = Left(n)[k] % R
    <3>1. k \in 1 .. 4
      OBVIOUS
    <3>2. Left(n)[k] % Radix \in 0 .. Radix - 1
      BY <3>1, LeftOf
    <3> QED  BY <3>2
  <2>2. x % R = x /\ (x + R) % R = x
    <3>1. x = R * 0 + x /\ x + R = R * 1 + x
      OBVIOUS
    <3>2. R \in Nat \ {0} /\ x \in Int /\ x + R \in Int
      OBVIOUS
    <3> QED  BY <3>1, <3>2, RestIs
  <2>3. CASE k = d
    <3>1. Varnum(n)[k] = x
      BY <1>1, <1>2, <2>1, <2>3
    <3> QED  BY <3>1, <2>1, <2>2, <2>3 DEF Byte
  <2>4. CASE k < d
    <3>1. k + 1 \in 2 .. d
      BY <2>4
    <3>2. Varnum(n)[k] = x + R
      BY <1>1, <1>2, <2>1, <3>1
    <3> QED  BY <3>2, <2>1, <2>2, <2>4 DEF Byte
  <2> QED  BY <2>3, <2>4
<1>4. Varnum(n) \in Seq(Byte) /\ Len(Varnum(n)) = d
  BY <1>2, <1>3
<1>5. d \in 1 .. d /\ \A k \in 1 .. d - 1 : k \in 1 .. d /\ k < d
  OBVIOUS
<1> QED  BY <1>3, <1>4, <1>5 DEF Text, MaxBytes

\* A number that was written is the one that is read.
LEMMA VarnumIsRead ==
    ASSUME NEW n \in Nat, ~Overflows(n), NEW s, Raw(s), Len(s) > Digits(n),
           \A k \in 1 .. Digits(n) : s[1 + k] = Varnum(n)[k]
    PROVE  LengthEnds(s, Digits(n)) /\ ReadVarnum(s) = n
<1> PICK d \in 1 .. 4 : d = Digits(n)
  BY DigitsSuffice DEF MaxBytes
<1> PICK R \in Nat : R = Radix /\ R > 1
  BY NumberAssumption
<1>1. LengthEnds(s, d)
  BY VarnumIsText DEF LengthEnds
<1> DEFINE E(k) == IF k <= d THEN Left(n)[k] ELSE 0
<1>2. ASSUME NEW k \in 1 .. 4
      PROVE  E(k) \in Nat /\ E(k + 1) \in Nat /\ E(k) = R * E(k + 1) + Digit(s, d, k)
  <2>1. /\ Left(n)[k] \in Nat /\ Left(n)[k + 1] \in Nat
        /\ Left(n)[k] = Radix * Left(n)[k + 1] + (Left(n)[k] % Radix)
    BY LeftOf
  <2>2. CASE k <= d
    <3>1. E(k) = Left(n)[k] /\ E(k + 1) = Left(n)[k + 1]
      <4>1. CASE k = d
        BY <4>1, DigitsSuffice
      <4>2. CASE k < d
        BY <4>2
      <4> QED  BY <2>2, <4>1, <4>2
    <3>2. Digit(s, d, k) = Left(n)[k] % Radix
      <4>1. k \in 1 .. d
        BY <2>2
      <4>2. Varnum(n)[k] % Radix = Left(n)[k] % Radix
        BY <4>1, VarnumIsText
      <4> QED  BY <2>2, <4>1, <4>2 DEF Digit
    <3> QED  BY <2>1, <3>1, <3>2
  <2>3. CASE ~(k <= d)
    <3>1. E(k) = 0 /\ E(k + 1) = 0 /\ Digit(s, d, k) = 0
      BY <2>3 DEF Digit
    <3> QED  BY <3>1
  <2> QED  BY <2>2, <2>3
<1>3. E(1) = n /\ E(5) = 0
  <2>1. Left(n)[1] = n
    BY LeftIsQuotient
  <2>2. 1 <= d /\ ~(5 <= d)
    OBVIOUS
  <2> QED  BY <2>1, <2>2
<1> HIDE DEF E
<1>4. n = Digit(s, d, 1) + R * (Digit(s, d, 2) + R * (Digit(s, d, 3) + R * Digit(s, d, 4)))
  <2>1. /\ E(1) = R * E(2) + Digit(s, d, 1)
        /\ E(2) = R * E(3) + Digit(s, d, 2)
        /\ E(3) = R * E(4) + Digit(s, d, 3)
        /\ E(4) = R * E(5) + Digit(s, d, 4)
    BY <1>2
  <2>2. \A k \in 1 .. 4 : Digit(s, d, k) \in Nat
    <3>1. \A k \in 1 .. 4 : Digit(s, d, k) \in 0 .. Radix - 1
      BY <1>1, ReadVarnumIs DEF MaxBytes
    <3> QED  BY <3>1
  <2>3. E(4) = Digit(s, d, 4)
    BY <2>1, <2>2, <1>3
  <2>4. E(3) = Digit(s, d, 3) + R * Digit(s, d, 4)
    BY <2>1, <2>2, <2>3
  <2>5. E(2) = Digit(s, d, 2) + R * (Digit(s, d, 3) + R * Digit(s, d, 4))
    BY <2>1, <2>2, <2>4
  <2> QED  BY <2>1, <2>2, <2>5, <1>3
<1>5. ReadVarnum(s) = n
  BY <1>1, <1>4, ReadVarnumIs DEF MaxBytes
<1> QED  BY <1>1, <1>5

(* Packets. *)

\* A first byte and a text.
LEMMA HeadedIsRaw ==
    ASSUME NEW h \in Fields, NEW t \in Text
    PROVE  /\ Raw(<<h>> \o t) /\ Len(<<h>> \o t) = 1 + Len(t) /\ Len(t) \in Nat
           /\ (<<h>> \o t)[1] = h
           /\ \A k \in 1 .. Len(t) : (<<h>> \o t)[1 + k] = t[k] /\ t[k] \in Byte
<1> DEFINE S == Fields \cup Byte
           s == <<h>> \o t
<1>1. <<h>> \in Seq(S) /\ Len(<<h>>) = 1 /\ <<h>>[1] = h
  OBVIOUS
<1>2. t \in Seq(S) /\ Len(t) \in Nat /\ \A k \in 1 .. Len(t) : t[k] \in Byte
  BY DEF Text
<1>3. /\ s \in Seq(S) /\ Len(s) = Len(<<h>>) + Len(t)
      /\ \A i \in 1 .. Len(<<h>>) + Len(t) :
            s[i] = IF i <= Len(<<h>>) THEN <<h>>[i] ELSE t[i - Len(<<h>>)]
  <2> HIDE DEF S
  <2> QED  BY <1>1, <1>2, ConcatProperties
<1>4. s[1] = h
  BY <1>1, <1>2, <1>3
<1>5. \A k \in 1 .. Len(t) : s[1 + k] = t[k]
  BY <1>1, <1>2, <1>3
<1>6. \A n \in 2 .. Len(s) : s[n] \in Byte
  <2> TAKE n \in 2 .. Len(s)
  <2>1. n - 1 \in 1 .. Len(t) /\ s[n] = t[n - 1]
    BY <1>1, <1>2, <1>3
  <2> QED  BY <2>1, <1>2
<1>7. s # <<>>
  <2>1. Len(s) = 1 + Len(t)
    BY <1>1, <1>3
  <2>2. Len(s) # 0
    BY <2>1, <1>2
  <2> QED  BY <2>2
<1> HIDE DEF s
<1>8. Raw(s)
  BY <1>3, <1>4, <1>6, <1>7 DEF Raw
<1> QED  BY <1>1, <1>2, <1>3, <1>4, <1>5, <1>8 DEF s

\* What is written is one packet, of as many bytes as its number says.
LEMMA PacketIsWhole ==
    ASSUME NEW i \in Written, ~Overflows(Length(i))
    PROVE  LET s == Packet(i)
               d == Digits(Length(i))
           IN  /\ Raw(s) /\ d \in 1 .. MaxBytes /\ LengthEnds(s, d)
               /\ Length(i) \in Nat /\ ReadVarnum(s) = Length(i) /\ Len(s) = 1 + d + Length(i)
               /\ s[1] = HeaderOf(i)
               /\ \A k \in 1 .. Length(i) : s[1 + d + k] = Body(i)[k]
<1> PICK n \in Nat : n = Length(i)
  BY BodyIsCounted
<1> DEFINE h == HeaderOf(i)
           v == Varnum(n)
           b == Body(i)
           d == Digits(n)
           s == Packet(i)
<1>1. b \in Text /\ Len(b) = n
  BY BodyIsCounted
<1>2. v \in Text /\ Len(v) = d /\ d \in 1 .. MaxBytes /\ d \in Nat
  BY VarnumIsText DEF MaxBytes
<1>3. h \in Fields
  <2>1. i.kind \in PacketTypes
    <3>1. i.kind \in {"CONNECT", "PUBLISH", "SUBSCRIBE", "UNSUBSCRIBE", "PUBACK", "PUBREC",
                      "PUBREL", "PUBCOMP", "PINGREQ"}
      BY DEF Written, Connects, Publishes, Requests, Acks, Pings
    <3> QED  BY <3>1 DEF PacketTypes, Receivable
  <2>2. i.kind = "PUBLISH" => i \in Publishes
    BY DEF Written, Connects, Publishes, Requests, Acks, Pings
  <2>3. i.kind = "PUBLISH" => i.qos \in 0 .. 3 /\ i.retained \in BOOLEAN
    BY <2>2 DEF Publishes
  <2>4. (i.kind = "PUBLISH" /\ i.retained) \in BOOLEAN
    BY <2>3
  <2>5. (CASE i.kind = "PUBLISH" -> i.qos
           [] i.kind \in {"SUBSCRIBE", "UNSUBSCRIBE", "PUBREL"} -> 1
           [] OTHER -> 0) \in 0 .. 3
    BY <2>3
  <2> QED  BY <2>1, <2>4, <2>5 DEF HeaderOf, Header, Fields
<1> HIDE DEF h, v, b, d
<1>4. /\ v \o b \in Text /\ Len(v \o b) = d + n
      /\ \A k \in 1 .. d : (v \o b)[k] = v[k]
      /\ \A k \in 1 .. n : (v \o b)[d + k] = b[k]
  <2>1. /\ v \o b \in Text /\ Len(v \o b) = Len(v) + Len(b)
        /\ \A k \in 1 .. Len(v) : (v \o b)[k] = v[k]
        /\ \A k \in 1 .. Len(b) : (v \o b)[Len(v) + k] = b[k]
    BY <1>1, <1>2, TextBehind
  <2> QED  BY <1>1, <1>2, <2>1
<1>5. s = <<h>> \o (v \o b)
  <2>1. s = (<<h>> \o v) \o b
    BY DEF Packet, h, v, b
  <2> DEFINE S == Fields \cup Byte
  <2>2. <<h>> \in Seq(S) /\ v \in Seq(S) /\ b \in Seq(S)
    BY <1>1, <1>2, <1>3 DEF Text
  <2> HIDE DEF S
  <2> QED  BY <2>1, <2>2, ConcatAssociative
<1> DEFINE t == v \o b
<1>6. t \in Text /\ Len(t) = d + n
  BY <1>4
<1> HIDE DEF t, s
<1>7. Raw(<<h>> \o t) /\ Len(<<h>> \o t) = 1 + Len(t) /\ (<<h>> \o t)[1] = h
  BY <1>3, <1>6, HeadedIsRaw
<1>8. \A k \in 1 .. Len(t) : (<<h>> \o t)[1 + k] = t[k]
  BY <1>3, <1>6, HeadedIsRaw
<1>9. s = <<h>> \o t
  BY <1>5 DEF t
<1>10. Raw(s) /\ Len(s) = 1 + d + n /\ s[1] = h /\ \A k \in 1 .. d + n : s[1 + k] = t[k]
  BY <1>2, <1>6, <1>7, <1>8, <1>9
<1>11. \A k \in 1 .. d : s[1 + k] = v[k]
  <2> TAKE k \in 1 .. d
  <2>1. k \in 1 .. d + n
    BY <1>2
  <2> QED  BY <1>4, <1>10, <2>1 DEF t
<1>12. \A k \in 1 .. n : s[1 + d + k] = b[k]
  <2> TAKE k \in 1 .. n
  <2>1. d + k \in 1 .. d + n /\ 1 + d + k = 1 + (d + k)
    BY <1>2
  <2> QED  BY <1>4, <1>10, <2>1 DEF t
<1>13. LengthEnds(s, d) /\ ReadVarnum(s) = n
  <2>1. Len(s) > d
    BY <1>2, <1>10
  <2> QED  BY <2>1, <1>10, <1>11, VarnumIsRead DEF d, v
<1> QED  BY <1>2, <1>10, <1>12, <1>13 DEF s, d, b, h

(* Decoding. *)

Cursors == [at : Nat, end : Nat, err : {"none", "short", "mismatch", "overflow"}]

\* A cursor only goes on, and never past its end.
LEMMA NeedIs ==
    ASSUME NEW c \in Cursors, NEW n, Ok(c) => n \in Nat
    PROVE  /\ Need(c, n) \in Cursors /\ Need(c, n).end = c.end
           /\ Ok(Need(c, n)) => Ok(c) /\ Need(c, n).at = c.at + n /\ Need(c, n).at <= c.end
           /\ ~Ok(Need(c, n)) => Need(c, n).at = c.at
<1>1. c.at \in Nat /\ c.end \in Nat
  BY DEF Cursors
<1>2. CASE ~Ok(c)
  BY <1>2 DEF Need
<1>3. CASE Ok(c) /\ c.end - c.at < n
  <2>1. Need(c, n) = [c EXCEPT !.err = "short"]
    BY <1>3 DEF Need, Fail
  <2> QED  BY <2>1 DEF Ok, Cursors
<1>4. CASE Ok(c) /\ ~(c.end - c.at < n)
  <2>1. Need(c, n) = [c EXCEPT !.at = @ + n]
    BY <1>4 DEF Need
  <2>2. n \in Nat /\ c.at + n <= c.end
    BY <1>1, <1>4
  <2>3. Need(c, n) \in Cursors /\ Need(c, n).end = c.end /\ Need(c, n).at = c.at + n
    BY <1>1, <2>1, <2>2 DEF Cursors
  <2>4. Need(c, n).err = c.err
    BY <2>1 DEF Cursors
  <2> QED  BY <1>4, <2>2, <2>3, <2>4 DEF Ok
<1> QED  BY <1>2, <1>3, <1>4

\* The number in a whole packet, and the cursor behind it.
LEMMA LengthIsRead ==
    ASSUME bufSize \in Nat, NEW b, Whole(b)
    PROVE  /\ LastByte(b) \in Nat /\ ReadVarnum(b) \in Nat
           /\ Len(b) = 1 + LastByte(b) + ReadVarnum(b)
           /\ AfterLength(b) \in Cursors /\ AfterLength(b).at = 1 + LastByte(b)
           /\ Ok(AfterLength(b))
           /\ \A e \in {"short", "mismatch"} :
                 /\ Fail(AfterLength(b), e) \in Cursors /\ ~Ok(Fail(AfterLength(b), e))
                 /\ Fail(AfterLength(b), e).at = 1 + LastByte(b)
<1>1. PICK m \in 1 .. MaxBytes : LengthEnds(b, m) /\ Len(b) = 1 + m + ReadVarnum(b)
  BY DEF Whole
<1>2. Raw(b)
  BY DEF Whole
<1>3. LastByte(b) = m /\ ReadVarnum(b) \in Nat /\ m \in Nat
  BY <1>1, <1>2, LastByteIs, ReadVarnumIs DEF MaxBytes
<1>4. AfterLength(b) = [at |-> 1 + m, end |-> bufSize, err |-> "none"]
  BY <1>3 DEF AfterLength
<1>5. AfterLength(b) \in Cursors /\ AfterLength(b).at = 1 + m /\ Ok(AfterLength(b))
  BY <1>3, <1>4 DEF Cursors, Ok
<1>6. ASSUME NEW e \in {"short", "mismatch"}
      PROVE  /\ Fail(AfterLength(b), e) \in Cursors /\ ~Ok(Fail(AfterLength(b), e))
             /\ Fail(AfterLength(b), e).at = 1 + m
  <2>1. Fail(AfterLength(b), e) = [at |-> 1 + m, end |-> bufSize, err |-> e]
    BY <1>4 DEF Fail
  <2> QED  BY <1>3, <2>1 DEF Cursors, Ok
<1> QED  BY <1>1, <1>3, <1>5, <1>6

\* Within the packet, and with an end that is.
Inside(c, b) == c \in Cursors /\ c.at <= Len(b) /\ (Ok(c) => c.at <= c.end /\ c.end <= Len(b))

LEMMA NeedStaysInside ==
    ASSUME NEW b, Len(b) \in Nat, NEW c, Inside(c, b), NEW n, Ok(c) => n \in Nat
    PROVE  Inside(Need(c, n), b)
<1>1. c \in Cursors /\ c.at \in Nat /\ c.end \in Nat
  BY DEF Inside, Cursors
<1>2. Need(c, n) \in Cursors /\ Need(c, n).end = c.end
  BY <1>1, NeedIs
<1>3. CASE Ok(Need(c, n))
  <2>1. Ok(c) /\ Need(c, n).at <= c.end /\ c.end <= Len(b)
    BY <1>1, <1>3, NeedIs DEF Inside
  <2>2. Need(c, n).at \in Nat
    BY <1>2 DEF Cursors
  <2> QED  BY <1>1, <1>2, <2>1, <2>2 DEF Inside
<1>4. CASE ~Ok(Need(c, n))
  <2>1. Need(c, n).at = c.at
    BY <1>1, <1>4, NeedIs
  <2> QED  BY <1>2, <1>4, <2>1 DEF Inside
<1> QED  BY <1>3, <1>4

\* A byte behind the first is a number, wherever it is read.
LEMMA NumAtIs ==
    ASSUME NEW b, Raw(b), NEW n \in Nat \ {0}
    PROVE  NumAt(b, n) \in Nat
<1>1. NumBase \in Nat /\ Byte \subseteq Nat /\ Len(b) \in Nat
  BY NumberAssumption DEF NumBase, Byte, Raw
<1>2. ASSUME NEW k \in Nat, k >= 2 PROVE At(b, k) \in Nat
  <2>1. CASE k <= Len(b)
    <3>1. k \in 2 .. Len(b)
      BY <1>1, <1>2, <2>1
    <3> QED  BY <1>1, <2>1, <3>1 DEF At, Raw
  <2>2. CASE ~(k <= Len(b))
    BY <2>2 DEF At
  <2> QED  BY <2>1, <2>2
<1>3. At(b, n + 1) \in Nat /\ At(b, n + 2) \in Nat
  BY <1>2
<1>4. NumBase * At(b, n + 1) \in Nat
  BY <1>1, <1>3
<1> QED  BY <1>3, <1>4 DEF NumAt

\* Whatever the packet, its decoder ends inside it.
LEMMA DecodeStaysInside ==
    ASSUME bufSize \in Nat, NEW b, Whole(b)
    PROVE  DecodePacket(b).cursor \in Cursors /\ DecodePacket(b).cursor.at <= Len(b)
<1> DEFINE m == LastByte(b)
           n == ReadVarnum(b)
           c == AfterLength(b)
<1>1. /\ m \in Nat /\ n \in Nat /\ Len(b) = 1 + m + n /\ Len(b) \in Nat
      /\ c \in Cursors /\ c.at = 1 + m /\ Ok(c)
  BY LengthIsRead
<1>2. ASSUME NEW e \in {"short", "mismatch"}
      PROVE  /\ Fail(c, e) \in Cursors /\ Fail(c, e).at = 1 + m /\ ~Ok(Fail(c, e))
  BY LengthIsRead
<1>3. Raw(b)
  BY DEF Whole
<1> HIDE DEF m, n, c
<1>4. DecodePublish(b).cursor \in Cursors /\ DecodePublish(b).cursor.at <= Len(b)
  <2> DEFINE body == BodyOf(b)
             l == Need(body, 2)
             t == Need(l, NumAt(b, l.at - 2))
             i == IF HasId(b) THEN Need(t, 2) ELSE t
             p == Need(i, i.end - i.at)
  <2>1. Inside(body, b) /\ (Ok(body) => body.at = 1 + m)
    <3>1. CASE n < 2
      <4>1. body = Fail(c, "mismatch")
        BY <3>1 DEF BodyOf, n, c
      <4> QED  BY <4>1, <1>1, <1>2 DEF Inside
    <3>2. CASE n >= 2 /\ c.end - c.at < n
      <4>1. body = Fail(c, "short")
        BY <1>1, <3>2 DEF BodyOf, n, c
      <4> QED  BY <4>1, <1>1, <1>2 DEF Inside
    <3>3. CASE n >= 2 /\ ~(c.end - c.at < n)
      <4>1. body = [c EXCEPT !.end = c.at + n]
        BY <1>1, <3>3 DEF BodyOf, n, c
      <4>2. body \in Cursors /\ body.at = 1 + m /\ body.end = 1 + m + n
        BY <1>1, <4>1 DEF Cursors
      <4> QED  BY <1>1, <4>2 DEF Inside
    <3> QED  BY <1>1, <3>1, <3>2, <3>3
  <2> HIDE DEF body
  <2>2. Inside(l, b) /\ (Ok(l) => l.at = 3 + m)
    <3>1. body \in Cursors
      BY <2>1 DEF Inside
    <3>2. Inside(l, b)
      BY <1>1, <2>1, NeedStaysInside
    <3>3. Ok(l) => Ok(body) /\ l.at = body.at + 2
      BY <3>1, NeedIs
    <3>4. Ok(l) => l.at = 3 + m
      BY <1>1, <2>1, <3>3
    <3> QED  BY <3>2, <3>4
  <2> HIDE DEF l
  <2>3. Inside(t, b)
    <3>1. Ok(l) => NumAt(b, l.at - 2) \in Nat
      <4> SUFFICES ASSUME Ok(l) PROVE NumAt(b, l.at - 2) \in Nat
        OBVIOUS
      <4>1. l.at - 2 \in Nat \ {0}
        BY <1>1, <2>2
      <4> QED  BY <1>3, <4>1, NumAtIs
    <3> QED  BY <1>1, <2>2, <3>1, NeedStaysInside
  <2> HIDE DEF t
  <2>4. Inside(i, b)
    BY <1>1, <2>3, NeedStaysInside
  <2> HIDE DEF i
  <2>5. Inside(p, b)
    <3>1. Ok(i) => i.end - i.at \in Nat
      BY <2>4 DEF Inside, Cursors
    <3> QED  BY <1>1, <2>4, <3>1, NeedStaysInside
  <2>6. DecodePublish(b).cursor = p
    BY DEF DecodePublish, p, i, t, l, body
  <2> QED  BY <2>5, <2>6 DEF Inside
<1>5. DecodeAck(b).cursor \in Cursors /\ DecodeAck(b).cursor.at <= Len(b)
  <2> DEFINE p == IF n # 2 THEN Fail(c, "mismatch") ELSE Need(c, 2)
  <2>1. DecodeAck(b).cursor = p
    BY DEF DecodeAck, n, c
  <2>2. CASE n # 2
    BY <1>1, <1>2, <2>1, <2>2
  <2>3. CASE n = 2
    <3>1. Need(c, 2) \in Cursors /\ (Need(c, 2).at = c.at + 2 \/ Need(c, 2).at = c.at)
      BY <1>1, NeedIs
    <3> QED  BY <1>1, <2>1, <2>3, <3>1
  <2> QED  BY <2>2, <2>3
<1>6. DecodeConnack(b).cursor \in Cursors /\ DecodeConnack(b).cursor.at <= Len(b)
  <2> DEFINE p == IF n # 2 THEN Fail(c, "mismatch") ELSE Need(Need(c, 1), 1)
  <2>1. DecodeConnack(b).cursor = p
    BY DEF DecodeConnack, n, c
  <2>2. CASE n # 2
    BY <1>1, <1>2, <2>1, <2>2
  <2>3. CASE n = 2
    <3> PICK d \in Cursors : d = Need(c, 1) /\ (d.at = c.at + 1 \/ d.at = c.at)
      BY <1>1, NeedIs
    <3>1. d.at \in Nat
      BY DEF Cursors
    <3>2. Need(d, 1) \in Cursors /\ (Need(d, 1).at = d.at + 1 \/ Need(d, 1).at = d.at)
      BY NeedIs
    <3> QED  BY <1>1, <2>1, <2>3, <3>1, <3>2
  <2> QED  BY <2>2, <2>3
<1>7. DecodeSuback(b).cursor \in Cursors /\ DecodeSuback(b).cursor.at <= Len(b)
  <2> DEFINE p == IF n < 3 THEN Fail(c, "mismatch") ELSE Need(c, 2)
             k == Stored(n - 2)
             q == Need(p, k)
  <2>1. DecodeSuback(b).cursor = IF Ok(q) /\ n - 2 > k THEN Fail(q, "overflow") ELSE q
    BY DEF DecodeSuback, n, c
  <2>2. q \in Cursors /\ q.at <= Len(b)
    <3>1. CASE n < 3
      <4>1. p = Fail(c, "mismatch")
        BY <3>1
      <4>2. p \in Cursors /\ p.at = 1 + m /\ ~Ok(p)
        BY <4>1, <1>2
      <4>3. q = p
        BY <4>2 DEF Need
      <4> QED  BY <1>1, <4>2, <4>3
    <3>2. CASE n >= 3
      <4>1. p = Need(c, 2)
        BY <1>1, <3>2
      <4>2. p \in Cursors /\ (Ok(p) => p.at = c.at + 2) /\ (~Ok(p) => p.at = c.at)
        BY <1>1, <4>1, NeedIs
      <4>3. k \in Nat /\ k <= n - 2
        BY <1>1, <3>2, NumberAssumption DEF Stored
      <4> HIDE DEF p, k
      <4>4. /\ q \in Cursors /\ (Ok(q) => Ok(p) /\ q.at = p.at + k) /\ (~Ok(q) => q.at = p.at)
        BY <4>2, <4>3, NeedIs
      <4>5. CASE Ok(q)
        BY <1>1, <3>2, <4>2, <4>3, <4>4, <4>5
      <4>6. CASE ~Ok(q)
        BY <1>1, <3>2, <4>2, <4>4, <4>6
      <4> QED  BY <4>5, <4>6
    <3> QED  BY <1>1, <3>1, <3>2
  <2> HIDE DEF q
  <2>3. Fail(q, "overflow") \in Cursors /\ Fail(q, "overflow").at = q.at
    BY <2>2 DEF Fail, Cursors
  <2> QED  BY <2>1, <2>2, <2>3
<1>8. c \in Cursors /\ c.at <= Len(b)
  BY <1>1
<1>9. CASE b[1].type = "PUBLISH"
  BY <1>4, <1>9 DEF DecodePacket
<1>10. CASE b[1].type = "CONNACK"
  BY <1>6, <1>10 DEF DecodePacket
<1>11. CASE b[1].type = "SUBACK"
  BY <1>7, <1>11 DEF DecodePacket
<1>12. CASE b[1].type = "PINGRESP"
  <2>1. DecodePacket(b).cursor = c
    BY <1>12 DEF DecodePacket, c
  <2> QED  BY <1>8, <2>1
<1>13. CASE b[1].type \notin {"PUBLISH", "CONNACK", "SUBACK", "PINGRESP"}
  BY <1>5, <1>13 DEF DecodePacket
<1> QED  BY <1>9, <1>10, <1>11, <1>12, <1>13

(* Reading. *)

\* Bytes are taken from the front of the stream to the end of the buffer.
LEMMA TakeMoves ==
    ASSUME NEW S, NEW s \in Seq(S), NEW b \in Seq(S), NEW n \in 0 .. Len(s)
    PROVE  LET c == b \o SubSeq(s, 1, n)
               r == SubSeq(s, n + 1, Len(s))
           IN  /\ c \in Seq(S) /\ Len(c) = Len(b) + n
               /\ \A k \in 1 .. Len(b) : c[k] = b[k]
               /\ \A k \in 1 .. n : c[Len(b) + k] = s[k]
               /\ r \in Seq(S) /\ Len(r) = Len(s) - n
               /\ \A k \in 1 .. Len(s) - n : r[k] = s[n + k]
               /\ c \o r = b \o s
<1> DEFINE f == SubSeq(s, 1, n)
           r == SubSeq(s, n + 1, Len(s))
           c == b \o f
<1>1. Len(s) \in Nat /\ Len(b) \in Nat /\ \A k \in 1 .. Len(s) : s[k] \in S
  OBVIOUS
<1>2. f \in Seq(S) /\ Len(f) = n /\ \A k \in 1 .. n : f[k] = s[k]
  <2>1. \A k \in 1 .. n : s[k] \in S
    BY <1>1
  <2>2. /\ SubSeq(s, 1, n) \in Seq(S) /\ Len(SubSeq(s, 1, n)) = IF 1 <= n THEN n - 1 + 1 ELSE 0
        /\ \A i \in 1 .. n - 1 + 1 : SubSeq(s, 1, n)[i] = s[1 + i - 1]
    BY <1>1, <2>1, SubSeqProperties
  <2> QED  BY <2>2, <1>1
<1>3. r \in Seq(S) /\ Len(r) = Len(s) - n /\ \A k \in 1 .. Len(s) - n : r[k] = s[n + k]
  <2> DEFINE m == n + 1
             l == Len(s)
  <2>1. m \in Int /\ l \in Int /\ \A k \in m .. l : s[k] \in S
    BY <1>1
  <2>2. /\ SubSeq(s, m, l) \in Seq(S) /\ Len(SubSeq(s, m, l)) = IF m <= l THEN l - m + 1 ELSE 0
        /\ \A i \in 1 .. l - m + 1 : SubSeq(s, m, l)[i] = s[m + i - 1]
    <3> HIDE DEF m, l
    <3> QED  BY <2>1, SubSeqProperties
  <2> QED  BY <2>2, <1>1
<1>4. f \o r = s
  <2> DEFINE l == Len(s)
             m == 1
  <2>1. m \in 1 .. l + 1 /\ n \in m - 1 .. l /\ l \in n .. l
    BY <1>1
  <2>2. SubSeq(s, m, n) \o SubSeq(s, n + 1, l) = SubSeq(s, m, l)
    <3>1. m \in 1 .. Len(s) + 1 /\ n \in m - 1 .. Len(s) /\ l \in n .. Len(s)
      BY <2>1
    <3> HIDE DEF m, l
    <3> QED  BY <3>1, ConcatAdjacentSubSeq
  <2>3. SubSeq(s, 1, Len(s)) = s
    BY SubSeqFull
  <2> QED  BY <2>2, <2>3
<1> HIDE DEF f, r
<1>5. /\ c \in Seq(S) /\ Len(c) = Len(b) + Len(f)
      /\ \A i \in 1 .. Len(b) + Len(f) : c[i] = IF i <= Len(b) THEN b[i] ELSE f[i - Len(b)]
  BY <1>2, ConcatProperties
<1>6. c \o r = b \o (f \o r)
  BY <1>2, <1>3, ConcatAssociative
<1> HIDE DEF c
<1>7. \A k \in 1 .. Len(b) : c[k] = b[k]
  BY <1>1, <1>2, <1>5
<1>8. \A k \in 1 .. n : c[Len(b) + k] = s[k]
  <2> TAKE k \in 1 .. n
  <2>1. Len(b) + k \in 1 .. Len(b) + Len(f) /\ ~(Len(b) + k <= Len(b)) /\ Len(b) + k - Len(b) = k
    BY <1>1, <1>2
  <2> QED  BY <1>2, <1>5, <2>1
<1> QED  BY <1>2, <1>3, <1>4, <1>5, <1>6, <1>7, <1>8 DEF c, f, r

\* What is under way and what was read, in every phase.
Shape(p, s, b, r) ==
    \/ p \in {"write", "unwritten"} /\ s = <<>> /\ b = <<>> /\ r = Nothing
    \/ p = "sent" /\ Whole(s) /\ b = <<>> /\ r = Nothing
    \/ p = "header" /\ Raw(s) /\ b = <<>> /\ r = Nothing
    \/ /\ p = "length" /\ s \in Text /\ Raw(b) /\ r = Nothing
       /\ Len(b) <= MaxBytes + 1 /\ \A k \in 2 .. Len(b) : b[k] >= Radix
    \/ /\ p = "rest" /\ s \in Text /\ Raw(b) /\ r = Nothing
       /\ \E m \in 1 .. MaxBytes : LengthEnds(b, m) /\ Len(b) = m + 1
    \/ p = "decode" /\ s \in Text /\ Whole(b) /\ r = Nothing
    \/ p = "done" /\ s \in Text /\ Whole(b) /\ r.cursor \in Cursors /\ r.cursor.at <= Len(b)
    \/ /\ p \in {"refused", "lost"} /\ IsPacket(s) /\ IsPacket(b)
       /\ r.cursor \in Cursors /\ r.cursor.at <= Len(b)

ReadInv == input \in Inputs /\ bufSize \in BufSizes /\ Shape(phase, stream, buf, result)

LEMMA RawIsPacket ==
    ASSUME NEW s, s \in Text \/ Raw(s) \/ Whole(s) \/ s = <<>>
    PROVE  IsPacket(s) /\ Len(s) \in Nat
<1>1. CASE s \in Text
  <2>1. \A n \in 1 .. Len(s) : s[n] \in Byte
    BY <1>1 DEF Text
  <2> QED  BY <1>1, <2>1 DEF Text, IsPacket
<1>2. CASE Raw(s) \/ Whole(s)
  <2>1. Raw(s)
    BY <1>2 DEF Whole
  <2>2. /\ DOMAIN s = 1 .. Len(s) /\ Len(s) \in Nat /\ \A n \in 2 .. Len(s) : s[n] \in Byte
    BY <2>1 DEF Raw
  <2> QED  BY <2>2 DEF IsPacket
<1>3. CASE s = <<>>
  BY <1>3 DEF IsPacket
<1> QED  BY <1>1, <1>2, <1>3

LEMMA NothingIsTyped == Nothing.cursor \in Cursors /\ Nothing.cursor.at = 0
BY DEF Nothing, Cursors

\* Where reading stops, what was read is still part of a packet.
LEMMA StoppedIsShaped ==
    ASSUME NEW p \in {"refused", "lost"}, NEW s, NEW b,
           s \in Text \/ Raw(s), Raw(b) \/ b = <<>>
    PROVE  Shape(p, s, b, Nothing)
<1>1. IsPacket(s) /\ IsPacket(b) /\ Len(b) \in Nat
  BY RawIsPacket
<1> QED  BY <1>1, NothingIsTyped DEF Shape

\* The first byte.
LEMMA HeaderIsShaped ==
    ASSUME NEW s, Raw(s), 1 <= Len(s)
    PROVE  LET b == <<>> \o SubSeq(s, 1, 1)
               r == SubSeq(s, 2, Len(s))
           IN  Raw(b) /\ Len(b) = 1 /\ b[1] = s[1] /\ r \in Text /\ b \o r = s
<1> DEFINE S == Fields \cup Byte
<1> PICK e \in Seq(S) : e = <<>>
  <2> HIDE DEF S
  <2>1. <<>> \in Seq(S)
    OBVIOUS
  <2> QED  BY <2>1
<1> PICK n \in 0 .. Len(s) : n = 1
  BY DEF Raw
<1> DEFINE b == e \o SubSeq(s, 1, n)
           r == SubSeq(s, n + 1, Len(s))
<1>1. s \in Seq(S) /\ Len(e) = 0 /\ s[1] \in Fields
      /\ Len(s) \in Nat /\ \A k \in 2 .. Len(s) : s[k] \in Byte
  BY DEF Raw
<1>2. /\ b \in Seq(S) /\ Len(b) = Len(e) + n
      /\ \A k \in 1 .. n : b[Len(e) + k] = s[k]
      /\ r \in Seq(S) /\ Len(r) = Len(s) - n
      /\ \A k \in 1 .. Len(s) - n : r[k] = s[n + k]
      /\ b \o r = e \o s
  <2> HIDE DEF S
  <2> QED  BY <1>1, TakeMoves
<1>3. e \o s = s
  <2> HIDE DEF S
  <2> QED  BY <1>1, ConcatEmptySeq
<1> HIDE DEF b, r
<1>4. Len(b) = 1 /\ b[1] = s[1] /\ b # <<>>
  BY <1>1, <1>2
<1>5. Raw(b)
  BY <1>1, <1>2, <1>4 DEF Raw
<1>6. r \in Text
  <2>1. \A k \in 1 .. Len(r) : r[k] \in Byte
    BY <1>1, <1>2
  <2> QED  BY <1>2, <2>1 DEF Text
<1> QED  BY <1>2, <1>3, <1>4, <1>5, <1>6 DEF b, r

\* The buffer and the stream after n bytes were moved.
Moved(s, b, n, c, r) ==
    /\ Raw(c) /\ Len(c) = Len(b) + n /\ Len(b) \in Nat
    /\ \A k \in 1 .. Len(b) : c[k] = b[k]
    /\ \A k \in 1 .. n : c[Len(b) + k] = s[k] /\ s[k] \in Byte
    /\ r \in Text /\ Len(r) = Len(s) - n
    /\ c \o r = b \o s

\* Any bytes after the first.
LEMMA BytesAreMoved ==
    ASSUME NEW s \in Text, NEW b, Raw(b), NEW n \in 0 .. Len(s)
    PROVE  Moved(s, b, n, b \o SubSeq(s, 1, n), SubSeq(s, n + 1, Len(s)))
<1> DEFINE S == Fields \cup Byte
           c == b \o SubSeq(s, 1, n)
           r == SubSeq(s, n + 1, Len(s))
<1>1. /\ s \in Seq(S) /\ b \in Seq(S) /\ Len(s) \in Nat /\ Len(b) \in Nat \ {0}
      /\ \A k \in 1 .. Len(s) : s[k] \in Byte
      /\ b[1] \in Fields /\ \A k \in 2 .. Len(b) : b[k] \in Byte
  BY DEF Raw, Text
<1>2. /\ c \in Seq(S) /\ Len(c) = Len(b) + n
      /\ \A k \in 1 .. Len(b) : c[k] = b[k]
      /\ \A k \in 1 .. n : c[Len(b) + k] = s[k]
      /\ r \in Seq(S) /\ Len(r) = Len(s) - n
      /\ \A k \in 1 .. Len(s) - n : r[k] = s[n + k]
      /\ c \o r = b \o s
  <2> HIDE DEF S
  <2> QED  BY <1>1, TakeMoves
<1> HIDE DEF c, r
<1>3. \A k \in 1 .. n : s[k] \in Byte
  BY <1>1
<1>4. Raw(c)
  <2>1. c # <<>> /\ c[1] \in Fields
    BY <1>1, <1>2
  <2>2. \A k \in 2 .. Len(c) : c[k] \in Byte
    <3> TAKE k \in 2 .. Len(c)
    <3>1. CASE k <= Len(b)
      BY <1>1, <1>2, <3>1
    <3>2. CASE ~(k <= Len(b))
      <4>1. k - Len(b) \in 1 .. n /\ Len(b) + (k - Len(b)) = k
        BY <1>1, <1>2, <3>2
      <4> QED  BY <1>2, <1>3, <4>1
    <3> QED  BY <3>1, <3>2
  <2> QED  BY <1>2, <2>1, <2>2 DEF Raw
<1>5. r \in Text
  <2>1. \A k \in 1 .. Len(r) : r[k] \in Byte
    BY <1>1, <1>2
  <2> QED  BY <1>2, <2>1 DEF Text
<1>6. Moved(s, b, n, c, r)
  BY <1>1, <1>2, <1>3, <1>4, <1>5 DEF Moved
<1> QED  BY <1>6 DEF c, r

\* What is read or sent is what the inputs are.
LEMMA InputIs ==
    ASSUME input \in Inputs, bufSize \in BufSizes
    PROVE  /\ input.kind = "bytes" => input \in Arrivals
           /\ input.kind # "bytes" => input \in Written
           /\ bufSize \in Nat
<1>1. input \in Written \/ input \in Arrivals
  BY InputAssumption DEF Written
<1>2. input \in Written => input.kind # "bytes"
  BY DEF Written, Connects, Publishes, Requests, Acks, Pings
<1>3. input \in Arrivals => input.kind = "bytes"
  BY DEF Arrivals
<1> QED  BY <1>1, <1>2, <1>3, BufferAssumption

\* A packet that fits is whole, and so is raw.
LEMMA FittingIsWhole ==
    ASSUME NEW i \in Written, ~Overflows(Length(i))
    PROVE  Whole(Packet(i)) /\ Raw(Packet(i))
<1> DEFINE d == Digits(Length(i))
<1>1. /\ Raw(Packet(i)) /\ d \in 1 .. MaxBytes /\ LengthEnds(Packet(i), d)
      /\ Len(Packet(i)) = 1 + d + ReadVarnum(Packet(i))
  BY PacketIsWhole
<1> QED  BY <1>1 DEF Whole

LEMMA ReadInit == Init => ReadInv
BY DEF Init, ReadInv, Shape

LEMMA ReadStep == ReadInv /\ [Next]_vars => ReadInv'
<1> SUFFICES ASSUME ReadInv, [Next]_vars PROVE ReadInv'
  OBVIOUS
<1>1. /\ input \in Inputs /\ bufSize \in BufSizes /\ bufSize \in Nat
      /\ input.kind = "bytes" => input \in Arrivals
      /\ input.kind # "bytes" => input \in Written
      /\ Shape(phase, stream, buf, result)
  BY InputIs DEF ReadInv
<1>2. input' = input /\ bufSize' = bufSize
  BY DEF Next, Receive, Encode, EncodeFails, ReadHeader, ReadLength, ReadRest, TooLong, ReadStops,
         Decode, vars
<1> SUFFICES Shape(phase', stream', buf', result')
  BY <1>1, <1>2 DEF ReadInv
<1>3. CASE UNCHANGED vars
  BY <1>1, <1>3 DEF vars
<1>4. CASE Receive
  <2> PICK h \in Fields, t \in Text : stream' = <<h>> \o t
    BY <1>1, <1>4 DEF Receive, Arrivals
  <2>1. Raw(<<h>> \o t)
    BY HeadedIsRaw
  <2>2. phase' = "header" /\ buf' = <<>> /\ result' = Nothing
    BY <1>1, <1>4 DEF Receive, Shape
  <2> QED  BY <2>1, <2>2 DEF Shape
<1>5. CASE Encode
  <2>1. Whole(Packet(input)) /\ Raw(Packet(input)) /\ stream' = Packet(input)
    BY <1>1, <1>5, FittingIsWhole DEF Encode, Fits
  <2>2. phase' \in {"header", "sent"} /\ buf' = <<>> /\ result' = Nothing
    BY <1>1, <1>5 DEF Encode, Shape
  <2> QED  BY <2>1, <2>2 DEF Shape
<1>6. CASE EncodeFails
  <2>1. phase' = "unwritten" /\ stream' = <<>> /\ buf' = <<>> /\ result' = Nothing
    BY <1>1, <1>6 DEF EncodeFails, Shape
  <2> QED  BY <2>1 DEF Shape
<1>7. CASE ReadHeader
  <2>1. Raw(stream) /\ buf = <<>> /\ result = Nothing
    BY <1>1, <1>7 DEF ReadHeader, Shape
  <2>2. /\ 1 <= Len(stream) /\ buf' = <<>> \o SubSeq(stream, 1, 1)
        /\ stream' = SubSeq(stream, 2, Len(stream))
    BY <1>7, <2>1 DEF ReadHeader, Take
  <2>3. Raw(buf') /\ Len(buf') = 1 /\ stream' \in Text
    BY <2>1, <2>2, HeaderIsShaped
  <2>4. phase' \in {"length", "refused"} /\ result' = Nothing
    BY <1>7, <2>1 DEF ReadHeader
  <2>5. CASE phase' = "length"
    <3>1. Len(buf') <= MaxBytes + 1 /\ \A k \in 2 .. Len(buf') : buf'[k] >= Radix
      BY <2>3 DEF MaxBytes
    <3> QED  BY <2>3, <2>4, <2>5, <3>1 DEF Shape
  <2>6. CASE phase' = "refused"
    <3>1. Shape("refused", stream', buf', Nothing)
      BY <2>3, StoppedIsShaped
    <3> QED  BY <2>4, <2>6, <3>1
  <2> QED  BY <2>4, <2>5, <2>6
<1>8. CASE ReadLength
  <2>1. /\ stream \in Text /\ Raw(buf) /\ result = Nothing /\ Len(buf) <= MaxBytes + 1
        /\ \A k \in 2 .. Len(buf) : buf[k] >= Radix
    BY <1>1, <1>8 DEF ReadLength, Shape
  <2>2. /\ 1 <= Len(stream) /\ buf' = buf \o SubSeq(stream, 1, 1)
        /\ stream' = SubSeq(stream, 1 + 1, Len(stream))
    BY <1>8, <2>1 DEF ReadLength, Take
  <2>3. Len(stream) \in Nat /\ 1 \in 0 .. Len(stream)
    BY <2>1, <2>2 DEF Text
  <2>4. /\ Raw(buf') /\ Len(buf') = Len(buf) + 1 /\ Len(buf) \in Nat
        /\ \A k \in 1 .. Len(buf) : buf'[k] = buf[k]
        /\ \A k \in 1 .. 1 : buf'[Len(buf) + k] = stream[k] /\ stream[k] \in Byte
        /\ stream' \in Text
    <3>1. Moved(stream, buf, 1, buf \o SubSeq(stream, 1, 1), SubSeq(stream, 1 + 1, Len(stream)))
      BY <2>1, <2>3, BytesAreMoved
    <3>2. Moved(stream, buf, 1, buf', stream')
      BY <2>2, <3>1
    <3> QED  BY <3>2 DEF Moved
  <2>5. buf'[Len(buf) + 1] = stream[1] /\ stream[1] \in Byte
    BY <2>4
  <2>6. result' = Nothing
    BY <1>8, <2>1 DEF ReadLength
  <2>7. Head(stream) = stream[1]
    BY <2>1, <2>2 DEF Text
  <2>8. Radix \in Nat /\ stream[1] \in Nat /\ Len(buf) >= 1
    BY <2>1, <2>5, NumberAssumption DEF Byte, Raw
  <2>9. CASE Len(buf) = MaxBytes + 1
    <3>1. phase' = "refused"
      BY <1>8, <2>9 DEF ReadLength
    <3>2. Shape("refused", stream', buf', Nothing)
      BY <2>4, StoppedIsShaped
    <3> QED  BY <2>6, <3>1, <3>2
  <2>10. CASE Len(buf) # MaxBytes + 1 /\ stream[1] >= Radix
    <3>1. phase' = "length"
      BY <1>8, <2>7, <2>10 DEF ReadLength
    <3>2. Len(buf') <= MaxBytes + 1
      <4>1. Len(buf) \in Nat /\ Len(buf) <= 5 /\ Len(buf) # 5
        BY <2>1, <2>4, <2>10 DEF MaxBytes
      <4> PICK l \in Nat : l = Len(buf)
        BY <4>1
      <4>2. Len(buf') = l + 1 /\ l <= 5 /\ l # 5
        BY <2>4, <4>1
      <4> QED  BY <4>2 DEF MaxBytes
    <3>3. \A k \in 2 .. Len(buf') : buf'[k] >= Radix
      <4> TAKE k \in 2 .. Len(buf')
      <4>1. CASE k <= Len(buf)
        BY <2>1, <2>4, <4>1
      <4>2. CASE k = Len(buf) + 1
        BY <2>5, <2>10, <4>2
      <4> QED  BY <2>4, <4>1, <4>2
    <3> QED  BY <2>4, <2>6, <3>1, <3>2, <3>3 DEF Shape
  <2>11. CASE Len(buf) # MaxBytes + 1 /\ ~(stream[1] >= Radix)
    <3>1. phase' = "rest"
      BY <1>8, <2>7, <2>11 DEF ReadLength
    <3>2. PICK m \in 1 .. MaxBytes : m = Len(buf)
      <4>1. Len(buf) \in Nat /\ Len(buf) <= 5 /\ Len(buf) # 5 /\ Len(buf) >= 1
        BY <2>1, <2>4, <2>8, <2>11 DEF MaxBytes
      <4> PICK l \in Nat : l = Len(buf)
        BY <4>1
      <4>2. l \in 1 .. MaxBytes
        BY <4>1 DEF MaxBytes
      <4> QED  BY <4>2
    <3>3. \A j \in 1 .. m - 1 : buf'[j + 1] >= Radix
      <4> TAKE j \in 1 .. m - 1
      <4>1. j + 1 \in 2 .. Len(buf) /\ j + 1 \in 1 .. Len(buf)
        BY <2>4, <3>2
      <4> QED  BY <2>1, <2>4, <4>1
    <3>4. buf'[m + 1] < Radix
      BY <2>5, <2>8, <2>11, <3>2
    <3>5. LengthEnds(buf', m) /\ Len(buf') = m + 1
      BY <2>4, <3>2, <3>3, <3>4 DEF LengthEnds
    <3> QED  BY <2>4, <2>6, <3>1, <3>5 DEF Shape
  <2> QED  BY <2>8, <2>9, <2>10, <2>11
<1>9. CASE ReadRest
  <2>1. stream \in Text /\ Raw(buf) /\ result = Nothing
    BY <1>1, <1>9 DEF ReadRest, Shape
  <2>2. PICK m \in 1 .. MaxBytes : LengthEnds(buf, m) /\ Len(buf) = m + 1
    BY <1>1, <1>9 DEF ReadRest, Shape
  <2>3. PICK n \in Nat : n = ReadVarnum(buf)
    BY <2>1, <2>2, ReadVarnumIs
  <2>4. /\ n <= Len(stream) /\ buf' = buf \o SubSeq(stream, 1, n)
        /\ stream' = SubSeq(stream, n + 1, Len(stream))
    BY <1>9, <2>3 DEF ReadRest, Take
  <2>5. n \in 0 .. Len(stream)
    BY <2>1, <2>4 DEF Text
  <2>6. /\ Raw(buf') /\ Len(buf') = Len(buf) + n /\ Len(buf) \in Nat
        /\ \A k \in 1 .. Len(buf) : buf'[k] = buf[k]
        /\ stream' \in Text
    <3>1. Moved(stream, buf, n, buf \o SubSeq(stream, 1, n), SubSeq(stream, n + 1, Len(stream)))
      BY <2>1, <2>5, BytesAreMoved
    <3>2. Moved(stream, buf, n, buf', stream')
      BY <2>4, <3>1
    <3> QED  BY <3>2 DEF Moved
  <2>7. m < Len(buf') /\ \A k \in 1 .. m : buf'[1 + k] = buf[1 + k]
    BY <2>2, <2>6 DEF MaxBytes
  <2>8. LengthEnds(buf', m) /\ ReadVarnum(buf') = n
    BY <2>1, <2>2, <2>3, <2>6, <2>7, ReadVarnumIsOfItsBytes
  <2>9. Whole(buf')
    <3>1. Len(buf') = 1 + m + ReadVarnum(buf')
      BY <2>2, <2>6, <2>8 DEF MaxBytes
    <3> QED  BY <2>6, <2>8, <3>1 DEF Whole
  <2>10. phase' = "decode" /\ result' = Nothing
    BY <1>9, <2>1 DEF ReadRest
  <2> QED  BY <2>6, <2>9, <2>10 DEF Shape
<1>10. CASE TooLong
  <2>1. stream \in Text /\ Raw(buf) /\ result = Nothing
    BY <1>1, <1>10 DEF TooLong, Shape
  <2>2. phase' = "refused" /\ stream' = stream /\ buf' = buf /\ result' = Nothing
    BY <1>10, <2>1 DEF TooLong
  <2>3. Shape("refused", stream, buf, Nothing)
    BY <2>1, StoppedIsShaped
  <2> QED  BY <2>2, <2>3
<1>11. CASE ReadStops
  <2>1. (stream \in Text \/ Raw(stream)) /\ (Raw(buf) \/ buf = <<>>) /\ result = Nothing
    BY <1>1, <1>11 DEF ReadStops, Shape
  <2>2. phase' = "lost" /\ stream' = stream /\ buf' = buf /\ result' = Nothing
    BY <1>11, <2>1 DEF ReadStops
  <2>3. Shape("lost", stream, buf, Nothing)
    BY <2>1, StoppedIsShaped
  <2> QED  BY <2>2, <2>3
<1>12. CASE Decode
  <2>1. stream \in Text /\ Whole(buf)
    BY <1>1, <1>12 DEF Decode, Shape
  <2>2. /\ stream' = stream /\ buf' = buf /\ result' = DecodePacket(buf)
        /\ phase' \in {"done", "refused"}
    BY <1>12 DEF Decode
  <2>3. result'.cursor \in Cursors /\ result'.cursor.at <= Len(buf)
    BY <1>1, <2>1, <2>2, DecodeStaysInside
  <2>4. IsPacket(stream) /\ IsPacket(buf)
    BY <2>1, RawIsPacket
  <2> QED  BY <2>1, <2>2, <2>3, <2>4 DEF Shape
<1> QED
  BY <1>3, <1>4, <1>5, <1>6, <1>7, <1>8, <1>9, <1>10, <1>11, <1>12 DEF Next

LEMMA ReadIsKept == Spec => []ReadInv
BY ReadInit, ReadStep, PTL DEF Spec

\* The state is typed: a packet's bytes are bytes, however it was written or received.
THEOREM CodecTypesAreKept == Spec => []TypeOK
<1>1. ReadInv => TypeOK
  <2> SUFFICES ASSUME ReadInv PROVE TypeOK
    OBVIOUS
  <2>1. input \in Inputs /\ bufSize \in BufSizes /\ Shape(phase, stream, buf, result)
    BY DEF ReadInv
  <2>2. phase \in {"write", "sent", "unwritten", "header", "length", "rest", "decode",
                   "done", "refused", "lost"}
    BY <2>1 DEF Shape
  <2>3. IsPacket(stream) /\ IsPacket(buf)
    BY <2>1, RawIsPacket DEF Shape
  <2>4. result.cursor \in Cursors
    BY <2>1, NothingIsTyped DEF Shape
  <2>5. result.cursor.err \in {"none", "short", "mismatch", "overflow"}
    BY <2>4 DEF Cursors
  <2> QED  BY <2>1, <2>2, <2>3, <2>5 DEF TypeOK
<1> QED  BY <1>1, ReadIsKept, PTL

\* client.c:266 and others: no decoder looks at a byte behind the packet, for every
\* sequence of bytes and every size of the buffer.
THEOREM DecodersKeepToThePacket == Spec => []OwnBytesOnly
<1>1. ReadInv => OwnBytesOnly
  <2> SUFFICES ASSUME ReadInv PROVE OwnBytesOnly
    OBVIOUS
  <2>1. Shape(phase, stream, buf, result)
    BY DEF ReadInv
  <2>2. Len(<<>>) = 0
    OBVIOUS
  <2>3. CASE result = Nothing
    <3>1. Len(buf) \in Nat
      BY <2>1, <2>3, RawIsPacket DEF Shape
    <3> QED  BY <2>3, <3>1, NothingIsTyped DEF OwnBytesOnly
  <2>4. CASE result # Nothing
    BY <2>1, <2>4 DEF Shape, OwnBytesOnly
  <2> QED  BY <2>3, <2>4
<1> QED  BY <1>1, ReadIsKept, PTL

\* What was just written and is about to be read is whole.
WrittenInv == phase = "header" /\ input.kind # "bytes" => Whole(stream)

LEMMA WrittenStep == ReadInv /\ WrittenInv /\ [Next]_vars => WrittenInv'
<1> SUFFICES ASSUME ReadInv, WrittenInv, [Next]_vars,
                    phase' = "header", input'.kind # "bytes"
             PROVE  Whole(stream')
  BY DEF WrittenInv
<1>1. input' = input
  BY DEF Next, Receive, Encode, EncodeFails, ReadHeader, ReadLength, ReadRest, TooLong, ReadStops,
         Decode, vars
<1>2. input.kind # "bytes"
  BY <1>1
<1>3. CASE UNCHANGED vars
  BY <1>2, <1>3 DEF WrittenInv, vars
<1>4. CASE Encode
  <2>1. input \in Written
    BY <1>2, InputIs DEF ReadInv
  <2> QED  BY <1>4, <2>1, FittingIsWhole DEF Encode, Fits
<1>5. ~Receive
  BY <1>2 DEF Receive
<1>6. /\ ~EncodeFails /\ ~ReadHeader /\ ~ReadLength /\ ~ReadRest
      /\ ~TooLong /\ ~ReadStops /\ ~Decode
  BY DEF EncodeFails, ReadHeader, ReadLength, ReadRest, TooLong, ReadStops, Decode
<1> QED  BY <1>3, <1>4, <1>5, <1>6 DEF Next

\* packet.c:64-83,370,482-485,554-557,691-694: the number in a packet that was written is
\* the number of bytes behind it, whatever is sent: for all options and lists of
\* filters, and for a publish of any topic, payload and QoS.
THEOREM LengthIsTrue == Spec => []AnnouncedIsWritten
<1>1. ReadInv /\ WrittenInv => AnnouncedIsWritten
  <2> SUFFICES ASSUME ReadInv, WrittenInv,
                      phase = "sent" \/ (phase = "header" /\ input.kind # "bytes")
               PROVE  Len(stream) = 1 + LastByte(stream) + ReadVarnum(stream)
    BY DEF AnnouncedIsWritten
  <2>1. Whole(stream)
    BY DEF ReadInv, Shape, WrittenInv
  <2>2. bufSize \in Nat
    BY InputIs DEF ReadInv
  <2> QED  BY <2>1, <2>2, LengthIsRead
<1>2. Init => ReadInv /\ WrittenInv
  BY ReadInit DEF Init, WrittenInv
<1>3. (ReadInv /\ WrittenInv) /\ [Next]_vars => (ReadInv /\ WrittenInv)'
  BY ReadStep, WrittenStep
<1> QED  BY <1>1, <1>2, <1>3, PTL DEF Spec

(* A packet that was written is read as what it was. *)

\* Where the parts of a publish are.
LEMMA PublishBytes ==
    ASSUME NEW m \in Publishes
    PROVE  LET b == PublishBody(m)
               l == Len(lwmqtt_string(m.topic))
               q == IF m.qos > 0 THEN 2 ELSE 0
           IN  /\ l \in Nat /\ Len(m.payload) \in Nat
               /\ PublishLength(m) = 2 + l + q + Len(m.payload)
               /\ NumBase * b[1] + b[2] = l
               /\ \A k \in 1 .. l : b[2 + k] = lwmqtt_string(m.topic)[k]
               /\ m.qos > 0 => NumBase * b[3 + l] + b[4 + l] = m.id
               /\ \A k \in 1 .. Len(m.payload) : b[2 + l + q + k] = m.payload[k]
<1> DEFINE s == lwmqtt_string(m.topic)
           l == Len(s)
           q == IF m.qos > 0 THEN 2 ELSE 0
           h == Num(l)
           id == IF m.qos > 0 THEN Num(m.id) ELSE <<>>
           x == h \o s
           y == x \o id
           b == y \o m.payload
<1>1. m.topic \in Text /\ m.payload \in Text /\ m.id \in Word
  BY DEF Publishes
<1>2. s \in Text /\ l \in Word /\ l \in Nat
  BY <1>1, StringIsText DEF Text
<1>3. h \in Text /\ Len(h) = 2 /\ NumBase * h[1] + h[2] = l
  BY <1>2, WordIsText
<1>4. /\ id \in Text /\ Len(id) = q /\ q \in Nat
      /\ m.qos > 0 => q = 2 /\ NumBase * id[1] + id[2] = m.id
  <2>1. Num(m.id) \in Text /\ Len(Num(m.id)) = 2 /\ NumBase * Num(m.id)[1] + Num(m.id)[2] = m.id
    BY <1>1, WordIsText
  <2>2. <<>> \in Text /\ Len(<<>>) = 0
    BY DEF Text
  <2>3. CASE m.qos > 0
    <3>1. id = Num(m.id) /\ q = 2
      BY <2>3
    <3> QED  BY <3>1, <2>1
  <2>4. CASE ~(m.qos > 0)
    <3>1. id = <<>> /\ q = 0
      BY <2>4
    <3> QED  BY <3>1, <2>2, <2>4
  <2> QED  BY <2>3, <2>4
<1>5. PublishBody(m) = b
  BY DEF PublishBody, Str
<1>6. PublishLength(m) = 2 + l + Len(m.payload) + q
  BY DEF PublishLength, StrLen
<1>7. Len(m.payload) \in Nat
  BY <1>1 DEF Text
<1> HIDE DEF h, id, q, s
<1>8. /\ x \in Text /\ Len(x) = Len(h) + Len(s)
      /\ \A k \in 1 .. Len(h) : x[k] = h[k]
      /\ \A k \in 1 .. Len(s) : x[Len(h) + k] = s[k]
  BY <1>2, <1>3, TextBehind
<1> HIDE DEF x
<1>9. /\ y \in Text /\ Len(y) = Len(x) + Len(id)
      /\ \A k \in 1 .. Len(x) : y[k] = x[k]
      /\ \A k \in 1 .. Len(id) : y[Len(x) + k] = id[k]
  BY <1>4, <1>8, TextBehind
<1> HIDE DEF y
<1>10. /\ \A k \in 1 .. Len(y) : b[k] = y[k]
       /\ \A k \in 1 .. Len(m.payload) : b[Len(y) + k] = m.payload[k]
  BY <1>1, <1>9, TextBehind
<1> HIDE DEF b, l
<1>11. Len(x) = 2 + l /\ Len(y) = 2 + l + q
  BY <1>2, <1>3, <1>4, <1>8, <1>9 DEF l
<1>12. \A k \in 1 .. 2 + l : b[k] = x[k]
  BY <1>2, <1>4, <1>9, <1>10, <1>11
<1>13. b[1] = h[1] /\ b[2] = h[2]
  <2>1. x[1] = h[1] /\ x[2] = h[2]
    BY <1>3, <1>8
  <2> QED  BY <2>1, <1>2, <1>12
<1>14. \A k \in 1 .. l : b[2 + k] = s[k]
  <2> TAKE k \in 1 .. l
  <2>1. 2 + k \in 1 .. 2 + l
    BY <1>2
  <2>2. x[2 + k] = s[k]
    BY <1>3, <1>8 DEF l
  <2> QED  BY <2>1, <2>2, <1>12
<1>15. m.qos > 0 => NumBase * b[3 + l] + b[4 + l] = m.id
  <2> SUFFICES ASSUME m.qos > 0 PROVE NumBase * b[3 + l] + b[4 + l] = m.id
    OBVIOUS
  <2>1. q = 2 /\ Len(id) = 2 /\ NumBase * id[1] + id[2] = m.id
    BY <1>4
  <2>2. y[2 + l + 1] = id[1] /\ y[2 + l + 2] = id[2]
    <3>1. y[Len(x) + 1] = id[1] /\ y[Len(x) + 2] = id[2]
      BY <2>1, <1>9
    <3> QED  BY <3>1, <1>11
  <2>3. 3 + l \in 1 .. Len(y) /\ 4 + l \in 1 .. Len(y) /\ 3 + l = 2 + l + 1 /\ 4 + l = 2 + l + 2
    BY <2>1, <1>2, <1>11
  <2>4. b[3 + l] = id[1] /\ b[4 + l] = id[2]
    BY <2>2, <2>3, <1>10
  <2> QED  BY <2>1, <2>4
<1>16. \A k \in 1 .. Len(m.payload) : b[2 + l + q + k] = m.payload[k]
  BY <1>10, <1>11
<1>17. PublishLength(m) = 2 + l + q + Len(m.payload)
  <2>1. \A u, v, w \in Nat : 2 + u + w + v = 2 + u + v + w
    OBVIOUS
  <2> QED  BY <2>1, <1>2, <1>4, <1>6, <1>7, Zenon
<1>18. NumBase * b[1] + b[2] = l
  BY <1>3, <1>13
<1> QED
  <2> DEFINE c == PublishBody(m)
  <2>1. c = b
    BY <1>5
  <2> HIDE DEF c
  <2>2. /\ NumBase * c[1] + c[2] = l
        /\ \A k \in 1 .. l : c[2 + k] = s[k]
        /\ m.qos > 0 => NumBase * c[3 + l] + c[4 + l] = m.id
        /\ \A k \in 1 .. Len(m.payload) : c[2 + l + q + k] = m.payload[k]
    BY <2>1, <1>14, <1>15, <1>16, <1>18
  <2> QED  BY <2>2, <1>2, <1>7, <1>17 DEF c, l, s, q

Cursor(a, e) == [at |-> a, end |-> e, err |-> "none"]

LEMMA NeedGoesOn ==
    ASSUME NEW a \in Nat, NEW e \in Nat, NEW n \in Nat, a + n <= e
    PROVE  Need(Cursor(a, e), n) = Cursor(a + n, e)
BY DEF Need, Cursor, Ok

\* What follows the number in a packet, as the decoders read it.
LEMMA BodyIsRead ==
    ASSUME bufSize \in Nat, NEW i \in Written, ~Overflows(Length(i)), Len(Packet(i)) <= bufSize
    PROVE  LET b == Packet(i)
               d == LastByte(b)
           IN  /\ d \in Nat /\ ReadVarnum(b) = Length(i) /\ Length(i) \in Nat
               /\ 1 + d + Length(i) <= bufSize
               /\ AfterLength(b) = Cursor(1 + d, bufSize)
               /\ b[1] = HeaderOf(i)
               /\ \A k \in 1 .. Length(i) : At(b, 1 + d + k) = Body(i)[k]
<1> DEFINE b == Packet(i)
           d == Digits(Length(i))
           n == Length(i)
<1>1. /\ Raw(b) /\ d \in 1 .. MaxBytes /\ LengthEnds(b, d)
      /\ n \in Nat /\ ReadVarnum(b) = n /\ Len(b) = 1 + d + n
      /\ b[1] = HeaderOf(i)
      /\ \A k \in 1 .. n : b[1 + d + k] = Body(i)[k]
  BY PacketIsWhole
<1> HIDE DEF b, d, n
<1>2. LastByte(b) = d /\ d \in Nat
  BY <1>1, LastByteIs DEF MaxBytes
<1>3. Len(b) <= bufSize
  BY DEF b
<1>4. AfterLength(b) = Cursor(1 + d, bufSize)
  BY <1>2 DEF AfterLength, Cursor
<1>5. \A k \in 1 .. n : At(b, 1 + d + k) = Body(i)[k]
  BY <1>1, <1>2 DEF At
<1>6. 1 + d + n <= bufSize
  BY <1>1, <1>3
<1> QED  BY <1>1, <1>2, <1>4, <1>5, <1>6 DEF b, n

\* What a decoder makes of the bytes of a publish.
ReadBack(i, r) ==
    /\ Ok(r.cursor)
    /\ i.kind = "PUBLISH" =>
         /\ r.topic = lwmqtt_string(i.topic)
         /\ r.payload = i.payload
         /\ r.qos = i.qos /\ r.retained = i.retained
         /\ i.qos > 0 => r.id = i.id
    /\ i.kind # "PUBLISH" => r.id = i.id

LEMMA PublishIsReadBack ==
    ASSUME bufSize \in Nat, NEW i \in Publishes, ~Overflows(Length(i)), Len(Packet(i)) <= bufSize
    PROVE  ReadBack(i, DecodePublish(Packet(i)))
<1> DEFINE b == Packet(i)
           d == LastByte(b)
           n == Length(i)
           s == lwmqtt_string(i.topic)
           l == Len(s)
           q == IF i.qos > 0 THEN 2 ELSE 0
           o == Len(i.payload)
           body == PublishBody(i)
           end == 1 + d + n
           c1 == Need(BodyOf(b), 2)
           c2 == Need(c1, NumAt(b, c1.at - 2))
           c3 == IF HasId(b) THEN Need(c2, 2) ELSE c2
           c4 == Need(c3, c3.end - c3.at)
<1>1. i \in Written /\ i.kind = "PUBLISH" /\ i.qos \in 0 .. 2 /\ i.payload \in Text
  BY DEF Written, Publishes
<1>2. /\ d \in Nat /\ ReadVarnum(b) = n /\ n \in Nat /\ 1 + d + n <= bufSize
      /\ AfterLength(b) = Cursor(1 + d, bufSize) /\ b[1] = HeaderOf(i)
      /\ \A k \in 1 .. n : At(b, 1 + d + k) = Body(i)[k]
  BY <1>1, BodyIsRead
<1>3. Body(i) = body /\ n = PublishLength(i)
  BY <1>1 DEF Body, Length
<1>4. /\ l \in Nat /\ o \in Nat /\ PublishLength(i) = 2 + l + q + o
      /\ NumBase * body[1] + body[2] = l
      /\ \A k \in 1 .. l : body[2 + k] = s[k]
      /\ i.qos > 0 => NumBase * body[3 + l] + body[4 + l] = i.id
      /\ \A k \in 1 .. o : body[2 + l + q + k] = i.payload[k]
  BY PublishBytes
<1>5. HasId(b) <=> i.qos > 0
  <2>1. b[1].qos = i.qos
    BY <1>1, <1>2 DEF HeaderOf, Header
  <2> QED  BY <1>1, <2>1 DEF HasId
<1>6. q \in Nat /\ (i.qos > 0 => q = 2) /\ (~(i.qos > 0) => q = 0)
  OBVIOUS
<1>7. DecodePublish(b) = IF ~Ok(c4) THEN [cursor |-> c4]
                         ELSE [cursor   |-> c4,
                               topic    |-> Between(b, c1.at, c2.at),
                               qos      |-> IF HasId(b) THEN b[1].qos ELSE 0,
                               id       |-> IF HasId(b) THEN NumAt(b, c2.at) ELSE 0,
                               retained |-> b[1].retained,
                               payload  |-> Between(b, c3.at, c4.at)]
  BY DEF DecodePublish
<1>8. b[1].qos = i.qos /\ b[1].retained = i.retained
  <2>1. b[1].retained = (i.kind = "PUBLISH" /\ i.retained) /\ b[1].qos = i.qos
    BY <1>1, <1>2 DEF HeaderOf, Header
  <2>2. i.retained \in BOOLEAN
    BY DEF Publishes
  <2> QED  BY <1>1, <2>1, <2>2
<1> HIDE DEF b, d, n, s, l, q, o, body
<1>9. n = 2 + l + q + o /\ 2 + l + q <= n
  BY <1>3, <1>4, <1>6
<1>10. \A k \in 1 .. n : At(b, 1 + d + k) = body[k]
  BY <1>2, <1>3
<1>11. BodyOf(b) = Cursor(1 + d, end)
  <2>1. ~(ReadVarnum(b) < 2) /\ ~(bufSize - (1 + d) < n)
    BY <1>2, <1>4, <1>6, <1>9
  <2> QED  BY <2>1, <1>2 DEF BodyOf, Cursor
<1>12. end \in Nat /\ 1 + d \in Nat
  BY <1>2
<1>13. c1 = Cursor(3 + d, end)
  <2>1. 1 + d + 2 <= end /\ 2 \in Nat /\ 1 + d + 2 = 3 + d
    BY <1>2, <1>4, <1>6, <1>9
  <2> HIDE DEF end
  <2> QED  BY <2>1, <1>11, <1>12, NeedGoesOn
<1>14. NumAt(b, 1 + d) = l
  <2>1. 1 \in 1 .. n /\ 2 \in 1 .. n
    BY <1>4, <1>6, <1>9
  <2>2. At(b, 1 + d + 1) = body[1] /\ At(b, 1 + d + 2) = body[2]
    BY <2>1, <1>10
  <2> QED  BY <2>2, <1>4 DEF NumAt
<1>15. c1.at = 3 + d /\ c1.at - 2 = 1 + d /\ 3 + d \in Nat
  BY <1>2, <1>13 DEF Cursor
<1>16. c2 = Cursor(3 + d + l, end)
  <2>1. 3 + d + l <= end
    BY <1>2, <1>4, <1>6, <1>9
  <2> HIDE DEF end, c1
  <2>2. c2 = Need(Cursor(3 + d, end), l)
    BY <1>13, <1>14, <1>15
  <2> QED  BY <2>1, <2>2, <1>4, <1>12, <1>15, NeedGoesOn
<1>17. c2.at = 3 + d + l /\ 3 + d + l \in Nat
  <2> HIDE DEF c2
  <2> QED  BY <1>16, <1>4, <1>15 DEF Cursor
<1>18. c3 = Cursor(3 + d + l + q, end)
  <2> HIDE DEF end, c2
  <2>1. CASE i.qos > 0
    <3>1. c3 = Need(Cursor(3 + d + l, end), 2) /\ q = 2
      BY <2>1, <1>5, <1>6, <1>16
    <3>2. 3 + d + l + 2 <= end
      BY <3>1, <1>2, <1>4, <1>9 DEF end
    <3> QED  BY <3>1, <3>2, <1>12, <1>17, NeedGoesOn
  <2>2. CASE ~(i.qos > 0)
    <3>1. c3 = c2 /\ q = 0
      BY <2>2, <1>5, <1>6
    <3>2. 3 + d + l + 0 = 3 + d + l
      BY <1>17
    <3> QED  BY <3>1, <3>2, <1>16
  <2> QED  BY <2>1, <2>2
<1>19. c3.at = 3 + d + l + q /\ c3.end = end /\ 3 + d + l + q \in Nat
  <2> HIDE DEF c3, end
  <2> QED  BY <1>18, <1>17, <1>6 DEF Cursor
<1>20. end = 3 + d + l + q + o
  BY <1>2, <1>4, <1>6, <1>9
<1>21. c4 = Cursor(end, end)
  <2>1. end - (3 + d + l + q) = o
    BY <1>20, <1>19, <1>4
  <2> HIDE DEF c3, end
  <2>2. c4 = Need(Cursor(3 + d + l + q, end), o)
    BY <1>18, <1>19, <2>1
  <2>3. 3 + d + l + q + o <= end
    BY <1>12, <1>20
  <2>4. c4 = Cursor(3 + d + l + q + o, end)
    BY <2>2, <2>3, <1>4, <1>12, <1>19, NeedGoesOn
  <2> QED  BY <2>4, <1>20
<1>22. Ok(c4) /\ c4.at = end
  <2> HIDE DEF c4, end
  <2> QED  BY <1>21 DEF Cursor, Ok
<1> HIDE DEF c1, c2, c3, c4, end
<1>23. s \in Seq(Byte) /\ i.payload \in Seq(Byte)
  BY <1>1, StringIsText DEF s, Text, Publishes
<1>24. Between(b, 3 + d, 3 + d + l) = s
  <2>1. (3 + d + l) - (3 + d) = l
    BY <1>4, <1>15
  <2>2. Between(b, 3 + d, 3 + d + l) = [k \in 1 .. l |-> At(b, 3 + d + k)]
    BY <2>1 DEF Between
  <2>3. ASSUME NEW k \in 1 .. l PROVE At(b, 3 + d + k) = s[k]
    <3>1. 2 + k \in 1 .. n /\ 1 + d + (2 + k) = 3 + d + k
      BY <1>2, <1>4, <1>6, <1>9
    <3>2. At(b, 1 + d + (2 + k)) = body[2 + k] /\ body[2 + k] = s[k]
      BY <3>1, <1>4, <1>10
    <3> QED  BY <3>1, <3>2
  <2>4. s = [k \in 1 .. l |-> s[k]]
    BY <1>23 DEF l
  <2>5. [k \in 1 .. l |-> At(b, 3 + d + k)] = [k \in 1 .. l |-> s[k]]
    BY <2>3
  <2> QED  BY <2>2, <2>4, <2>5
<1>25. Between(b, 3 + d + l + q, end) = i.payload
  <2>1. end - (3 + d + l + q) = o
    BY <1>20, <1>19, <1>4
  <2>2. Between(b, 3 + d + l + q, end) = [k \in 1 .. o |-> At(b, 3 + d + l + q + k)]
    BY <2>1 DEF Between
  <2>3. ASSUME NEW k \in 1 .. o PROVE At(b, 3 + d + l + q + k) = i.payload[k]
    <3> DEFINE j == 2 + l + q + k
    <3>1. j \in 1 .. n /\ 1 + d + j = 3 + d + l + q + k
      BY <1>2, <1>4, <1>6, <1>9
    <3>2. body[j] = i.payload[k]
      BY <1>4
    <3> HIDE DEF j
    <3>3. At(b, 1 + d + j) = body[j]
      BY <3>1, <1>10
    <3> QED  BY <3>1, <3>2, <3>3
  <2>4. i.payload = [k \in 1 .. o |-> i.payload[k]]
    BY <1>23 DEF o
  <2>5. [k \in 1 .. o |-> At(b, 3 + d + l + q + k)] = [k \in 1 .. o |-> i.payload[k]]
    BY <2>3
  <2> QED  BY <2>2, <2>4, <2>5
<1>26. i.qos > 0 => NumAt(b, 3 + d + l) = i.id
  <2> SUFFICES ASSUME i.qos > 0 PROVE NumAt(b, 3 + d + l) = i.id
    OBVIOUS
  <2>1. 3 + l \in 1 .. n /\ 4 + l \in 1 .. n
    BY <1>4, <1>6, <1>9
  <2>2. 1 + d + (3 + l) = 3 + d + l + 1 /\ 1 + d + (4 + l) = 3 + d + l + 2
    BY <1>2, <1>4
  <2>3. At(b, 1 + d + (3 + l)) = body[3 + l] /\ At(b, 1 + d + (4 + l)) = body[4 + l]
    BY <2>1, <1>10
  <2>4. At(b, 3 + d + l + 1) = body[3 + l] /\ At(b, 3 + d + l + 2) = body[4 + l]
    BY <2>2, <2>3
  <2> QED  BY <2>4, <1>4 DEF NumAt
<1> DEFINE r == DecodePublish(b)
<1>27. /\ r.cursor = c4
       /\ r.topic = Between(b, 3 + d, 3 + d + l)
       /\ r.qos = (IF HasId(b) THEN b[1].qos ELSE 0)
       /\ r.id = (IF HasId(b) THEN NumAt(b, 3 + d + l) ELSE 0)
       /\ r.retained = b[1].retained
       /\ r.payload = Between(b, 3 + d + l + q, end)
  BY <1>7, <1>22, <1>15, <1>17, <1>19
<1> HIDE DEF r
<1>28. r.qos = i.qos
  BY <1>1, <1>5, <1>8, <1>27
<1>29. i.qos > 0 => r.id = i.id
  BY <1>5, <1>26, <1>27
<1>30. r.retained = i.retained
  BY <1>8, <1>27
<1>31. r.topic = s /\ r.payload = i.payload /\ Ok(r.cursor)
  BY <1>22, <1>24, <1>25, <1>27
<1> QED  BY <1>1, <1>28, <1>29, <1>30, <1>31 DEF ReadBack, r, b, s

LEMMA AckIsReadBack ==
    ASSUME bufSize \in Nat, NEW i \in Acks, ~Overflows(Length(i)), Len(Packet(i)) <= bufSize
    PROVE  ReadBack(i, DecodeAck(Packet(i)))
<1> DEFINE b == Packet(i)
           d == LastByte(b)
<1>1. i \in Written /\ i.kind \in {"PUBACK", "PUBREC", "PUBREL", "PUBCOMP"} /\ i.id \in Word
  BY DEF Written, Acks
<1>2. Length(i) = 2 /\ Body(i) = Num(i.id)
  BY <1>1 DEF Length, Body
<1>3. /\ d \in Nat /\ ReadVarnum(b) = 2 /\ 1 + d + 2 <= bufSize
      /\ AfterLength(b) = Cursor(1 + d, bufSize)
      /\ \A k \in 1 .. 2 : At(b, 1 + d + k) = Num(i.id)[k]
  BY <1>1, <1>2, BodyIsRead
<1> HIDE DEF b, d
<1>4. Need(Cursor(1 + d, bufSize), 2) = Cursor(1 + d + 2, bufSize)
  BY <1>3, NeedGoesOn
<1> DEFINE p == Cursor(1 + d + 2, bufSize)
<1>5. Ok(p) /\ p.at - 2 = 1 + d
  BY <1>3 DEF Cursor, Ok
<1>6. DecodeAck(b) = [cursor |-> p, id |-> NumAt(b, 1 + d)]
  <2> HIDE DEF p
  <2>1. Need(AfterLength(b), 2) = p
    BY <1>3, <1>4 DEF p
  <2> QED  BY <2>1, <1>3, <1>5 DEF DecodeAck
<1>7. NumAt(b, 1 + d) = i.id
  <2>1. At(b, 1 + d + 1) = Num(i.id)[1] /\ At(b, 1 + d + 2) = Num(i.id)[2]
    BY <1>3
  <2>2. NumBase * Num(i.id)[1] + Num(i.id)[2] = i.id
    BY <1>1, WordIsText
  <2> QED  BY <2>1, <2>2 DEF NumAt
<1> HIDE DEF p
<1>8. DecodeAck(b).cursor = p /\ DecodeAck(b).id = i.id
  BY <1>6, <1>7
<1> QED  BY <1>1, <1>5, <1>8 DEF ReadBack, b

LEMMA PacketIsReadBack ==
    ASSUME bufSize \in Nat, NEW i \in Written, i.kind \in Receivable,
           ~Overflows(Length(i)), Len(Packet(i)) <= bufSize
    PROVE  ReadBack(i, DecodePacket(Packet(i)))
<1>1. i \in Publishes \/ i \in Acks
  BY DEF Written, Connects, Requests, Pings, Receivable
<1>2. Packet(i)[1].type = i.kind
  <2>1. Packet(i)[1] = HeaderOf(i)
    BY PacketIsWhole
  <2> QED  BY <2>1 DEF HeaderOf, Header
<1>3. CASE i \in Publishes
  <2>1. i.kind = "PUBLISH"
    BY <1>3 DEF Publishes
  <2> QED  BY <2>1, <1>2, <1>3, PublishIsReadBack DEF DecodePacket
<1>4. CASE i \in Acks
  <2>1. i.kind \in {"PUBACK", "PUBREC", "PUBREL", "PUBCOMP"}
    BY <1>4 DEF Acks
  <2>2. DecodePacket(Packet(i)) = DecodeAck(Packet(i))
    BY <2>1, <1>2 DEF DecodePacket
  <2> QED  BY <2>2, <1>4, AckIsReadBack
<1> QED  BY <1>1, <1>3, <1>4

\* Where the bytes of a packet are while it is read.
Sent(i, z, p, s, b, r) ==
    \/ p \in {"write", "unwritten", "lost"}
    \/ /\ p \in {"header", "length", "rest"} /\ b \o s = Packet(i)
       /\ ~Overflows(Length(i)) /\ Len(Packet(i)) <= z
    \/ /\ p = "decode" /\ s = <<>> /\ b = Packet(i)
       /\ ~Overflows(Length(i)) /\ Len(Packet(i)) <= z
    \/ p = "done" /\ s = <<>> /\ ReadBack(i, r)

SentInv == input.kind \in Receivable => Sent(input, bufSize, phase, stream, buf, result)

\* What was read is the beginning of the packet.
LEMMA ReadIsBeginning ==
    ASSUME NEW b, Raw(b), NEW s \in Text
    PROVE  /\ Len(b) \in Nat /\ Len(s) \in Nat /\ Len(b \o s) = Len(b) + Len(s)
           /\ \A k \in 1 .. Len(b) : (b \o s)[k] = b[k]
           /\ s = <<>> => b \o s = b
           /\ Len(s) = 0 => s = <<>>
<1> DEFINE S == Fields \cup Byte
<1>1. b \in Seq(S) /\ s \in Seq(S) /\ Len(b) \in Nat /\ Len(s) \in Nat
  BY DEF Raw, Text
<1> HIDE DEF S
<1>2. /\ Len(b \o s) = Len(b) + Len(s)
      /\ \A k \in 1 .. Len(b) + Len(s) : (b \o s)[k] = IF k <= Len(b) THEN b[k] ELSE s[k - Len(b)]
  BY <1>1, ConcatProperties
<1>3. \A k \in 1 .. Len(b) : (b \o s)[k] = b[k]
  BY <1>1, <1>2
<1>4. s = <<>> => b \o s = b
  BY <1>1, ConcatEmptySeq
<1>5. Len(s) = 0 => s = <<>>
  BY <1>1, EmptySeq
<1> QED  BY <1>1, <1>2, <1>3, <1>4, <1>5

\* Until the last byte of the length was read there is more to come, and little was read.
LEMMA LengthIsUnderWay ==
    ASSUME NEW b, Raw(b), NEW s \in Text, \A k \in 2 .. Len(b) : b[k] >= Radix,
           NEW d \in 1 .. MaxBytes, LengthEnds(b \o s, d)
    PROVE  Len(b) # MaxBytes + 1 /\ Len(b) < Len(b) + Len(s)
<1> DEFINE P == b \o s
<1>1. /\ Len(b) \in Nat /\ Len(s) \in Nat /\ Len(P) = Len(b) + Len(s)
      /\ \A k \in 1 .. Len(b) : P[k] = b[k]
  BY ReadIsBeginning
<1>2. P[d + 1] < Radix /\ d < Len(P) /\ d \in Nat /\ Radix \in Nat
  BY NumberAssumption DEF LengthEnds, MaxBytes
<1> HIDE DEF P
<1>3. Len(b) <= d
  <2> SUFFICES ASSUME ~(Len(b) <= d) PROVE FALSE
    OBVIOUS
  <2>1. d + 1 \in 1 .. Len(b) /\ d + 1 \in 2 .. Len(b)
    BY <1>1, <1>2 DEF MaxBytes
  <2>2. b[d + 1] \in Nat /\ b[d + 1] >= Radix /\ P[d + 1] = b[d + 1]
    BY <1>1, <2>1, NumberAssumption DEF Raw, Byte
  <2> QED  BY <1>2, <2>2
<1>4. Len(b) # MaxBytes + 1
  <2> PICK l \in Nat : l = Len(b)
    BY <1>1
  <2>1. l <= d
    BY <1>3
  <2> QED  BY <2>1 DEF MaxBytes
<1> QED  BY <1>1, <1>2, <1>3, <1>4

\* When it was, the rest is as long as it says.
LEMMA LengthIsOfTheRest ==
    ASSUME NEW i \in Written, ~Overflows(Length(i)), NEW b, Raw(b), NEW s \in Text,
           b \o s = Packet(i), NEW m \in 1 .. MaxBytes, LengthEnds(b, m), Len(b) = m + 1
    PROVE  ReadVarnum(b) = Len(s)
<1> DEFINE P == Packet(i)
           d == Digits(Length(i))
<1>1. /\ Raw(P) /\ d \in 1 .. MaxBytes /\ LengthEnds(P, d)
      /\ Length(i) \in Nat /\ ReadVarnum(P) = Length(i) /\ Len(P) = 1 + d + Length(i)
  BY PacketIsWhole
<1>2. /\ Len(b) \in Nat /\ Len(s) \in Nat /\ Len(P) = Len(b) + Len(s)
      /\ \A k \in 1 .. Len(b) : P[k] = b[k]
  BY ReadIsBeginning
<1> HIDE DEF P, d
<1>3. m \in Nat /\ m + 1 <= Len(P) /\ \A k \in 1 .. m : P[1 + k] = b[1 + k]
  BY <1>2 DEF MaxBytes
<1>4. m < Len(P)
  <2>1. Len(P) \in Nat
    BY <1>2
  <2> QED  BY <1>3, <2>1
<1>5. LengthEnds(P, m) /\ ReadVarnum(P) = ReadVarnum(b)
  BY <1>1, <1>3, <1>4, ReadVarnumIsOfItsBytes
<1>6. d = m
  <2>1. LastByte(P) = m
    BY <1>1, <1>5, LastByteIs
  <2>2. LastByte(P) = d
    BY <1>1, LastByteIs
  <2> QED  BY <2>1, <2>2
<1>7. ReadVarnum(b) = Length(i)
  BY <1>1, <1>5
<1>8. PICK l \in Nat : l = Length(i)
  BY <1>1
<1>9. 1 + m + l = m + 1 + Len(s)
  BY <1>1, <1>2, <1>6, <1>8
<1>10. l = Len(s)
  BY <1>2, <1>3, <1>9
<1> QED  BY <1>7, <1>8, <1>10

LEMMA SentInit == Init => SentInv
BY DEF Init, SentInv, Sent

LEMMA SentStep == ReadInv /\ SentInv /\ [Next]_vars => SentInv'
<1> SUFFICES ASSUME ReadInv, SentInv, [Next]_vars, input'.kind \in Receivable PROVE SentInv'
  BY DEF SentInv
<1>1. input' = input /\ bufSize' = bufSize
  BY DEF Next, Receive, Encode, EncodeFails, ReadHeader, ReadLength, ReadRest, TooLong, ReadStops,
         Decode, vars
<1>2. input.kind \in Receivable /\ input.kind # "bytes"
  BY <1>1 DEF Receivable
<1>3. /\ input \in Written /\ bufSize \in Nat
      /\ Shape(phase, stream, buf, result)
      /\ Sent(input, bufSize, phase, stream, buf, result)
  BY <1>2, InputIs DEF ReadInv, SentInv
<1> SUFFICES Sent(input, bufSize, phase', stream', buf', result')
  BY <1>1 DEF SentInv
<1>4. CASE UNCHANGED vars
  BY <1>3, <1>4 DEF vars
<1>5. CASE Receive
  BY <1>2, <1>5 DEF Receive
<1>6. CASE Encode
  <2>1. phase' = "header" /\ stream' = Packet(input) /\ buf' = <<>>
    BY <1>2, <1>3, <1>6 DEF Encode, Shape
  <2>2. ~Overflows(Length(input)) /\ Len(Packet(input)) <= bufSize
    BY <1>6 DEF Encode, Fits
  <2>3. <<>> \o Packet(input) = Packet(input)
    <3>1. Packet(input) \in Seq(Fields \cup Byte)
      BY <1>3, <2>2, FittingIsWhole DEF Raw
    <3> DEFINE S == Fields \cup Byte
    <3> HIDE DEF S
    <3>2. Packet(input) \in Seq(S)
      BY <3>1 DEF S
    <3> QED  BY <3>2, ConcatEmptySeq
  <2> QED  BY <2>1, <2>2, <2>3 DEF Sent
<1>7. CASE EncodeFails
  <2>1. phase' = "unwritten"
    BY <1>7 DEF EncodeFails
  <2> QED  BY <2>1 DEF Sent
<1> DEFINE P == Packet(input)
           d == Digits(Length(input))
<1>8. ASSUME phase \in {"header", "length", "rest"}
      PROVE  /\ buf \o stream = P
             /\ ~Overflows(Length(input)) /\ Len(Packet(input)) <= bufSize
             /\ d \in 1 .. MaxBytes /\ LengthEnds(P, d) /\ P[1] = HeaderOf(input)
  <2>1. /\ buf \o stream = P
        /\ ~Overflows(Length(input)) /\ Len(Packet(input)) <= bufSize
    BY <1>3, <1>8 DEF Sent
  <2> QED  BY <1>3, <2>1, PacketIsWhole
<1>9. CASE ReadHeader
  <2>1. phase = "header"
    BY <1>9 DEF ReadHeader
  <2>2. Raw(stream) /\ buf = <<>>
    BY <1>3, <2>1 DEF Shape
  <2>3. <<>> \o stream = stream
    <3> DEFINE S == Fields \cup Byte
    <3>1. stream \in Seq(S)
      BY <2>2 DEF Raw
    <3> HIDE DEF S
    <3> QED  BY <3>1, ConcatEmptySeq
  <2>4. stream = P
    BY <1>8, <2>1, <2>2, <2>3
  <2>5. /\ 1 <= Len(stream) /\ buf' = <<>> \o SubSeq(stream, 1, 1)
        /\ stream' = SubSeq(stream, 2, Len(stream))
    BY <1>9, <2>2 DEF ReadHeader, Take
  <2>6. buf' \o stream' = P
    BY <2>2, <2>4, <2>5, HeaderIsShaped
  <2>7. Head(stream).type = input.kind
    <3>1. Head(stream) = stream[1]
      BY <2>2 DEF Raw
    <3>2. stream[1] = HeaderOf(input)
      BY <1>8, <2>1, <2>4
    <3> QED  BY <3>1, <3>2 DEF HeaderOf, Header
  <2>8. phase' = "length"
    BY <1>2, <1>9, <2>7 DEF ReadHeader
  <2> QED  BY <1>8, <2>1, <2>6, <2>8 DEF Sent
<1>10. ASSUME phase = "length"
       PROVE  /\ stream \in Text /\ Raw(buf) /\ Len(buf) \in Nat /\ Len(stream) \in Nat
              /\ Len(buf) # MaxBytes + 1 /\ Len(buf) < Len(buf) + Len(stream)
              /\ Len(P) = Len(buf) + Len(stream)
  <2>1. stream \in Text /\ Raw(buf) /\ \A k \in 2 .. Len(buf) : buf[k] >= Radix
    BY <1>3, <1>10 DEF Shape
  <2>2. buf \o stream = P /\ d \in 1 .. MaxBytes /\ LengthEnds(P, d)
    BY <1>8, <1>10
  <2> HIDE DEF P, d
  <2>3. Len(buf) # MaxBytes + 1 /\ Len(buf) < Len(buf) + Len(stream)
    BY <2>1, <2>2, LengthIsUnderWay
  <2>4. Len(buf) \in Nat /\ Len(stream) \in Nat /\ Len(buf \o stream) = Len(buf) + Len(stream)
    BY <2>1, ReadIsBeginning
  <2> QED  BY <2>1, <2>2, <2>3, <2>4
<1>11. CASE ReadLength
  <2>1. phase = "length"
    BY <1>11 DEF ReadLength
  <2>2. stream \in Text /\ Raw(buf) /\ Len(buf) \in Nat
    BY <1>10, <2>1
  <2>3. Len(buf) # MaxBytes + 1
    BY <1>10, <2>1
  <2>4. /\ 1 <= Len(stream) /\ buf' = buf \o SubSeq(stream, 1, 1)
        /\ stream' = SubSeq(stream, 1 + 1, Len(stream))
    BY <1>11 DEF ReadLength, Take
  <2>5. 1 \in 0 .. Len(stream)
    BY <2>2, <2>4 DEF Text
  <2>6. Moved(stream, buf, 1, buf \o SubSeq(stream, 1, 1), SubSeq(stream, 1 + 1, Len(stream)))
    BY <2>2, <2>5, BytesAreMoved
  <2>7. buf' \o stream' = P
    <3>1. Moved(stream, buf, 1, buf', stream')
      BY <2>4, <2>6
    <3>2. buf' \o stream' = buf \o stream
      BY <3>1 DEF Moved
    <3> QED  BY <1>8, <2>1, <3>2
  <2>8. phase' \in {"length", "rest"}
    BY <1>11, <2>3 DEF ReadLength
  <2> QED  BY <1>8, <2>1, <2>7, <2>8 DEF Sent
<1>12. ASSUME phase = "rest"
       PROVE  /\ stream \in Text /\ Raw(buf) /\ Len(buf) \in Nat /\ Len(stream) \in Nat
              /\ ReadVarnum(buf) = Len(stream) /\ Len(P) = Len(buf) + Len(stream)
  <2>1. stream \in Text /\ Raw(buf)
    BY <1>3, <1>12 DEF Shape
  <2>2. PICK m \in 1 .. MaxBytes : LengthEnds(buf, m) /\ Len(buf) = m + 1
    BY <1>3, <1>12 DEF Shape
  <2>3. buf \o stream = Packet(input) /\ ~Overflows(Length(input))
    BY <1>8, <1>12
  <2>4. ReadVarnum(buf) = Len(stream)
    BY <1>3, <2>1, <2>2, <2>3, LengthIsOfTheRest
  <2>5. Len(buf) \in Nat /\ Len(stream) \in Nat /\ Len(buf \o stream) = Len(buf) + Len(stream)
    BY <2>1, ReadIsBeginning
  <2> QED  BY <2>1, <2>3, <2>4, <2>5
<1>13. CASE ReadRest
  <2>1. phase = "rest" /\ phase' = "decode"
    BY <1>13 DEF ReadRest
  <2>2. PICK n \in Nat : n = Len(stream)
    BY <1>12, <2>1
  <2>3. buf' = buf \o SubSeq(stream, 1, n) /\ stream' = SubSeq(stream, n + 1, Len(stream))
    BY <1>12, <1>13, <2>1, <2>2 DEF ReadRest, Take
  <2>4. n \in 0 .. Len(stream) /\ stream \in Text /\ Raw(buf)
    BY <1>12, <2>1, <2>2
  <2>5. Moved(stream, buf, n, buf \o SubSeq(stream, 1, n), SubSeq(stream, n + 1, Len(stream)))
    BY <2>4, BytesAreMoved
  <2>6. Moved(stream, buf, n, buf', stream')
    BY <2>3, <2>5
  <2>7. Raw(buf') /\ stream' \in Text /\ Len(stream') = 0 /\ buf' \o stream' = buf \o stream
    <3>1. Raw(buf') /\ stream' \in Text /\ Len(stream') = Len(stream) - n
          /\ buf' \o stream' = buf \o stream
      BY <2>6 DEF Moved
    <3>2. Len(stream) - n = 0
      BY <2>2
    <3> QED  BY <3>1, <3>2
  <2>8. stream' = <<>> /\ buf' \o stream' = buf'
    BY <2>7, ReadIsBeginning
  <2>9. buf' = P
    BY <1>8, <2>1, <2>7, <2>8
  <2> QED  BY <1>8, <2>1, <2>8, <2>9 DEF Sent
<1>14. CASE TooLong
  <2>1. Len(P) <= bufSize
    BY <1>8, <1>14 DEF TooLong
  <2>2. CASE phase = "length"
    <3>1. Len(buf) = bufSize
      BY <1>14, <2>2 DEF TooLong
    <3>2. /\ Len(buf) \in Nat /\ Len(stream) \in Nat /\ Len(P) = Len(buf) + Len(stream)
          /\ Len(buf) < Len(buf) + Len(stream)
      BY <1>10, <2>2
    <3> HIDE DEF P
    <3> QED  BY <2>1, <3>1, <3>2
  <2>3. CASE phase = "rest"
    <3>1. Len(buf) + ReadVarnum(buf) > bufSize
      BY <1>14, <2>3 DEF TooLong
    <3>2. /\ Len(buf) \in Nat /\ Len(stream) \in Nat /\ Len(P) = Len(buf) + Len(stream)
          /\ ReadVarnum(buf) = Len(stream)
      BY <1>12, <2>3
    <3>3. Len(P) > bufSize
      BY <3>1, <3>2
    <3>4. Len(P) \in Nat
      BY <3>2
    <3> HIDE DEF P
    <3> QED  BY <1>3, <2>1, <3>3, <3>4
  <2> QED  BY <1>14, <2>2, <2>3 DEF TooLong
<1>15. CASE ReadStops
  <2>1. phase' = "lost"
    BY <1>15 DEF ReadStops
  <2> QED  BY <2>1 DEF Sent
<1>16. CASE Decode
  <2>1. phase = "decode" /\ stream' = stream /\ buf' = buf /\ result' = DecodePacket(buf)
    BY <1>16 DEF Decode
  <2>2. stream = <<>> /\ buf = Packet(input) /\ ~Overflows(Length(input))
        /\ Len(Packet(input)) <= bufSize
    BY <1>3, <2>1 DEF Sent
  <2>3. ReadBack(input, result')
    <3>1. ReadBack(input, DecodePacket(Packet(input)))
      BY <1>2, <1>3, <2>2, PacketIsReadBack
    <3> QED  BY <2>1, <2>2, <3>1
  <2>4. phase' = "done"
    <3>1. Ok(result'.cursor)
      BY <2>3 DEF ReadBack
    <3> QED  BY <1>16, <3>1 DEF Decode
  <2> QED  BY <2>1, <2>2, <2>3, <2>4 DEF Sent
<1> QED
  BY <1>4, <1>5, <1>6, <1>7, <1>9, <1>11, <1>13, <1>14, <1>15, <1>16 DEF Next

\* A packet that fits the buffer is read to its last byte by a client with a buffer of
\* the same size, never refused, and is what was sent: for every topic, payload,
\* identifier and size.
THEOREM WhatIsSentIsRead == Spec => []RoundTrip
<1>1. Spec => [](ReadInv /\ SentInv)
  <2>1. Init => ReadInv /\ SentInv
    BY ReadInit, SentInit
  <2>2. (ReadInv /\ SentInv) /\ [Next]_vars => (ReadInv /\ SentInv)'
    BY ReadStep, SentStep
  <2> QED  BY <2>1, <2>2, PTL DEF Spec
<1>2. SentInv => RoundTrip
  <2> SUFFICES ASSUME SentInv, input.kind \in Receivable PROVE RoundTrip
    BY DEF RoundTrip
  <2>1. Sent(input, bufSize, phase, stream, buf, result)
    BY DEF SentInv
  <2>2. phase # "refused" /\ (phase = "done" => stream = <<>> /\ ReadBack(input, result))
    BY <2>1 DEF Sent
  <2> QED  BY <2>2 DEF RoundTrip, ReadBack
<1> QED  BY <1>1, <1>2, PTL
=============================================================================

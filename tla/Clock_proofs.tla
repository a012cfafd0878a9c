------------------------------- MODULE Clock_proofs -------------------------------
(***************************************************************************)
(* What NtpClient says of the clock, NtpDate of the date it prints and     *)
(* MqttTimer of the timers that run on the same millis(), for every width  *)
(* of millis(), delay of the network, number of requests, offset and       *)
(* timeout.                                                                *)
(*                                                                         *)
(* The clock: the argument follows an answer.  The server stamps it at     *)
(* some time between its request and its arrival (StampedBy); it arrives   *)
(* at most MaxDelay after that request (AnswersInv), and is read at most   *)
(* MaxTimeout after the request under way (WaitInv).  Once it is accepted, *)
(* lastUpdate is what millis() showed just before that request, and        *)
(* currentEpoc the server's seconds at a time no further from it than      *)
(* those two bounds (TimeInv).                                             *)
(*                                                                         *)
(* The date: the years and the months of the code are as long as those of  *)
(* the calendar (YearsAddUp, MonthsAddUp), so that a day falls in one of   *)
(* them only, and the two loops, which end because fewer days are left     *)
(* each time, find it (InYearIs, InMonthIs).                               *)
(***************************************************************************)
EXTENDS NtpDate, MqttTimer, Numbers_proofs

\* The server made the answer between its request and some time.
StampedBy(a, time) ==
    \E s \in a.asked .. time : a.stamp = (s \div Second + SEVENZYYEARS) % Era

AskedInv == \A t \in asked : t <= clock /\ clock <= t + MaxDelay

AnswersInv == \A a \in answers : StampedBy(a, clock) /\ clock <= a.asked + MaxDelay

UdpInv == \A i \in 1 .. Len(udp) :
              StampedBy(udp[i], clock) /\ sentAt <= udp[i].asked + MaxDelay

WaitInv == /\ sentAt <= clock
           /\ pc = "poll" => /\ sentAt \in Nat /\ clock = sentAt + timeout
                             /\ sentAt + MaxTimeout + 2 <= MaxClock

\* The client counts from a poll before its request.
CountsFromRequest ==
    \E k \in Int : askedAt - 1 - StartTime = Wrap * k + lastUpdate

\* And its seconds then are those of a time near the request.
EpochIsOf(s) == /\ currentEpoc = s \div Second
                /\ s <= askedAt + MaxTimeout /\ askedAt <= s + MaxDelay
                /\ source = "own" => askedAt <= s

TimeInv == source # "none" => /\ askedAt \in Nat /\ askedAt <= clock
                              /\ CountsFromRequest
                              /\ \E s \in Nat : EpochIsOf(s)

Inv == TypeOK /\ WaitInv

IInv == Inv /\ AskedInv /\ AnswersInv /\ UdpInv /\ TimeInv
-----------------------------------------------------------------------------
\* What millis() shows is the time since the start but for whole roll-overs.
LEMMA MillisIsRest ==
    ASSUME NEW time \in Int
    PROVE  /\ millisAt(time) \in 0 .. Wrap - 1
           /\ \E p \in Int : time - StartTime = Wrap * p + millisAt(time)
<1>1. Wrap \in Nat \ {0} /\ time - StartTime \in Int
    BY BoardAssumption
<1>2. /\ (time - StartTime) \div Wrap \in Int /\ (time - StartTime) % Wrap \in 0 .. Wrap - 1
      /\ time - StartTime = Wrap * ((time - StartTime) \div Wrap) + ((time - StartTime) % Wrap)
    BY <1>1, Division
<1> QED  BY <1>2 DEF millisAt

\* No time of the model ends the era.
LEMMA EraIsAhead ==
    ASSUME NEW t \in Nat, t <= MaxClock + MaxTimeout + 1
    PROVE  t < Second * Era
<1>1. Second \in Nat /\ Era \in Nat
    BY UnitAssumption
<1>2. Second * Era \in Nat
    BY <1>1
<1> QED  BY <1>2, TimeAssumption

\* The seconds of a time before the end of the era.
LEMMA SecondsInEra ==
    ASSUME NEW t \in Nat, t < Second * Era
    PROVE  t \div Second \in 0 .. Era - 1
<1> DEFINE q == t \div Second
           r == t % Second
<1>1. Second \in Nat \ {0} /\ Era \in Nat /\ t \in Int
    BY UnitAssumption
<1>2. q \in Nat /\ r \in 0 .. Second - 1 /\ t = Second * q + r
    BY <1>1, Division
<1> HIDE DEF q, r
<1>3. Second * q \in Int /\ Second * Era \in Int /\ Second * q < Second * Era
    BY <1>1, <1>2
<1>4. q < Era
    BY <1>1, <1>2, <1>3, Smaller
<1> QED  BY <1>1, <1>2, <1>4 DEF q

\* A packet's stamp is a word, and lets the seconds it was made from be read.
LEMMA StampIsRead ==
    ASSUME NEW u \in 0 .. Era - 1
    PROVE  LET stamp == (u + SEVENZYYEARS) % Era
           IN stamp \in 0 .. Era - 1 /\ (stamp - SEVENZYYEARS) % Era = u
<1> DEFINE stamp == (u + SEVENZYYEARS) % Era
           k == (u + SEVENZYYEARS) \div Era
<1>1. Era \in Nat \ {0} /\ SEVENZYYEARS \in Nat
    BY UnitAssumption
<1>2. k \in Int /\ stamp \in 0 .. Era - 1 /\ u + SEVENZYYEARS = Era * k + stamp
    BY <1>1, Division
<1> HIDE DEF stamp, k
<1>3. stamp - SEVENZYYEARS = Era * (-k) + u /\ -k \in Int /\ stamp - SEVENZYYEARS \in Int
    BY <1>1, <1>2
<1>4. (stamp - SEVENZYYEARS) % Era = u
    BY <1>1, <1>3, RestIs
<1> QED  BY <1>2, <1>4 DEF stamp

-----------------------------------------------------------------------------
\* Time passes while forceUpdate() waits, and not beyond its timeout.
LEMMA WaitStays ==
    ASSUME Inv, [Next]_vars
    PROVE  WaitInv' /\ clock' \in StartTime .. MaxClock /\ timeout' \in 0 .. MaxTimeout + 1
<1> USE UnitAssumption, TimeAssumption, BoardAssumption DEF Inv, TypeOK, WaitInv
<1>1. CASE UNCHANGED vars
    BY <1>1 DEF vars, control, ghost
<1>2. CASE Tick
    BY <1>2 DEF Tick, Pass, control
<1>3. CASE \E t \in asked : \E ok \in BOOLEAN : ServerAnswer(t, ok)
    BY <1>3 DEF ServerAnswer, control, ghost
<1>4. CASE \E a \in answers : Deliver(a)
    BY <1>4 DEF Deliver, control, ghost
<1>5. CASE Update \/ ForceUpdate
    BY <1>5 DEF Update, ForceUpdate, Request
<1>6. CASE Poll
    <2>1. timeout + 1 \in 0 .. ByteMax /\ timeout \in Nat /\ timeout <= MaxTimeout
        BY <1>6 DEF Poll, TimedOut
    <2>2. (timeout + 1) % (ByteMax + 1) = timeout + 1
        BY <2>1
    <2> QED  BY <1>6, <2>1, <2>2 DEF Poll, Pass
<1>7. CASE GiveUp
    BY <1>7 DEF GiveUp, Pass, TimedOut
<1>8. CASE Accept
    BY <1>8 DEF Accept, Pass, TimedOut
<1>9. CASE End
    BY <1>9 DEF End, control, ghost
<1>10. CASE SetEpochTime(StartTime \div Second)
    BY <1>10 DEF SetEpochTime, control
<1> QED  BY <1>1, <1>2, <1>3, <1>4, <1>5, <1>6, <1>7, <1>8, <1>9, <1>10
         DEF Next, Network, Client

\* What the server sends is an answer.
LEMMA AnswerIsTyped ==
    ASSUME TypeOK, NEW t \in asked, NEW ok \in BOOLEAN
    PROVE  Answer(t, ok) \in AnswerType
<1> DEFINE stamp == (Seconds + SEVENZYYEARS) % Era
<1>1. clock \in Nat /\ clock < Second * Era
    <2>1. clock \in Nat /\ clock <= MaxClock + MaxTimeout + 1
        BY BoardAssumption, TimeAssumption DEF TypeOK
    <2> QED  BY <2>1, EraIsAhead
<1>2. Seconds \in 0 .. Era - 1
    BY <1>1, SecondsInEra DEF Seconds
<1>3. stamp \in 0 .. Era - 1
    BY <1>2, StampIsRead
<1> HIDE DEF stamp
<1>4. t \in Nat
    BY DEF TypeOK
<1>5. [stamp |-> stamp, valid |-> ok, asked |-> t] \in AnswerType
    BY <1>3, <1>4 DEF AnswerType
<1> QED  BY <1>5 DEF Answer, stamp

\* What is read off the socket leaves a socket.
LEMMA ReadIsTyped ==
    ASSUME udp \in Seq(AnswerType), Read
    PROVE  /\ udp' \in Seq(AnswerType)
           /\ \A i \in 1 .. Len(udp') : i + 1 \in 1 .. Len(udp) /\ udp'[i] = udp[i + 1]
           /\ Received => /\ Head(udp) \in AnswerType /\ Head(udp) = udp[1]
                          /\ 1 \in 1 .. Len(udp)
<1>1. CASE udp = <<>>
    BY <1>1 DEF Read, Received
<1>2. CASE udp # <<>>
    BY <1>2 DEF Read, Received
<1> QED  BY <1>1, <1>2

LEMMA TypesStay ==
    ASSUME Inv, [Next]_vars
    PROVE  TypeOK'
<1>0. clock' \in StartTime .. MaxClock /\ timeout' \in 0 .. MaxTimeout + 1
    BY WaitStays
<1> USE <1>0 DEF Inv, TypeOK
<1>1. CASE UNCHANGED vars
    BY <1>1 DEF vars, network, client, control, answer, ghost
<1>2. CASE Tick
    BY <1>2 DEF Tick, Pass, client, control, answer
<1>3. ASSUME NEW t \in asked, NEW ok \in BOOLEAN, ServerAnswer(t, ok)
      PROVE  TypeOK'
    BY <1>3, AnswerIsTyped DEF ServerAnswer, client, control, answer, ghost
<1>4. ASSUME NEW a \in answers, Deliver(a)
      PROVE  TypeOK'
    <2>1. a \in AnswerType /\ Append(udp, a) \in Seq(AnswerType)
        OBVIOUS
    <2> QED  BY <1>4, <2>1 DEF Deliver, client, control, answer, ghost
<1>5. CASE Update \/ ForceUpdate
    <2>1. Request /\ udpSetup' \in BOOLEAN
        BY <1>5 DEF Update, ForceUpdate
    <2>2. clock \in Nat /\ requests + 1 \in 0 .. MaxRequests
        BY <2>1, BoardAssumption, TimeAssumption DEF Request
    <2>3. <<>> \in Seq(AnswerType)
        OBVIOUS
    <2> QED  BY <2>1, <2>2, <2>3 DEF Request, Flush, answer
<1>6. CASE Poll
    BY <1>6, ReadIsTyped DEF Poll, Pass, client, answer
<1>7. CASE GiveUp
    BY <1>7, ReadIsTyped DEF GiveUp, Pass, client, answer
<1>8. CASE Accept
    <2>1. Head(udp) \in AnswerType /\ udp' \in Seq(AnswerType)
        BY <1>8, ReadIsTyped DEF Accept
    <2>2. sentAt \in Nat
        BY <1>8 DEF Accept, WaitInv
    <2>3. lastUpdate' \in 0 .. Wrap - 1
        <3>1. lastUpdate' = (millisAt(clock + 1) - (timeout + 2)) % Wrap
            BY <1>8 DEF Accept, Compensated
        <3>2. Wrap \in Nat \ {0} /\ clock + 1 - StartTime \in Int /\ timeout \in Int
            BY BoardAssumption, TimeAssumption
        <3>3. millisAt(clock + 1) \in Int
            <4>1. clock + 1 \in Int
                BY BoardAssumption, TimeAssumption
            <4>2. millisAt(clock + 1) \in 0 .. Wrap - 1
                BY <4>1, MillisIsRest
            <4> QED  BY <3>2, <4>2
        <3>4. millisAt(clock + 1) - (timeout + 2) \in Int
            BY <3>2, <3>3
        <3> QED  BY <3>1, <3>2, <3>4, Division
    <2>4. currentEpoc' \in 0 .. Era - 1
        <3>1. Head(udp).stamp \in Int
            BY <2>1 DEF AnswerType
        <3>2. Era \in Nat \ {0} /\ Head(udp).stamp - SEVENZYYEARS \in Int
            BY <3>1, UnitAssumption
        <3>3. (Head(udp).stamp - SEVENZYYEARS) % Era \in 0 .. Era - 1
            BY <3>2, Division
        <3> QED  BY <1>8, <3>3 DEF Accept
    <2> QED  BY <1>8, <2>1, <2>2, <2>3, <2>4 DEF Accept, Pass
<1>9. CASE End
    <2>1. <<>> \in Seq(AnswerType)
        OBVIOUS
    <2> QED  BY <1>9, <2>1 DEF End, network, control, answer, ghost
<1>10. CASE SetEpochTime(StartTime \div Second)
    <2>1. StartTime \in Nat /\ StartTime <= MaxClock + MaxTimeout + 1
        BY BoardAssumption, TimeAssumption
    <2>2. StartTime \div Second \in 0 .. Era - 1
        BY <2>1, EraIsAhead, SecondsInEra
    <2> QED  BY <1>10, <2>2 DEF SetEpochTime, network, control
<1> QED  BY <1>1, <1>2, <1>3, <1>4, <1>5, <1>6, <1>7, <1>8, <1>9, <1>10
         DEF Next, Network, Client

LEMMA InitIsInv == Init => Inv
<1> SUFFICES ASSUME Init PROVE Inv
    OBVIOUS
<1>1. <<>> \in Seq(AnswerType) /\ Era \in Nat \ {0} /\ Wrap \in Nat \ {0}
    BY UnitAssumption, BoardAssumption
<1>2. udp \in Seq(AnswerType) /\ asked \subseteq Nat /\ answers \subseteq AnswerType
    BY <1>1 DEF Init
<1>3. /\ clock \in StartTime .. MaxClock /\ clock \in Nat /\ timeout \in 0 .. MaxTimeout + 1
      /\ lastUpdate \in 0 .. Wrap - 1 /\ currentEpoc \in 0 .. Era - 1
      /\ requests \in 0 .. MaxRequests
    BY <1>1, BoardAssumption, TimeAssumption DEF Init
<1>4. TypeOK
    BY <1>2, <1>3 DEF Init, TypeOK
<1>5. WaitInv
    BY <1>3 DEF Init, WaitInv, Never
<1> QED  BY <1>4, <1>5 DEF Inv

LEMMA InvHolds == Spec => []Inv
<1>1. Inv /\ [Next]_vars => Inv'
    BY WaitStays, TypesStay DEF Inv
<1> QED  BY <1>1, InitIsInv, PTL DEF Spec

\* Whatever is lost, doubled or late, the state stays well-typed.
THEOREM TypeIsKept == Spec => []TypeOK
<1>1. Spec => []Inv
    BY InvHolds
<1>2. Inv => TypeOK
    BY DEF Inv
<1> QED  BY <1>1, <1>2, PTL

\* NTPClient.cpp:110 "timeout after 1000 ms": forceUpdate() returns in time, whatever the
\* network does with its packets.
THEOREM UpdateReturns == Spec => []ReturnsInTime
<1>1. Spec => []Inv
    BY InvHolds
<1>2. Inv => ReturnsInTime
    BY TimeAssumption DEF Inv, TypeOK, WaitInv, ReturnsInTime
<1> QED  BY <1>1, <1>2, PTL
-----------------------------------------------------------------------------
LEMMA StampsLast ==
    ASSUME NEW a \in AnswerType, NEW time \in Nat, NEW later \in Nat, time <= later,
           StampedBy(a, time)
    PROVE  StampedBy(a, later)
BY DEF StampedBy, AnswerType

\* A request is alive until its answer has no time left to arrive.
LEMMA AskedStays ==
    ASSUME Inv, AskedInv, [Next]_vars
    PROVE  AskedInv'
<1> USE TimeAssumption, BoardAssumption DEF Inv, TypeOK, AskedInv
<1>1. CASE UNCHANGED <<clock, asked>>
    BY <1>1
<1>2. CASE Pass
    BY <1>2 DEF Pass, Alive
<1>3. ASSUME NEW t \in asked, NEW ok \in BOOLEAN, ServerAnswer(t, ok)
      PROVE  AskedInv'
    BY <1>3 DEF ServerAnswer
<1>4. CASE Request
    BY <1>4 DEF Request
<1> QED  BY <1>1, <1>2, <1>3, <1>4
         DEF Next, Network, Client, vars, network, Tick, Deliver, Update, ForceUpdate, Poll,
             GiveUp, Accept, End, SetEpochTime

\* An answer is stamped when it is made, and then grows old with its request.
LEMMA AnswersStay ==
    ASSUME Inv, AskedInv, AnswersInv, [Next]_vars
    PROVE  AnswersInv'
<1> USE TimeAssumption, BoardAssumption DEF Inv, TypeOK
<1>0. clock \in Nat /\ TypeOK'
    BY TypesStay
<1>1. CASE clock' = clock /\ answers' \subseteq answers
    BY <1>1 DEF AnswersInv, StampedBy
<1>2. CASE Pass
    <2> SUFFICES ASSUME NEW a \in answers'
                 PROVE  StampedBy(a, clock') /\ clock' <= a.asked + MaxDelay
        BY DEF AnswersInv, StampedBy
    <2>1. a \in answers /\ Alive(a.asked) /\ clock' = clock + 1 /\ a \in AnswerType
        BY <1>2 DEF Pass
    <2>2. StampedBy(a, clock)
        BY <2>1 DEF AnswersInv
    <2>3. StampedBy(a, clock')
        BY <1>0, <2>1, <2>2, StampsLast
    <2> QED  BY <1>0, <2>1, <2>3 DEF Alive, AnswerType
<1>3. ASSUME NEW t \in asked, NEW ok \in BOOLEAN, ServerAnswer(t, ok)
      PROVE  AnswersInv'
    <2>1. Answer(t, ok) \in AnswerType
        BY AnswerIsTyped
    <2>2. t \in Nat /\ t <= clock /\ clock <= t + MaxDelay
        BY DEF AskedInv
    <2>3. /\ Answer(t, ok).asked = t
          /\ Answer(t, ok).stamp = (clock \div Second + SEVENZYYEARS) % Era
        BY DEF Answer, Seconds
    <2>4. StampedBy(Answer(t, ok), clock)
        BY <1>0, <2>2, <2>3 DEF StampedBy
    <2>5. \A a \in answers \cup {Answer(t, ok)} :
              StampedBy(a, clock) /\ clock <= a.asked + MaxDelay
        BY <2>2, <2>3, <2>4 DEF AnswersInv
    <2> QED  BY <1>3, <2>5 DEF ServerAnswer, AnswersInv, StampedBy
<1> QED  BY <1>1, <1>2, <1>3
         DEF Next, Network, Client, vars, network, Tick, Deliver, Request, Update, ForceUpdate,
             Poll, GiveUp, Accept, End, SetEpochTime

\* What is in the socket came after the last request emptied it, and in time.
LEMMA UdpStays ==
    ASSUME Inv, AnswersInv, UdpInv, [Next]_vars
    PROVE  UdpInv'
<1> USE TimeAssumption, BoardAssumption DEF Inv, TypeOK
<1>0. clock \in Nat /\ TypeOK'
    BY TypesStay
<1>1. CASE UNCHANGED <<clock, udp, sentAt>>
    BY <1>1 DEF UdpInv, StampedBy
<1>2. CASE udp' = <<>>
    BY <1>2 DEF UdpInv
<1>3. CASE UNCHANGED udp /\ sentAt' = sentAt /\ clock' = clock + 1
    <2>1. \A i \in 1 .. Len(udp) : udp[i] \in AnswerType /\ StampedBy(udp[i], clock)
        BY DEF UdpInv
    <2>2. \A i \in 1 .. Len(udp) : StampedBy(udp[i], clock + 1)
        BY <1>0, <2>1, StampsLast
    <2> QED  BY <1>3, <2>2 DEF UdpInv, StampedBy
<1>4. CASE Read /\ sentAt' = sentAt /\ clock' = clock + 1
    <2>1. \A i \in 1 .. Len(udp) : udp[i] \in AnswerType /\ StampedBy(udp[i], clock)
        BY DEF UdpInv
    <2>2. \A i \in 1 .. Len(udp) : StampedBy(udp[i], clock + 1)
        BY <1>0, <2>1, StampsLast
    <2>3. \A i \in 1 .. Len(udp') : i + 1 \in 1 .. Len(udp) /\ udp'[i] = udp[i + 1]
        BY <1>4, ReadIsTyped
    <2>4. \A i \in 1 .. Len(udp) : sentAt <= udp[i].asked + MaxDelay
        BY DEF UdpInv
    <2>5. \A i \in 1 .. Len(udp') : StampedBy(udp'[i], clock + 1)
        BY <2>2, <2>3
    <2>6. \A i \in 1 .. Len(udp') : sentAt <= udp'[i].asked + MaxDelay
        BY <2>3, <2>4
    <2>7. clock' = clock + 1 /\ sentAt' = sentAt
        BY <1>4
    <2> HIDE DEF Inv, TypeOK
    <2> QED  BY <2>5, <2>6, <2>7 DEF UdpInv, StampedBy
<1>5. ASSUME NEW a \in answers, Deliver(a)
      PROVE  UdpInv'
    <2>1. StampedBy(a, clock) /\ a \in AnswerType /\ clock <= a.asked + MaxDelay
        BY DEF AnswersInv
    <2>2. sentAt <= a.asked + MaxDelay
        BY <1>0, <2>1 DEF WaitInv, AnswerType, Never
    <2>3. clock' = clock /\ sentAt' = sentAt /\ udp' \in {udp, Append(udp, a)}
        BY <1>5 DEF Deliver, ghost
    <2>4. \A i \in 1 .. Len(udp') : udp'[i] = a \/ (i \in 1 .. Len(udp) /\ udp'[i] = udp[i])
        BY <2>1, <2>3
    <2> QED  BY <2>1, <2>2, <2>3, <2>4 DEF UdpInv, StampedBy
<1> QED  BY <1>1, <1>2, <1>3, <1>4, <1>5
         DEF Next, Network, Client, vars, ghost, Tick, Pass, ServerAnswer, Request, Flush, Update,
             ForceUpdate, Poll, GiveUp, Accept, End, SetEpochTime

\* What an accepted answer sets lastUpdate to.
LEMMA CountStarts ==
    ASSUME Inv, Accept
    PROVE  CountsFromRequest'
<1> DEFINE now == clock + 1
           m == millisAt(now)
           d == m - (timeout + 2)
           k == d \div Wrap
<1>1. /\ Wrap \in Nat \ {0} /\ StartTime \in Nat /\ timeout \in Nat
      /\ now \in Int
    BY BoardAssumption, TimeAssumption DEF Inv, TypeOK
<1>3. sentAt \in Nat /\ now = sentAt + timeout + 1
    BY <1>1 DEF Accept, Inv, WaitInv
<1>4. lastUpdate' = d % Wrap /\ askedAt' = sentAt
    <2>1. timeout + 1 + 1 = timeout + 2
        BY <1>1
    <2> QED  BY <2>1 DEF Accept, Compensated
<1> HIDE DEF now
<1>2. PICK p \in Int : m \in 0 .. Wrap - 1 /\ now - StartTime = Wrap * p + m
    BY <1>1, MillisIsRest
<1> HIDE DEF m
<1>5. m \in Int /\ d \in Int /\ d = m - timeout - 2
    BY <1>1, <1>2
<1>6. PICK last \in Int : last = d % Wrap
    BY <1>1, <1>5, Division
<1>7. k \in Int /\ d = Wrap * k + last
    BY <1>1, <1>5, <1>6, Division
<1> HIDE DEF d, k
<1>8. /\ Wrap * (p + k) = Wrap * p + Wrap * k /\ Wrap * p \in Int /\ Wrap * k \in Int
      /\ p + k \in Int
    BY <1>1, <1>2, <1>7
<1>9. sentAt - 1 - StartTime = Wrap * (p + k) + last
    BY <1>1, <1>2, <1>3, <1>5, <1>6, <1>7, <1>8
<1> QED  BY <1>4, <1>6, <1>8, <1>9 DEF CountsFromRequest

\* What it sets currentEpoc to.
LEMMA EpochStarts ==
    ASSUME Inv, UdpInv, Accept
    PROVE  \E s \in Nat : EpochIsOf(s)'
<1> DEFINE a == Head(udp)
<1>1. a \in AnswerType /\ 1 \in 1 .. Len(udp) /\ a = udp[1]
    BY ReadIsTyped DEF Accept, Inv, TypeOK
<1>2. StampedBy(a, clock) /\ sentAt <= a.asked + MaxDelay
    BY <1>1 DEF UdpInv
<1>3. /\ sentAt \in Nat /\ clock \in Nat /\ timeout \in Nat /\ clock = sentAt + timeout
      /\ timeout <= MaxTimeout /\ clock <= MaxClock
    BY BoardAssumption, TimeAssumption DEF Accept, TimedOut, Inv, TypeOK, WaitInv
<1>4. PICK s \in a.asked .. clock : a.stamp = (s \div Second + SEVENZYYEARS) % Era
    BY <1>2 DEF StampedBy
<1>5. s \in Nat /\ a.asked \in Nat /\ a.asked <= s /\ s <= clock
    BY <1>1, <1>3, <1>4 DEF AnswerType
<1>6. s \div Second \in 0 .. Era - 1
    BY <1>3, <1>5, EraIsAhead, SecondsInEra, TimeAssumption
<1>7. currentEpoc' = s \div Second
    <2>1. (a.stamp - SEVENZYYEARS) % Era = s \div Second
        BY <1>4, <1>6, StampIsRead
    <2> QED  BY <2>1 DEF Accept
<1>8. askedAt' = sentAt /\ (source' = "own" => a.asked = sentAt)
    BY DEF Accept
<1>9. s <= sentAt + MaxTimeout /\ sentAt <= s + MaxDelay
    BY <1>2, <1>3, <1>5, TimeAssumption
<1>10. EpochIsOf(s)'
    BY <1>5, <1>7, <1>8, <1>9 DEF EpochIsOf
<1> QED  BY <1>5, <1>10

LEMMA TimeStays ==
    ASSUME Inv, UdpInv, TimeInv, [Next]_vars
    PROVE  TimeInv'
<1> USE TimeAssumption, BoardAssumption DEF Inv, TypeOK
<1>1. CASE /\ UNCHANGED <<lastUpdate, currentEpoc, source, askedAt>>
           /\ clock' \in {clock, clock + 1}
    <2>1. CountsFromRequest => CountsFromRequest'
        BY <1>1 DEF CountsFromRequest
    <2>2. \A s \in Nat : EpochIsOf(s) => EpochIsOf(s)'
        BY <1>1 DEF EpochIsOf
    <2> QED  BY <1>1, <2>1, <2>2 DEF TimeInv
<1>2. CASE Accept
    <2>1. sentAt \in Nat /\ sentAt <= clock /\ clock' = clock + 1 /\ askedAt' = sentAt
        BY <1>2 DEF Accept, Pass, WaitInv
    <2> QED  BY <1>2, <2>1, CountStarts, EpochStarts DEF TimeInv
<1>3. CASE source' = "none"
    BY <1>3 DEF TimeInv
<1> QED  BY <1>1, <1>2, <1>3
         DEF Next, Network, Client, vars, client, ghost, answer, Tick, Pass, ServerAnswer,
             Deliver, Request, Update, ForceUpdate, Poll, GiveUp, End, SetEpochTime

LEMMA IInvHolds == Spec => []IInv
<1>1. Init => AskedInv /\ AnswersInv /\ UdpInv /\ TimeInv
    BY DEF Init, AskedInv, AnswersInv, UdpInv, TimeInv
<1>2. IInv /\ [Next]_vars => IInv'
    BY WaitStays, TypesStay, AskedStays, AnswersStay, UdpStays, TimeStays DEF IInv, Inv
<1>3. Init => IInv
    BY <1>1, InitIsInv DEF IInv
<1> QED  BY <1>2, <1>3, PTL DEF Spec
-----------------------------------------------------------------------------
\* Until millis() has wrapped, the client counts every poll since its request and one.
LEMMA PollsAreCounted ==
    ASSUME Inv, TimeInv, InUse
    PROVE  /\ clock - askedAt + 1 \in Nat
           /\ (millis - lastUpdate) % Wrap = clock - askedAt + 1
<1> DEFINE x == clock - askedAt + 1
           now == clock
           m == millisAt(now)
<1>1. /\ Wrap \in Nat \ {0} /\ StartTime \in Nat /\ now \in Int
      /\ lastUpdate \in Int
    BY BoardAssumption, TimeAssumption DEF Inv, TypeOK
<1>2. askedAt \in Nat /\ askedAt <= clock /\ CountsFromRequest
    BY DEF TimeInv, InUse
<1>3. x \in Nat /\ x \in 0 .. Wrap - 1 /\ x = now - askedAt + 1
    BY <1>1, <1>2 DEF InUse
<1> HIDE DEF x, now
<1>4. PICK p \in Int : m \in 0 .. Wrap - 1 /\ now - StartTime = Wrap * p + m
    BY <1>1, MillisIsRest
<1>5. PICK k \in Int : askedAt - 1 - StartTime = Wrap * k + lastUpdate
    BY <1>2 DEF CountsFromRequest
<1> HIDE DEF m
<1>6. m \in Int /\ m - lastUpdate \in Int
    BY <1>1, <1>4
<1>7. /\ Wrap * (k - p) = Wrap * k - Wrap * p /\ Wrap * k \in Int /\ Wrap * p \in Int
      /\ k - p \in Int
    BY <1>1, <1>4, <1>5
<1>8. m - lastUpdate = Wrap * (k - p) + x
    BY <1>1, <1>2, <1>3, <1>4, <1>5, <1>6, <1>7
<1>9. (m - lastUpdate) % Wrap = x
    BY <1>1, <1>3, <1>6, <1>7, <1>8, RestIs
<1> QED  BY <1>3, <1>9 DEF m, now, x, millis

\* getEpochTime() adds up two spans of whole seconds, and the sum is in the era.
LEMMA SecondsAddUp ==
    ASSUME NEW s \in Nat, NEW x \in Nat, s + x <= MaxClock + MaxTimeout + 1
    PROVE  /\ s \div Second \in Nat /\ x \div Second \in Nat
           /\ (s \div Second + x \div Second) % Era = s \div Second + x \div Second
<1> DEFINE u == s \div Second
           v == x \div Second
<1>1. Second \in Nat \ {0} /\ Era \in Nat \ {0} /\ s \in Int /\ x \in Int /\ s + x \in Nat
    BY UnitAssumption
<1>2. PICK r \in 0 .. Second - 1 : s = Second * u + r
    BY <1>1, Division
<1>3. PICK q \in 0 .. Second - 1 : x = Second * v + q
    BY <1>1, Division
<1>4. u \in Nat /\ v \in Nat
    BY <1>1, Division
<1> HIDE DEF u, v
<1>5. s + x < Second * Era /\ Second * Era \in Nat
    BY <1>1, EraIsAhead
<1>6. Second * (u + v) = Second * u + Second * v /\ Second * u \in Nat /\ Second * v \in Nat
    BY <1>1, <1>4
<1>7. Second * (u + v) < Second * Era
    BY <1>1, <1>2, <1>3, <1>5, <1>6
<1>8. u + v < Era
    BY <1>1, <1>4, <1>7, Smaller
<1>9. u + v \in 0 .. Era - 1 /\ u + v = Era * 0 + (u + v) /\ 0 \in Int /\ u + v \in Int
    BY <1>1, <1>4, <1>8
<1>10. (u + v) % Era = u + v
    BY <1>1, <1>9, RestIs
<1> QED  BY <1>4, <1>10 DEF u, v

\* How far the clock is from the true time, in polls and with the error of whole seconds.
LEMMA LagIsBounded ==
    ASSUME Inv, TimeInv, InUse, NEW s \in Nat, EpochIsOf(s)
    PROVE  /\ Lag \in Int
           /\ Lag * Second < askedAt - s + 2 * Second
           /\ -Lag * Second < s - askedAt + 2 + Second
<1> DEFINE x == clock - askedAt + 1
           u == s \div Second
           v == x \div Second
           w == clock \div Second
<1>1. /\ Second \in Nat \ {0} /\ clock \in Nat /\ clock <= MaxClock
      /\ s \in Int /\ clock \in Int
      /\ MaxTimeout \in Nat /\ MaxClock \in Nat
    BY UnitAssumption, BoardAssumption, TimeAssumption DEF Inv, TypeOK
<1>2. askedAt \in Nat /\ s <= askedAt + MaxTimeout
    BY DEF TimeInv, InUse, EpochIsOf
<1>3. x \in Nat /\ x \in Int /\ (millis - lastUpdate) % Wrap = x
    BY PollsAreCounted
<1>4. s + x <= MaxClock + MaxTimeout + 1
    BY <1>1, <1>2, <1>3
<1>5. getEpochTime = u + v /\ u \in Nat /\ v \in Nat
    BY <1>3, <1>4, SecondsAddUp DEF getEpochTime, EpochIsOf
<1>6. PICK a \in 0 .. Second - 1 : s = Second * u + a
    BY <1>1, Division
<1>7. PICK b \in 0 .. Second - 1 : x = Second * v + b
    BY <1>1, <1>3, Division
<1>8. PICK c \in 0 .. Second - 1 : clock = Second * w + c
    BY <1>1, Division
<1>9. w \in Nat
    BY <1>1, Division
<1>10. Lag = w - (u + v)
    BY <1>5 DEF Lag, Seconds
<1>11. x = clock - askedAt + 1
    OBVIOUS
<1> HIDE DEF x, u, v, w
<1>12. /\ Lag \in Int
       /\ Lag * Second = Second * w - (Second * u + Second * v)
       /\ -Lag * Second = Second * u + Second * v - Second * w
       /\ Second * w \in Nat /\ Second * u \in Nat /\ Second * v \in Nat
    BY <1>1, <1>5, <1>9, <1>10
<1>13. Lag * Second < askedAt - s + 2 * Second
    BY <1>1, <1>2, <1>3, <1>6, <1>7, <1>8, <1>11, <1>12
<1>14. -Lag * Second < s - askedAt + 2 + Second
    BY <1>1, <1>2, <1>3, <1>6, <1>7, <1>8, <1>11, <1>12
<1> QED  BY <1>12, <1>13, <1>14

\* NTPClient.h:88 "time in seconds since Jan. 1, 1970": however answers are lost, doubled
\* or late, the clock is slow by no more than the longest delay of an answer and fast by
\* no more than the wait for one, but for the second that whole seconds lose each way.
THEOREM ClockIsClose == Spec => []EpochIsClose
<1>1. Spec => []IInv
    BY IInvHolds
<1>2. IInv => EpochIsClose
    <2> SUFFICES ASSUME IInv, InUse
                 PROVE  /\ Lag * Second < MaxDelay + 2 * Second
                        /\ -Lag * Second < MaxTimeout + 2 + Second
        BY DEF EpochIsClose
    <2>1. PICK s \in Nat : EpochIsOf(s)
        BY DEF IInv, TimeInv, InUse
    <2>2. /\ Lag \in Int /\ Lag * Second < askedAt - s + 2 * Second
          /\ -Lag * Second < s - askedAt + 2 + Second
        BY <2>1, LagIsBounded DEF IInv
    <2>3. /\ askedAt \in Nat /\ s <= askedAt + MaxTimeout /\ askedAt <= s + MaxDelay
          /\ Second \in Nat /\ Lag * Second \in Int /\ -Lag * Second \in Int
        BY <2>1, <2>2, UnitAssumption DEF IInv, TimeInv, InUse, EpochIsOf
    <2> QED  BY <2>2, <2>3, TimeAssumption
<1> QED  BY <1>1, <1>2, PTL

\* NTPClient.cpp:114 "Account for delay in reading the time": a clock set by the answer to
\* the very request is at most a second slow, for every delay.
THEOREM FreshClockIsExact == Spec => []FreshIsExact
<1>1. Spec => []IInv
    BY IInvHolds
<1>2. IInv => FreshIsExact
    <2> SUFFICES ASSUME IInv, InUse, source = "own"
                 PROVE  Lag <= 1
        BY DEF FreshIsExact
    <2>1. PICK s \in Nat : EpochIsOf(s)
        BY DEF IInv, TimeInv, InUse
    <2>2. Lag \in Int /\ Lag * Second < askedAt - s + 2 * Second
        BY <2>1, LagIsBounded DEF IInv
    <2>3. askedAt \in Nat /\ askedAt <= s /\ Second \in Nat \ {0}
        BY <2>1, UnitAssumption DEF IInv, TimeInv, InUse, EpochIsOf
    <2>4. Second * Lag < Second * 2
        BY <2>2, <2>3
    <2>5. Lag < 2
        BY <2>2, <2>3, <2>4, Smaller
    <2> QED  BY <2>2, <2>5
<1> QED  BY <1>1, <1>2, PTL
-----------------------------------------------------------------------------
\* The day on which a year begins, and with the year 0 as one of 365 days.
FirstDay(y) == IF y = 0 THEN -364 ELSE Ordinal(y, 1, 1)

\* The year of a day.
Within(x, z) == FirstDay(z) <= x /\ x < FirstDay(z + 1)

YearOf(x) == CHOOSE z \in Nat : Within(x, z)

\* What the first loop counts.
Counted == [n \in Nat |-> [y \in Nat |->
               LET x == FirstDay(y) + n
               IN  [year |-> YearOf(x), day |-> x - FirstDay(YearOf(x))]]]

\* A year further, one more of its multiples of k, or none.
LEMMA MultiplesAddUp ==
    ASSUME NEW y \in Nat \ {0}
    PROVE  /\ (y \div 4) - ((y - 1) \div 4) = IF y % 4 = 0 THEN 1 ELSE 0
           /\ (y \div 100) - ((y - 1) \div 100) = IF y % 100 = 0 THEN 1 ELSE 0
           /\ (y \div 400) - ((y - 1) \div 400) = IF y % 400 = 0 THEN 1 ELSE 0
OBVIOUS

\* Every year is as long as the code has it.
LEMMA YearsAddUp ==
    ASSUME NEW y \in Nat
    PROVE  /\ FirstDay(y) \in Int /\ YearDays(y) \in {365, 366}
           /\ FirstDay(y + 1) = FirstDay(y) + YearDays(y)
<1>1. CASE y = 0
    BY <1>1 DEF FirstDay, Ordinal, YearDays, LEAP_YEAR
<1>2. CASE y # 0
    <2> DEFINE p == y - 1
    <2>1. /\ p \in Nat /\ y \in Nat \ {0}
          /\ FirstDay(y) = 365 * p + (p \div 4) - (p \div 100) + (p \div 400) + 1
          /\ FirstDay(y + 1) = 365 * y + (y \div 4) - (y \div 100) + (y \div 400) + 1
        BY <1>2 DEF FirstDay, Ordinal
    <2>2. YearDays(y) = 365 + (((y \div 4) - (p \div 4)) - ((y \div 100) - (p \div 100)))
                            + ((y \div 400) - (p \div 400))
        <3>1. (y % 400 = 0 => y % 100 = 0) /\ (y % 100 = 0 => y % 4 = 0)
            OBVIOUS
        <3> QED  BY <1>2, <2>1, <3>1, MultiplesAddUp DEF YearDays, LEAP_YEAR
    <2> QED  BY <2>1, <2>2 DEF YearDays
<1> QED  BY <1>1, <1>2

LEMMA YearsRise ==
    ASSUME NEW y \in Nat, NEW d \in Nat
    PROVE  FirstDay(y) + d <= FirstDay(y + d)
<1> DEFINE Failing == {k \in Nat : ~(FirstDay(y) + k <= FirstDay(y + k))}
<1>1. SUFFICES ASSUME Failing # {}
               PROVE  FALSE
    OBVIOUS
<1>2. PICK k \in Failing : \A j \in Failing : k <= j
    BY <1>1, LeastExists
<1>3. k \in Nat \ {0} /\ k - 1 \notin Failing /\ FirstDay(y) \in Int
    BY <1>2, YearsAddUp
<1>4. /\ y + (k - 1) \in Nat /\ FirstDay(y) + (k - 1) <= FirstDay(y + (k - 1))
      /\ (y + (k - 1)) + 1 = y + k
    BY <1>3
<1>5. FirstDay(y + k) \in Int /\ FirstDay(y + (k - 1)) \in Int
      /\ FirstDay(y + k) >= FirstDay(y + (k - 1)) + 365
    BY <1>3, <1>4, YearsAddUp
<1>6. ~(FirstDay(y) + k <= FirstDay(y + k))
    BY <1>2
<1> HIDE DEF Failing
<1> QED  BY <1>3, <1>4, <1>5, <1>6

LEMMA YearIsUnique ==
    ASSUME NEW x \in Int, NEW z \in Nat, NEW w \in Nat, Within(x, z), Within(x, w)
    PROVE  z = w
<1>1. ASSUME NEW a \in Nat, NEW b \in Nat, Within(x, a), Within(x, b), a < b
      PROVE  FALSE
    <2>1. PICK d \in Nat : b = (a + 1) + d
        BY <1>1
    <2>2. FirstDay(a + 1) + d <= FirstDay(b)
        BY <2>1, YearsRise
    <2>3. FirstDay(a + 1) \in Int /\ FirstDay(b) \in Int
        BY YearsAddUp
    <2> QED  BY <1>1, <2>2, <2>3 DEF Within
<1> QED  BY <1>1

LEMMA YearExists ==
    ASSUME NEW x \in Int, FirstDay(0) <= x
    PROVE  YearOf(x) \in Nat /\ Within(x, YearOf(x))
<1> DEFINE Behind == {z \in Nat : x < FirstDay(z + 1)}
<1>1. Behind # {}
    <2>1. x + 364 \in Nat /\ FirstDay(0) = -364
        BY DEF FirstDay
    <2>2. PICK d \in Nat : d = x + 364
        BY <2>1
    <2>3. FirstDay(0) + (d + 1) <= FirstDay(0 + (d + 1)) /\ 0 + (d + 1) = d + 1
        BY YearsRise
    <2>4. FirstDay(d + 1) \in Int
        BY YearsAddUp
    <2>5. d \in Behind
        BY <2>1, <2>2, <2>3, <2>4
    <2> QED  BY <2>5
<1>2. PICK z \in Behind : \A w \in Behind : z <= w
    BY <1>1, LeastExists
<1>3. Within(x, z)
    <2>1. CASE z = 0
        BY <1>2, <2>1 DEF Within
    <2>2. CASE z # 0
        <3>1. z - 1 \in Nat /\ z - 1 \notin Behind /\ (z - 1) + 1 = z
            BY <1>2, <2>2
        <3>2. FirstDay(z) \in Int
            BY <1>2, YearsAddUp
        <3> QED  BY <1>2, <3>1, <3>2 DEF Within
    <2> QED  BY <2>1, <2>2
<1> QED  BY <1>2, <1>3 DEF YearOf

LEMMA CountedSatisfies ==
    ASSUME NEW n \in Nat, NEW y \in Nat
    PROVE  Counted[n][y] = IF n < YearDays(y) THEN [year |-> y, day |-> n]
                                              ELSE Counted[n - YearDays(y)][y + 1]
<1> DEFINE x == FirstDay(y) + n
<1>1. /\ FirstDay(y) \in Int /\ FirstDay(y + 1) = FirstDay(y) + YearDays(y)
      /\ YearDays(y) \in {365, 366} /\ x \in Int
    BY YearsAddUp
<1>2. Counted[n][y] = [year |-> YearOf(x), day |-> x - FirstDay(YearOf(x))]
    BY DEF Counted
<1>3. CASE n < YearDays(y)
    <2>1. Within(x, y)
        BY <1>1, <1>3 DEF Within
    <2>2. YearOf(x) = y
        <3>1. YearOf(x) \in Nat /\ Within(x, YearOf(x))
            BY <2>1 DEF YearOf
        <3> QED  BY <1>1, <2>1, <3>1, YearIsUnique
    <2>3. x - FirstDay(y) = n
        BY <1>1
    <2> QED  BY <1>2, <1>3, <2>2, <2>3
<1>4. CASE ~(n < YearDays(y))
    <2>1. /\ n - YearDays(y) \in Nat /\ y + 1 \in Nat
          /\ FirstDay(y + 1) + (n - YearDays(y)) = x
        BY <1>1, <1>4
    <2>2. Counted[n - YearDays(y)][y + 1] = [year |-> YearOf(x), day |-> x - FirstDay(YearOf(x))]
        BY <2>1 DEF Counted
    <2> QED  BY <1>2, <1>4, <2>2
<1> QED  BY <1>3, <1>4

LEMMA InYearSatisfies ==
    \A n \in Nat : \A y \in Nat :
        InYear[n][y] = IF n < YearDays(y) THEN [year |-> y, day |-> n]
                                          ELSE InYear[n - YearDays(y)][y + 1]
<1> DEFINE Step(f) == [n \in Nat |-> [y \in Nat |->
                          IF n < YearDays(y) THEN [year |-> y, day |-> n]
                                             ELSE f[n - YearDays(y)][y + 1]]]
<1>1. Counted = Step(Counted)
    <2>1. \A n \in Nat : Counted[n] = Step(Counted)[n]
        <3> SUFFICES ASSUME NEW n \in Nat
                     PROVE  Counted[n] = Step(Counted)[n]
            OBVIOUS
        <3>1. \A y \in Nat : Counted[n][y] = Step(Counted)[n][y]
            BY CountedSatisfies
        <3>2. /\ Counted[n] = [y \in Nat |-> Counted[n][y]]
              /\ Step(Counted)[n] = [y \in Nat |-> Step(Counted)[n][y]]
            BY DEF Counted
        <3> HIDE DEF Step
        <3> QED  BY <3>1, <3>2
    <2>2. /\ Counted = [n \in Nat |-> Counted[n]]
          /\ Step(Counted) = [n \in Nat |-> Step(Counted)[n]]
        BY DEF Counted
    <2> HIDE DEF Step
    <2> QED  BY <2>1, <2>2
<1>2. InYear = Step(InYear)
    BY <1>1 DEF InYear
<1>3. \A n \in Nat : \A y \in Nat : Step(InYear)[n][y] =
         IF n < YearDays(y) THEN [year |-> y, day |-> n] ELSE InYear[n - YearDays(y)][y + 1]
    OBVIOUS
<1> HIDE DEF Step
<1> QED  BY <1>2, <1>3

\* The first loop finds the year of the day and the days since the year began.
LEMMA InYearIs ==
    ASSUME NEW n \in Nat, NEW y \in Nat
    PROVE  InYear[n][y] = Counted[n][y]
<1> DEFINE Wrong == {k \in Nat : \E z \in Nat : InYear[k][z] # Counted[k][z]}
<1>1. SUFFICES ASSUME Wrong # {}
               PROVE  FALSE
    OBVIOUS
<1>2. PICK k \in Wrong : \A j \in Wrong : k <= j
    BY <1>1, LeastExists
<1>3. PICK z \in Nat : InYear[k][z] # Counted[k][z]
    BY <1>2
<1>4. k \in Nat /\ YearDays(z) \in {365, 366}
    BY <1>2, YearsAddUp
<1>5. /\ Counted[k][z] = IF k < YearDays(z) THEN [year |-> z, day |-> k]
                                          ELSE Counted[k - YearDays(z)][z + 1]
      /\ InYear[k][z] = IF k < YearDays(z) THEN [year |-> z, day |-> k]
                                          ELSE InYear[k - YearDays(z)][z + 1]
    BY <1>4, CountedSatisfies, InYearSatisfies
<1>6. k >= YearDays(z)
    BY <1>3, <1>4, <1>5
<1>7. k - YearDays(z) \in Nat /\ ~(k <= k - YearDays(z)) /\ z + 1 \in Nat
    BY <1>4, <1>6
<1>8. InYear[k - YearDays(z)][z + 1] = Counted[k - YearDays(z)][z + 1]
    BY <1>2, <1>7
<1>9. ~(k < YearDays(z))
    BY <1>4, <1>6
<1> QED  BY <1>3, <1>5, <1>8, <1>9
-----------------------------------------------------------------------------
\* The months of a year are as long as the code has them.
LEMMA MonthsAddUp ==
    ASSUME NEW y \in Nat \ {0}, NEW m \in 1 .. 12
    PROVE  /\ FirstOf(y, m) \in Int /\ MonthDays(y, m) \in 28 .. 31
           /\ FirstOf(y, m + 1) = FirstOf(y, m) + MonthDays(y, m)
<1> DEFINE first == Ordinal(y, 1, 1)
           leap  == (y % 4 = 0 /\ y % 100 # 0) \/ y % 400 = 0
<1>1. first \in Int /\ FirstOf(y, 13) = first + YearDays(y)
    BY YearsAddUp DEF FirstDay, FirstOf
<1>2. (y % 400 = 0 => y % 100 = 0) /\ (y % 100 = 0 => y % 4 = 0)
    OBVIOUS
<1>3. leap <=> LEAP_YEAR(y)
    BY <1>2 DEF LEAP_YEAR
<1>4. FirstOf(y, m) = first + ((367 * m - 362) \div 12)
                            + (IF m <= 2 THEN 0 ELSE IF LEAP_YEAR(y) THEN -1 ELSE -2)
    <2>1. /\ (y - 1) \div 4 \in Int /\ (y - 1) \div 100 \in Int /\ (y - 1) \div 400 \in Int
          /\ (367 * m - 362) \div 12 \in Int
        OBVIOUS
    <2> QED  BY <1>3, <2>1 DEF FirstOf, Ordinal
<1>5. m < 12 => FirstOf(y, m + 1) = first + ((367 * (m + 1) - 362) \div 12)
                            + (IF m + 1 <= 2 THEN 0 ELSE IF LEAP_YEAR(y) THEN -1 ELSE -2)
    <2>1. /\ (y - 1) \div 4 \in Int /\ (y - 1) \div 100 \in Int /\ (y - 1) \div 400 \in Int
          /\ (367 * (m + 1) - 362) \div 12 \in Int
        OBVIOUS
    <2> QED  BY <1>3, <2>1 DEF FirstOf, Ordinal
<1> HIDE DEF first, leap
<1>6. CASE m = 1
    BY <1>1, <1>4, <1>5, <1>6 DEF MonthDays, monthDays
<1>7. CASE m = 2
    BY <1>1, <1>4, <1>5, <1>7 DEF MonthDays, monthDays
<1>8. CASE m \in 3 .. 11
    BY <1>1, <1>4, <1>5, <1>8 DEF MonthDays, monthDays
<1>9. CASE m = 12
    BY <1>1, <1>4, <1>9 DEF MonthDays, monthDays, YearDays
<1> QED  BY <1>6, <1>7, <1>8, <1>9

\* The days left at the first of a month, of the nth day of the year.
LeftIn(y, n, m) == n - (FirstOf(y, m) - FirstOf(y, 1))

LEMMA LeftCounts ==
    ASSUME NEW y \in Nat \ {0}, NEW n \in Nat
    PROVE  /\ LeftIn(y, n, 1) = n
           /\ \A m \in 1 .. 13 : LeftIn(y, n, m) \in Int
           /\ \A m \in 2 .. 13 : LeftIn(y, n, m) = LeftIn(y, n, m - 1) - MonthDays(y, m - 1)
<1>1. \A m \in 1 .. 12 : /\ FirstOf(y, m) \in Int /\ MonthDays(y, m) \in Int
                         /\ FirstOf(y, m + 1) = FirstOf(y, m) + MonthDays(y, m)
    BY MonthsAddUp
<1>2. LeftIn(y, n, 1) = n
    BY <1>1 DEF LeftIn
<1>3. ASSUME NEW m \in 2 .. 13
      PROVE  LeftIn(y, n, m) \in Int /\ LeftIn(y, n, m) = LeftIn(y, n, m - 1) - MonthDays(y, m - 1)
    <2>1. m - 1 \in 1 .. 12 /\ (m - 1) + 1 = m /\ 1 \in 1 .. 12
        OBVIOUS
    <2>2. /\ FirstOf(y, m - 1) \in Int /\ MonthDays(y, m - 1) \in Int /\ FirstOf(y, 1) \in Int
          /\ FirstOf(y, m) = FirstOf(y, m - 1) + MonthDays(y, m - 1)
        BY <1>1, <2>1
    <2> QED  BY <2>2 DEF LeftIn
<1> QED  BY <1>2, <1>3

Left(y, n) == [m \in 1 .. 13 |-> LeftIn(y, n, m)]

\* left of InMonth, the only function that its equation has.
LeftStep(y, n, f) == [m \in 1 .. 13 |-> IF m = 1 THEN n ELSE f[m - 1] - MonthDays(y, m - 1)]

LEMMA LeftIs ==
    ASSUME NEW y \in Nat \ {0}, NEW n \in Nat, NEW f, f = LeftStep(y, n, f)
    PROVE  \A m \in 1 .. 13 : f[m] = LeftIn(y, n, m)
<1> DEFINE Wrong == {m \in 1 .. 13 : f[m] # LeftIn(y, n, m)}
<1>1. SUFFICES ASSUME Wrong # {}
               PROVE  FALSE
    OBVIOUS
<1>2. Wrong \in SUBSET Nat
    OBVIOUS
<1>3. PICK m \in Wrong : \A j \in Wrong : m <= j
    BY <1>1, <1>2, LeastExists
<1>4. m \in 1 .. 13 /\ f[m] # LeftIn(y, n, m)
    BY <1>3
<1>5. f[m] = IF m = 1 THEN n ELSE f[m - 1] - MonthDays(y, m - 1)
    BY <1>4 DEF LeftStep
<1>6. m # 1
    BY <1>4, <1>5, LeftCounts
<1>7. m - 1 \in 1 .. 13 /\ m \in 2 .. 13 /\ ~(m <= m - 1)
    BY <1>4, <1>6
<1>8. f[m - 1] = LeftIn(y, n, m - 1)
    BY <1>3, <1>7
<1>9. LeftIn(y, n, m) = LeftIn(y, n, m - 1) - MonthDays(y, m - 1)
    BY <1>7, LeftCounts
<1> QED  BY <1>4, <1>5, <1>6, <1>8, <1>9

LEMMA LeftIsLeft ==
    ASSUME NEW y \in Nat \ {0}, NEW n \in Nat
    PROVE  Left(y, n) = LeftStep(y, n, Left(y, n))
<1>1. \A m \in 1 .. 13 : LeftIn(y, n, m)
                         = IF m = 1 THEN n ELSE Left(y, n)[m - 1] - MonthDays(y, m - 1)
    <2> SUFFICES ASSUME NEW m \in 1 .. 13
                 PROVE  LeftIn(y, n, m)
                        = IF m = 1 THEN n ELSE Left(y, n)[m - 1] - MonthDays(y, m - 1)
        OBVIOUS
    <2>1. CASE m = 1
        BY <2>1, LeftCounts
    <2>2. CASE m # 1
        <3>1. m \in 2 .. 13 /\ m - 1 \in 1 .. 13
            BY <2>2
        <3>2. Left(y, n)[m - 1] = LeftIn(y, n, m - 1)
            BY <3>1 DEF Left
        <3>3. LeftIn(y, n, m) = LeftIn(y, n, m - 1) - MonthDays(y, m - 1)
            BY <3>1, LeftCounts
        <3> QED  BY <2>2, <3>2, <3>3
    <2> QED  BY <2>1, <2>2
<1> QED  BY <1>1 DEF Left, LeftStep

\* The second loop finds the month of the day, and the days since the month began.
LEMMA InMonthIs ==
    ASSUME NEW y \in Nat \ {0}, NEW n \in Nat, n < YearDays(y)
    PROVE  /\ InMonth(y, n).month \in 1 .. 12
           /\ InMonth(y, n).day \in 0 .. MonthDays(y, InMonth(y, n).month) - 1
           /\ InMonth(y, n).day = LeftIn(y, n, InMonth(y, n).month)
<1> DEFINE left == CHOOSE f : f = LeftStep(y, n, f)
           Here(m) == m = 13 \/ left[m] < MonthDays(y, m)
           Days == {m \in 1 .. 13 : Here(m)}
           month == CHOOSE m \in 1 .. 13 : Here(m) /\ \A k \in 1 .. m - 1 : ~Here(k)
<1>1. InMonth(y, n) = [month |-> month, day |-> left[month]]
    BY DEF InMonth, LeftStep
<1>2. \A m \in 1 .. 13 : left[m] = LeftIn(y, n, m)
    <2>1. left = LeftStep(y, n, left)
        BY LeftIsLeft
    <2> HIDE DEF left
    <2> QED  BY <2>1, LeftIs
<1> HIDE DEF left
<1>3. \E m \in 1 .. 13 : Here(m) /\ \A k \in 1 .. m - 1 : ~Here(k)
    <2>1. 13 \in Days /\ Days \in SUBSET Nat
        OBVIOUS
    <2>2. PICK m \in Days : \A j \in Days : m <= j
        BY <2>1, LeastExists
    <2>3. m \in 1 .. 13 /\ Here(m)
        BY <2>2
    <2>4. \A k \in 1 .. m - 1 : k \in 1 .. 13 /\ ~(m <= k)
        BY <2>3
    <2>5. \A k \in 1 .. m - 1 : ~Here(k)
        BY <2>2, <2>4
    <2> QED  BY <2>3, <2>5
<1>4. month \in 1 .. 13 /\ Here(month) /\ \A k \in 1 .. month - 1 : ~Here(k)
    BY <1>3
<1> HIDE DEF month
<1>5. month # 13
    <2>1. SUFFICES ASSUME month = 13
                   PROVE  FALSE
        OBVIOUS
    <2>2. ~Here(12)
        BY <1>4, <2>1
    <2>3. ~(LeftIn(y, n, 12) < MonthDays(y, 12))
        BY <1>2, <2>2
    <2>4. /\ FirstOf(y, 12) \in Int /\ MonthDays(y, 12) \in Int /\ FirstOf(y, 1) \in Int
          /\ FirstOf(y, 13) = FirstOf(y, 12) + MonthDays(y, 12)
        BY MonthsAddUp
    <2>5. FirstOf(y, 13) = FirstOf(y, 1) + YearDays(y) /\ YearDays(y) \in Int
        BY YearsAddUp DEF FirstOf, FirstDay
    <2> QED  BY <2>3, <2>4, <2>5 DEF LeftIn
<1>6. month \in 1 .. 12 /\ left[month] < MonthDays(y, month) /\ left[month] = LeftIn(y, n, month)
    BY <1>2, <1>4, <1>5
<1>7. LeftIn(y, n, month) >= 0
    <2>1. CASE month = 1
        BY <2>1, LeftCounts
    <2>2. CASE month # 1
        <3>1. month - 1 \in 1 .. month - 1 /\ month - 1 \in 1 .. 12 /\ month \in 2 .. 13
            BY <1>6, <2>2
        <3>2. ~(left[month - 1] < MonthDays(y, month - 1)) /\ left[month - 1] = LeftIn(y, n, month - 1)
            BY <1>2, <1>4, <3>1
        <3>3. month - 1 \in 1 .. 13
            BY <3>1
        <3>4. LeftIn(y, n, month - 1) \in Int
            BY <3>3, LeftCounts
        <3>5. MonthDays(y, month - 1) \in Int
            BY <3>1, MonthsAddUp
        <3>6. LeftIn(y, n, month) = LeftIn(y, n, month - 1) - MonthDays(y, month - 1)
            BY <3>1, LeftCounts
        <3> QED  BY <3>2, <3>4, <3>5, <3>6
    <2> QED  BY <2>1, <2>2
<1>8. LeftIn(y, n, month) \in Int
    BY <1>4, LeftCounts
<1>9. MonthDays(y, month) \in Int
    BY <1>6, MonthsAddUp
<1> QED  BY <1>1, <1>6, <1>7, <1>8, <1>9

\* From 1970 on, getFormattedDate counts off the date of the day.
LEMMA DateIs ==
    ASSUME NEW time \in Nat
    PROVE  LET month == CountedOff(time).month
               date  == getFormattedDate(time)
           IN /\ month \in 1 .. 12
              /\ Ordinal(date.year, month, date.day) = Ordinal(1970, 1, 1) + time \div Day
              /\ date.day \in 1 .. DaysOf(date.year, month)
<1> DEFINE n == time \div Day
           x == FirstDay(1970) + n
           z == YearOf(x)
           rest == x - FirstDay(z)
           in == InMonth(z, rest)
           date == getFormattedDate(time)
<1>1. n \in Nat
    BY DayAssumption, Division
<1>2. FirstDay(1970) = Ordinal(1970, 1, 1) /\ FirstDay(0) = -364 /\ FirstDay(1970) = 719163
    BY DEF FirstDay, Ordinal
<1> HIDE DEF n
<1>3. x \in Int /\ FirstDay(0) <= x /\ 719163 <= x
    BY <1>1, <1>2
<1> HIDE DEF x
<1>4. z \in Nat /\ Within(x, z)
    BY <1>3, YearExists
<1> HIDE DEF z
<1>5. /\ FirstDay(z) \in Int /\ FirstDay(z + 1) = FirstDay(z) + YearDays(z)
      /\ YearDays(z) \in {365, 366}
    BY <1>4, YearsAddUp
<1>6. z # 0
    BY <1>2, <1>3, <1>4, <1>5 DEF Within
<1>7. rest \in Nat /\ rest < YearDays(z) /\ x = FirstDay(z) + rest
    BY <1>3, <1>4, <1>5 DEF Within
<1>8. InYear[n][1970] = [year |-> z, day |-> rest]
    BY <1>1, InYearIs DEF Counted, x, z
<1>9. /\ CountedOff(time) = [year |-> z, month |-> in.month, day |-> in.day + 1]
      /\ date.year = z /\ date.day = in.day + 1
    <2>1. CountedOff(time) = [year |-> z, month |-> in.month, day |-> in.day + 1]
        BY <1>8 DEF CountedOff, n
    <2> QED  BY <2>1 DEF getFormattedDate
<1> HIDE DEF rest
<1>10. /\ in.month \in 1 .. 12 /\ in.day \in 0 .. MonthDays(z, in.month) - 1
       /\ in.day = LeftIn(z, rest, in.month)
    BY <1>4, <1>6, <1>7, InMonthIs
<1> DEFINE m == in.month
           d == in.day
<1> HIDE DEF in
<1>11. /\ FirstOf(z, m) \in Int /\ FirstOf(z, 1) \in Int /\ MonthDays(z, m) \in Int
       /\ FirstOf(z, m + 1) = FirstOf(z, m) + MonthDays(z, m)
    BY <1>4, <1>6, <1>10, MonthsAddUp
<1>12. /\ FirstOf(z, 1) = FirstDay(z)
       /\ FirstOf(z, m) = Ordinal(z, m, 1)
    BY <1>4, <1>6, <1>10 DEF FirstOf, FirstDay
<1>13. Ordinal(z, m, d + 1) = Ordinal(z, m, 1) + d
    <2>1. /\ (z - 1) \div 4 \in Int /\ (z - 1) \div 100 \in Int /\ (z - 1) \div 400 \in Int
          /\ (367 * m - 362) \div 12 \in Int /\ d \in Int /\ z \in Int
        BY <1>4, <1>10, <1>11
    <2> QED  BY <2>1 DEF Ordinal
<1>14. Ordinal(z, m, d + 1) = x
    BY <1>3, <1>5, <1>7, <1>10, <1>11, <1>12, <1>13 DEF LeftIn
<1>15. d + 1 \in 1 .. DaysOf(z, m)
    BY <1>10, <1>11 DEF DaysOf
<1>16. x = Ordinal(1970, 1, 1) + time \div Day
    BY <1>2 DEF x, n
<1>17. date.year = z /\ date.day = d + 1 /\ CountedOff(time).month = m
    BY <1>9
<1> HIDE DEF date, m, d
<1> QED  BY <1>10, <1>14, <1>15, <1>16, <1>17 DEF date, m

\* NTPClient.cpp:174-192: the year, the month and the day that the loops count off are
\* the calendar's, for every offset and every time, and that year and day are printed.
\* Nothing is said of the text of the month (see DateIsCounted).
THEOREM CalendarIsCounted == Spec => []DateIsCounted
<1>1. Spec => []IInv
    BY IInvHolds
<1>2. IInv => DateIsCounted
    <2> SUFFICES ASSUME IInv, NEW offset \in Offsets
                 PROVE  LET time  == offset + getEpochTime
                            month == CountedOff(time).month
                            date  == getFormattedDate(time)
                        IN /\ month \in 1 .. 12
                           /\ Ordinal(date.year, month, date.day)
                                 = Ordinal(1970, 1, 1) + time \div Day
                           /\ date.day \in 1 .. DaysOf(date.year, month)
        BY DEF DateIsCounted
    <2>1. offset \in Nat
        BY DayAssumption
    <2>2. getEpochTime \in Nat
        <3>1. millisAt(clock) \in Int /\ lastUpdate \in Int /\ currentEpoc \in Int
            BY MillisIsRest, BoardAssumption DEF IInv, Inv, TypeOK
        <3>2. (millisAt(clock) - lastUpdate) % Wrap \in Int
            BY <3>1, Division, BoardAssumption
        <3>3. ((millisAt(clock) - lastUpdate) % Wrap) \div Second \in Int
            BY <3>2, Division, UnitAssumption
        <3>4. Era \in Nat \ {0}
            BY UnitAssumption
        <3> QED  BY <3>1, <3>3, <3>4, Division DEF getEpochTime, millis
    <2>3. offset + getEpochTime \in Nat
        BY <2>1, <2>2
    <2> QED  BY <2>3, DateIs
<1> QED  BY <1>1, <1>2, PTL
-----------------------------------------------------------------------------
Words == 0 .. Wrap - 1

\* millis(), so many milliseconds after it was now: it rolls over once or not at all.
After(now, elapsed) == IF now + elapsed < Wrap THEN now + elapsed
                                                ELSE now + elapsed - Wrap

\* What millis() shows, less than a roll-over apart.
LEMMA MillisRollsOver ==
    ASSUME NEW time \in Nat, time >= StartTime, NEW elapsed \in Words
    PROVE  /\ millisAt(time) \in Words
           /\ millisAt(time + elapsed) = After(millisAt(time), elapsed)
<1> DEFINE later == time + elapsed
           r == millisAt(time)
           s == millisAt(later)
<1>1. /\ Wrap \in Nat \ {0} /\ StartTime \in Nat /\ elapsed \in Nat /\ elapsed < Wrap
      /\ later \in Nat /\ later >= StartTime
    BY BoardAssumption DEF Words
<1> HIDE DEF later
<1>2. PICK p \in Int : r \in Words /\ time - StartTime = Wrap * p + r
    BY MillisIsRest DEF Words
<1>3. PICK q \in Int : s \in Words /\ later - StartTime = Wrap * q + s
    <2>1. later \in Int
        BY <1>1
    <2> QED  BY <2>1, MillisIsRest DEF Words
<1> HIDE DEF r, s
<1>4. Wrap * p \in Int /\ Wrap * q \in Int /\ Wrap * p + r + elapsed = Wrap * q + s
    BY <1>1, <1>2, <1>3 DEF Words, later
<1>5. CASE r + elapsed < Wrap
    <2>1. /\ p \in Int /\ q \in Int /\ r + elapsed \in 0 .. Wrap - 1
          /\ Wrap * p + (r + elapsed) = Wrap * q + s
        BY <1>1, <1>2, <1>3, <1>4, <1>5 DEF Words
    <2>2. r + elapsed = s
        BY <1>1, <1>3, <2>1, RestIsUnique DEF Words
    <2> QED  BY <1>2, <1>5, <2>2 DEF After, later, r, s
<1>6. CASE r + elapsed >= Wrap
    <2>1. r + elapsed - Wrap \in 0 .. Wrap - 1 /\ p + 1 \in Int /\ q \in Int
        BY <1>1, <1>2, <1>6 DEF Words
    <2>2. Wrap * (p + 1) + (r + elapsed - Wrap) = Wrap * q + s
        BY <1>1, <1>2, <1>3, <1>4 DEF Words
    <2>3. r + elapsed - Wrap = s
        BY <1>1, <1>3, <2>1, <2>2, RestIsUnique DEF Words
    <2> QED  BY <1>1, <1>2, <1>6, <2>3 DEF After, Words, later, r, s
<1> QED  BY <1>1, <1>2, <1>5, <1>6 DEF Words, r

\* The time since start is exact, or a millisecond short when millis() rolled over.
LEMMA SinceIsClose ==
    ASSUME NEW start \in Words, NEW elapsed \in Words
    PROVE  LET diff == Since(start, After(start, elapsed))
           IN /\ diff \in Words
              /\ diff = elapsed \/ (elapsed > 0 /\ diff = elapsed - 1)
BY BoardAssumption DEF Words, Since, After

\* lwmqtt reads as a signed word how much time is left: that is above 0 exactly while
\* the time since start is below the timeout, and for 2^31 milliseconds after.
LEMMA SignIsRight ==
    ASSUME NEW start \in Words, NEW now \in Words, NEW span \in 0 .. Half - 1,
           Since(start, now) \in Words,
           Since(start, now) <= span + Half
    PROVE  timer_get(start, span, now) > 0 <=> Since(start, now) < span
<1> USE BoardAssumption, HalfAssumption
<1> DEFINE diff == Since(start, now)
<1>1. CASE diff > span
    <2>1. Wrap - (diff - span) \in Half .. Wrap - 1
        BY <1>1 DEF Words
    <2>2. timer_get(start, span, now) < 0
        BY <1>1, <2>1 DEF timer_get, AsInt
    <2> QED  BY <1>1, <2>2 DEF timer_get, AsInt, Words
<1>2. CASE diff <= span
    <2>1. timer_get(start, span, now) = span - diff
        BY <1>2 DEF timer_get, AsInt, Words
    <2> QED  BY <1>2, <2>1 DEF Words
<1> QED  BY <1>1, <1>2 DEF Words

\* So no timer runs out early, nor more than a millisecond late.
LEMMA TimerIsKeptAt ==
    ASSUME clock \in Nat, clock >= StartTime
    PROVE  TimerIsKept
<1> USE BoardAssumption, HalfAssumption
<1> SUFFICES ASSUME NEW time \in StartTime .. clock, NEW span \in 0 .. Half - 1,
                    clock - time <= span + Half
             PROVE  LET elapsed == clock - time
                        rest    == timer_get(millisAt(time), span, millis)
                    IN /\ elapsed < span => rest > 0
                       /\ elapsed > span => rest <= 0
    BY DEF TimerIsKept
<1> DEFINE elapsed == clock - time
           start   == millisAt(time)
           now     == millis
<1>1. time \in Nat /\ time >= StartTime /\ elapsed \in Words /\ clock = time + elapsed
    BY DEF Words
<1>2. start \in Words /\ now = After(start, elapsed)
    BY <1>1, MillisRollsOver DEF millis
<1> HIDE DEF elapsed, start, now
<1>3. now \in Words
    BY <1>1, <1>2 DEF After, Words
<1>4. Since(start, now) \in Words /\ (Since(start, now) = elapsed
                                      \/ (elapsed > 0 /\ Since(start, now) = elapsed - 1))
    BY <1>1, <1>2, SinceIsClose
<1>5. elapsed <= span + Half
    BY DEF elapsed
<1>6. timer_get(start, span, now) > 0 <=> Since(start, now) < span
    BY <1>2, <1>3, <1>4, <1>5, <1>1, SignIsRight DEF Words
<1>7. timer_get(start, span, now) \in Int
    BY <1>2, <1>3, <1>4 DEF timer_get, AsInt, Words
<1>8. /\ elapsed < span => timer_get(start, span, now) > 0
      /\ elapsed > span => timer_get(start, span, now) <= 0
    BY <1>1, <1>4, <1>6, <1>7 DEF Words
<1> QED  BY <1>8 DEF elapsed, start, now

\* MQTTClient.cpp:30: no timer runs out early, none runs out more than a millisecond
\* late, however long the board has been running.
THEOREM TimersAreKept == Spec => []TimerIsKept
<1>1. Spec => []IInv
    BY IInvHolds
<1>2. IInv => TimerIsKept
    BY TimerIsKeptAt, BoardAssumption, TimeAssumption DEF IInv, Inv, TypeOK
<1> QED  BY <1>1, <1>2, PTL
=============================================================================

------------------------------- MODULE NtpClient -------------------------------
(***************************************************************************)
(* NTPClient (lib/NTPClient-master/NTPClient.cpp).  forceUpdate() asks the *)
(* time server over UDP and polls the socket every 10 ms; getEpochTime()   *)
(* adds to the last answer what millis() counted since.  Requests and      *)
(* answers are lost, doubled and late, and nothing ties an answer to its   *)
(* request: one that comes after its request timed out and the next was    *)
(* sent is taken for the answer to that.                                   *)
(*                                                                         *)
(* Time is counted in polls of 10 ms.  millis() wraps at Wrap polls,       *)
(* seconds at Era (2^32).  The time offset is 0, packets are whole.        *)
(***************************************************************************)
EXTENDS Board, Sequences

CONSTANTS
    Second,         \* polls in a second: 100
    Era, SEVENZYYEARS,
    MaxTimeout,     \* 100 in the code
    ByteMax,        \* the largest value of timeout
    updateInterval, \* _updateInterval, in polls
    MaxDelay,       \* polls after which an answer no longer arrives
    MaxClock,       \* bound of the true time, in polls since 1970
    MaxRequests     \* bound on requests

ASSUME UnitAssumption == /\ Second \in Nat \ {0} /\ Era \in Nat
                         /\ SEVENZYYEARS \in Nat /\ SEVENZYYEARS < Era
                         /\ ByteMax \in Nat

\* The era (until 2106) ends neither for the true time nor for a clock that is fast by
\* the wait for an answer.
ASSUME TimeAssumption == /\ MaxTimeout \in Nat /\ MaxTimeout < ByteMax
                         /\ MaxTimeout + 2 < Wrap
                         /\ updateInterval \in Nat /\ MaxDelay \in Nat
                         /\ MaxClock \in Nat /\ StartTime <= MaxClock
                         /\ MaxClock + MaxTimeout + 1 < Second * Era
                         /\ MaxRequests \in Nat

VARIABLES
    asked,       \* requests on their way to the server: when they were sent
    answers,     \* answers on their way to the client
    udp,         \* packets in the socket, the oldest first
    udpSetup, lastUpdate, currentEpoc,  \* _udpSetup, _lastUpdate, _currentEpoc
    pc,          \* "idle" or "poll" (in forceUpdate)
    timeout,
    requests,    \* requests sent
    \* for checking only
    source,      \* of the time in use: the answer to the request ("own"), to an
                 \* earlier one ("late"), or "none"
    askedAt,     \* when that request was sent
    sentAt       \* when the last request was sent

network == <<asked, answers, requests>>
client  == <<udpSetup, lastUpdate, currentEpoc>>
control == <<pc, timeout>>
answer  == <<source, askedAt>>
ghost   == <<answer, sentAt>>
vars    == <<clock, network, udp, client, control, ghost>>

Never   == -1
Seconds == clock \div Second

\* An answer: the server's seconds since 1900 and what isValid says of the packet;
\* for checking, when it was asked for.
Answer(t, ok) == [stamp |-> (Seconds + SEVENZYYEARS) % Era, valid |-> ok, asked |-> t]

Init == /\ clock = StartTime
        /\ asked = {} /\ answers = {} /\ udp = <<>>
        /\ udpSetup = FALSE /\ lastUpdate = 0 /\ currentEpoc = 0
        /\ pc = "idle" /\ timeout = 0 /\ requests = 0
        /\ source = "none" /\ askedAt = Never /\ sentAt = Never
-----------------------------------------------------------------------------
\* The network.
Alive(t) == clock < t + MaxDelay

Pass == /\ clock' = clock + 1
        /\ asked' = {t \in asked : Alive(t)}
        /\ answers' = {a \in answers : Alive(a.asked)}

Tick == /\ pc = "idle" /\ clock < MaxClock
        /\ Pass
        /\ UNCHANGED <<requests, udp, client, control, answer, sentAt>>

ServerAnswer(t, ok) == /\ asked' = asked \ {t}
                       /\ answers' = answers \cup {Answer(t, ok)}
                       /\ UNCHANGED <<clock, requests, udp, client, control, ghost>>

\* An answer may come a second time; one for a closed socket is dropped.
Deliver(a) == /\ Len(udp) < MaxRequests
              /\ answers' \in {answers, answers \ {a}}
              /\ udp' = IF udpSetup THEN Append(udp, a) ELSE udp
              /\ UNCHANGED <<clock, asked, requests, client, control, ghost>>
-----------------------------------------------------------------------------
\* Fault: packets that came late stay in the socket.
Flush_None == UNCHANGED udp

Flush == udp' = <<>>

\* forceUpdate, up to the first delay.
Request == /\ pc = "idle" /\ requests < MaxRequests
           /\ clock + MaxTimeout + 2 <= MaxClock
           /\ requests' = requests + 1
           /\ Flush
           /\ asked' = asked \cup {clock}
           /\ sentAt' = clock
           /\ pc' = "poll" /\ timeout' = 0
           /\ UNCHANGED <<clock, answers, lastUpdate, currentEpoc, answer>>

UpdateDue == (millis - lastUpdate) % Wrap >= updateInterval \/ lastUpdate = 0

Update == UpdateDue /\ udpSetup' = TRUE /\ Request

ForceUpdate == udpSetup /\ Request /\ UNCHANGED udpSetup

\* Fault: a limit the byte does not reach.
TimedOut_Byte == timeout > ByteMax

TimedOut == timeout > MaxTimeout

Received == udp # <<>> /\ Head(udp).valid

Read == udp' = IF udp = <<>> THEN udp ELSE Tail(udp)

\* Each delay(10) and what follows.  A packet that comes with the last poll is read
\* and given up.
Poll == /\ pc = "poll" /\ ~Received /\ ~TimedOut
        /\ Pass /\ Read
        /\ timeout' = (timeout + 1) % (ByteMax + 1)
        /\ UNCHANGED <<requests, client, pc, answer, sentAt>>

GiveUp == /\ pc = "poll" /\ TimedOut
          /\ Pass /\ Read
          /\ pc' = "idle" /\ timeout' = 0
          /\ UNCHANGED <<requests, client, answer, sentAt>>

\* Faults: the time is that of the answer's arrival; the difference does not wrap.
Compensated_Not(n) == millisAt(clock + 1)
Compensated_NoWrap(n) == millisAt(clock + 1) - (n + 1)

\* millis() - 10 * (timeout + 1), after n polls.
Compensated(n) == (millisAt(clock + 1) - (n + 1)) % Wrap

Accept == /\ pc = "poll" /\ Received /\ ~TimedOut
          /\ Pass /\ Read
          /\ lastUpdate' = Compensated(timeout + 1)
          /\ currentEpoc' = (Head(udp).stamp - SEVENZYYEARS) % Era
          /\ source' = IF Head(udp).asked = sentAt THEN "own" ELSE "late"
          /\ askedAt' = sentAt
          /\ pc' = "idle" /\ timeout' = 0
          /\ UNCHANGED <<requests, udpSetup, sentAt>>

SetEpochTime(s) == /\ pc = "idle"
                   /\ currentEpoc' = s
                   /\ source' = "none" /\ askedAt' = Never
                   /\ UNCHANGED <<clock, network, udp, udpSetup, lastUpdate, control, sentAt>>

End == /\ pc = "idle" /\ udpSetup
       /\ udpSetup' = FALSE /\ udp' = <<>>
       /\ UNCHANGED <<clock, network, lastUpdate, currentEpoc, control, ghost>>

getEpochTime == (currentEpoc + ((millis - lastUpdate) % Wrap) \div Second) % Era

Network == \/ Tick
           \/ \E t \in asked : \E ok \in BOOLEAN : ServerAnswer(t, ok)
           \/ \E a \in answers : Deliver(a)

Client == Update \/ ForceUpdate \/ Poll \/ GiveUp \/ Accept \/ End

Next == Network \/ Client \/ SetEpochTime(StartTime \div Second)

Spec == Init /\ [][Next]_vars
-----------------------------------------------------------------------------
AnswerType == [stamp : 0 .. Era - 1, valid : BOOLEAN, asked : Nat]

TypeOK == /\ clock \in StartTime .. MaxClock
          /\ asked \subseteq Nat /\ answers \subseteq AnswerType /\ udp \in Seq(AnswerType)
          /\ udpSetup \in BOOLEAN /\ lastUpdate \in 0 .. Wrap - 1 /\ currentEpoc \in 0 .. Era - 1
          /\ pc \in {"idle", "poll"} /\ timeout \in 0 .. MaxTimeout + 1
          /\ requests \in 0 .. MaxRequests
          /\ source \in {"none", "own", "late"}
          /\ askedAt \in Nat \cup {Never}
          /\ sentAt \in Nat \cup {Never}

\* The time holds from an answer until millis() has wrapped since.
InUse == source # "none" /\ clock - askedAt + 1 < Wrap

Lag  == Seconds - getEpochTime

\* NTPClient.h:88 "time in seconds since Jan. 1, 1970": whatever was lost, doubled or
\* late, the clock is not slower than the longest delay of an answer explains, and
\* not faster than the wait for one; a second each way is lost to whole seconds.
EpochIsClose == InUse => /\ Lag * Second < MaxDelay + 2 * Second
                         /\ -Lag * Second < MaxTimeout + 2 + Second

\* NTPClient.cpp:114 "Account for delay in reading the time": with the answer to the
\* request just made, the clock is at most a second slow, however long that took.
FreshIsExact == InUse /\ source = "own" => Lag <= 1

\* NTPClient.cpp:110 "timeout after 1000 ms": forceUpdate() returns after that many
\* polls and the two around them, although its counter is a byte.
ReturnsInTime == pc = "poll" => clock - sentAt <= MaxTimeout + 1
=============================================================================

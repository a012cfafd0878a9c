------------------------------- MODULE MqttTimer -------------------------------
(***************************************************************************)
(* The timers of MQTTClient (lib/MQTT/src/MQTTClient.cpp): a start and a   *)
(* timeout in milliseconds, compared with a millis() that starts again     *)
(* from 0 after 2^32 of them.  lwmqtt only asks whether time is left, and  *)
(* MqttClient takes what it is told for a flag that goes up some time      *)
(* after the timer was set and stays up.                                   *)
(***************************************************************************)
EXTENDS Board

CONSTANT Half  \* INT32_MAX + 1; Wrap is UINT32_MAX + 1

ASSUME HalfAssumption == Half \in Nat /\ Wrap = 2 * Half

AsInt(w) == IF w < Half THEN w ELSE w - Wrap

\* The time since start, without a thought of the roll-over, and as it is.
Since_NoRollOver(start, now) == IF now < start THEN start - now ELSE now - start

Since(start, now) == IF now < start THEN (Wrap - 1 - start) + now ELSE now - start

\* lwmqtt_arduino_timer_get, for a timer set at start.
timer_get(start, timeout, now) ==
    LET diff == Since(start, now)
    IN IF diff > timeout THEN AsInt(Wrap - (diff - timeout)) ELSE AsInt(timeout - diff)

\* MQTTClient.cpp:30 "account for roll-overs": a timer set at whatever time does not
\* run out before its timeout and runs out a millisecond after it at the latest, also
\* when millis() rolls over in between and the difference is one short.  It stays so
\* for 2^31 milliseconds; then it has time left again.
TimerIsKept ==
    \A time \in StartTime .. clock, timeout \in 0 .. Half - 1 :
        LET elapsed == clock - time
            rest    == timer_get(millisAt(time), timeout, millis)
        IN elapsed <= timeout + Half => /\ elapsed < timeout => rest > 0
                                        /\ elapsed > timeout => rest <= 0
=============================================================================

------------------------------ MODULE MqttCalls ------------------------------
(***************************************************************************)
(* What MQTTClient promises of its calls publish, subscribe and            *)
(* unsubscribe.  The broker performs a call at most once, and only after   *)
(* it was made; a call that returned true was performed, except that       *)
(* publish with QoS 0 only says that the message was written.  A call that *)
(* returned false, or whose caller was reset, may still be performed.      *)
(***************************************************************************)
EXTENDS Naturals

CONSTANTS Calls, Kinds

VARIABLES kind,      \* what each call asks for
          fate,      \* "none" (not made), "pending", "true", "false" or "lost"
          performed  \* how often the broker has performed it

callVars == <<kind, fate, performed>>

Init == /\ kind = [c \in Calls |-> "none"]
        /\ fate = [c \in Calls |-> "none"]
        /\ performed = [c \in Calls |-> 0]

\* One task makes the calls, one after the other.
Begin(c, k) == /\ \A d \in Calls : fate[d] # "pending"
               /\ fate[c] = "none"
               /\ kind' = [kind EXCEPT ![c] = k]
               /\ \E r \in {"pending", "false"} \cup (IF k = "qos0" THEN {"true"} ELSE {}) :
                     fate' = [fate EXCEPT ![c] = r]
               /\ UNCHANGED performed

Perform(c) == /\ fate[c] # "none" /\ performed[c] = 0
              /\ performed' = [performed EXCEPT ![c] = 1]
              /\ UNCHANGED <<kind, fate>>

Return(c, r) == /\ fate[c] = "pending"
                /\ r = "true" => performed[c] = 1
                /\ fate' = [fate EXCEPT ![c] = r]
                /\ UNCHANGED <<kind, performed>>

Next == \E c \in Calls : \/ \E k \in Kinds : Begin(c, k)
                         \/ Perform(c)
                         \/ \E r \in {"true", "false", "lost"} : Return(c, r)

Spec == Init /\ [][Next]_callVars
=============================================================================

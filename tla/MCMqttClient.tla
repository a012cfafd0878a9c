----------------------------- MODULE MCMqttClient -----------------------------
(* Small instances of MqttClient. *)
EXTENDS MqttClient

\* One message of each QoS above 0.
MCQos  == <<2, 1>>
MCQos2 == <<2>>
MCNone == <<>>
=============================================================================

---------------------------- MODULE MCLwmqttCodec ----------------------------
(* A byte counts to three and has a top bit. *)
EXTENDS LwmqttCodec

MCStrings  == {<<>>, <<1>>, <<2, 1>>}
MCLong(n)  == [k \in 1 .. n |-> 1]

\* One is longer than two bytes can say.
MCTopics   == MCStrings \cup {MCLong(7), MCLong(37)}

\* With a topic of one byte, the longest packet that is written and one more.
MCPayloads == MCStrings \cup {<<0, 5, 1>>, MCLong(76), MCLong(77)}

MCPublish == [kind : {"PUBLISH"}, topic : MCTopics, payload : MCPayloads, qos : 0 .. 2,
              id : {1, 20}, retained : BOOLEAN]

\* One is as long as two bytes cannot say: it is cut to nothing.
MCNames == MCStrings \cup {MCLong(36)}

MCConnect == [kind : {"CONNECT"}, clientId : MCStrings, keepAlive : {10},
              will : {<<>>} \cup (MCStrings \X MCStrings),
              username : MCNames, password : MCNames]

MCFilters == {<<s>> : s \in MCTopics} \cup (MCStrings \X MCStrings)

MCOthers == [kind : {"SUBSCRIBE", "UNSUBSCRIBE"}, filters : MCFilters, id : {1, 20}, qos : {1}]
            \cup [kind : {"PUBACK", "PUBREC", "PUBREL", "PUBCOMP"}, id : {1, 20}]
            \cup [kind : {"PINGREQ"}]

\* Whatever a broker may send, and lists of granted values.
MCHeaders == {Header("PUBLISH", q, FALSE) : q \in {0, 1, 3}}
             \cup {Header(t, 0, FALSE) : t \in {"CONNACK", "SUBACK", "PUBACK"}}

MCBytesOf(hs, n, bs) == [kind : {"bytes"}, header : hs, rest : [1 .. n -> bs]]

MCSubacks == MCBytesOf({Header("SUBACK", 0, FALSE)}, 6, {0, 1, 4})

MCBytes == MCBytesOf(MCHeaders, 5, Byte)
           \cup MCBytesOf({Header(t, 0, FALSE) : t \in {"PINGRESP", "CONNECT"}}, 4, {0, 1, 4})
           \cup MCSubacks

MCInputs == MCPublish \cup MCConnect \cup MCOthers \cup MCBytes
=============================================================================

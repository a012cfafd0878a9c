------------------------------ MODULE MCNtpClient ------------------------------
(* Small instances of NtpClient and of the date it prints.  MQTTClient runs on the *)
(* same board: its timers read the same millis().                                  *)
EXTENDS NtpDate, MqttTimer

\* A second stands for a day: a few days before the end of every month of a year,
\* and of February and December around leap years and a century.
MCOffsets ==
    {Ordinal(d[1], d[2], 24) - Ordinal(1970, 1, 1) :
        d \in ({1971} \X (1 .. 12)) \cup ({1972, 2000, 2100} \X {2, 12})}
=============================================================================

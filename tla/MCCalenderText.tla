---------------------------- MODULE MCCalenderText ----------------------------
(* Small instances of CalenderText. *)
EXTENDS CalenderText

\* Every meeting between the instants 1 and 3, the one of length 0 included.
MCMeetings == {m \in [start_timestamp : 1 .. 3, end_timestamp : 1 .. 3] :
                  m.start_timestamp <= m.end_timestamp}

\* Every list of at most two of them, in any order, overlapping or not.
MCLists == UNION {[1 .. n -> MCMeetings] : n \in 0 .. 2}

\* The lists a room with three back-to-back meetings can give; an instant lies
\* inside the second.
MCDay == <<[start_timestamp |-> 1, end_timestamp |-> 2],
           [start_timestamp |-> 2, end_timestamp |-> 4],
           [start_timestamp |-> 4, end_timestamp |-> 5]>>
MCDayLists == {SubSeq(MCDay, a, b) : a \in 1 .. 3, b \in 1 .. 3}

MCLists3 == MCLists \cup MCDayLists
=============================================================================

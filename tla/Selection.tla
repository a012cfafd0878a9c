------------------------------ MODULE Selection ------------------------------
(***************************************************************************)
(* Which meetings of a list are the previous, the current and the next     *)
(* one at an instant.  calender_text (src/src/epaper.cpp) walks the vector *)
(* v_Meetings three times to find them; this module says, without a loop,  *)
(* what each walk is after.  Indices are those of the C++ vector, from 0.  *)
(***************************************************************************)
EXTENDS Integers, Sequences

None == -1                       \* the code's "no such meeting"

Indices(v) == 0 .. Len(v) - 1
At(v, n)   == v[n + 1]

Running(v, t)  == {n \in Indices(v) : /\ At(v, n).start_timestamp <= t
                                      /\ At(v, n).end_timestamp >= t}
Upcoming(v, t) == {n \in Indices(v) : At(v, n).start_timestamp >= t}
Ended(v, t)    == {n \in Indices(v) : At(v, n).end_timestamp <= t}

IsFirst(n, S) == IF S = {} THEN n = None ELSE n \in S /\ \A m \in S : n <= m
IsLast(n, S)  == IF S = {} THEN n = None ELSE n \in S /\ \A m \in S : m <= n

\* What a page p of calender_text shows of the list v: the meetings of one
\* instant.  On an empty list it prints from v[0]; while no meeting is over it
\* prints no listed meeting as the previous one.
Faithful(v, p) ==
    /\ IF v = <<>>
         THEN p.now = 0 /\ p.next = 0
         ELSE /\ IsFirst(p.now, Running(v, p.timestamp))
              /\ IsFirst(p.next, Upcoming(v, p.timestamp))
    /\ IF Ended(v, p.timestamp) = {}
         THEN p.past \notin Indices(v)
         ELSE IsLast(p.past, Ended(v, p.timestamp))

\* An index the code would print from although the vector has no such element.
Wild(v, n) == n # None /\ n \notin Indices(v)
=============================================================================

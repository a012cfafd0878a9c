--------------------------- MODULE MCMeetingDisplay ---------------------------
(* Small instances of MeetingDisplay: days of four instants, the clock starts *)
(* on day 1.                                                                  *)
EXTENDS MeetingDisplay

MCItem(s, e) == [start |-> s, end |-> e, complete |-> TRUE]

\* Two back-to-back meetings on day 1, one right after midnight on day 2.
MCSchedules ==
    [d \in 0 .. 2 |->
        CASE d = 0 -> {<<>>}
          [] d = 1 -> {<<>>, <<MCItem(5, 6)>>, <<MCItem(5, 6), MCItem(6, 7)>>}
          [] d = 2 -> {<<MCItem(8, 9)>>}]

\* On each day meetings may be booked and cancelled; on the day the clock ends in,
\* every schedule has one that is over by then.
MCChangingSchedules ==
    [d \in 0 .. 2 |->
        CASE d = 0 -> {<<>>}
          [] d = 1 -> {<<>>, <<MCItem(5, 6), MCItem(6, 7)>>}
          [] d = 2 -> {<<MCItem(8, 9)>>, <<MCItem(8, 9), MCItem(9, 10)>>}]

\* The first; the room may also have an item without a subject.
MCPrivateSchedules ==
    [MCSchedules EXCEPT ![1] = @ \cup {<<MCItem(5, 6), [MCItem(6, 7) EXCEPT !.complete = FALSE]>>}]

MCOrganizerItem(p, s, l) == [isPrivate |-> p, start |-> s, location |-> l, subject |-> "text"]

\* Organizers whose calendar has the meeting where the room's has it.
MCHonest == {<<MCOrganizerItem(FALSE, "same", "same")>>,
             <<MCOrganizerItem(TRUE, "same", "other")>>,
             <<MCOrganizerItem(FALSE, "other", "other"), MCOrganizerItem(FALSE, "same", "same")>>}

\* The meeting found twice, not at all, or with a field missing.
MCAnyAnswer == MCHonest \cup
            {<<MCOrganizerItem(FALSE, "same", "same"), MCOrganizerItem(FALSE, "other", "same")>>,
             <<MCOrganizerItem(FALSE, "same", "other")>>,
             <<MCOrganizerItem(TRUE, "other", "same")>>,
             <<[MCOrganizerItem(FALSE, "same", "null") EXCEPT !.subject = "null"]>>,
             <<[MCOrganizerItem(FALSE, "same", "same") EXCEPT !.subject = "null"]>>,
             <<>>}
=============================================================================

-------------------------------- MODULE Panel --------------------------------
(***************************************************************************)
(* What one call of calender_text promises its caller: every page it draws *)
(* is a picture of ONE instant, and the device survives the call whenever  *)
(* some listed meeting is over.  The promise is as strong as the code      *)
(* keeps: while no listed meeting is over the call may end in a reset, and *)
(* what it then prints as the previous meeting is no listed meeting.       *)
(***************************************************************************)
EXTENDS Selection

CONSTANTS Lists, MaxClock

VARIABLES v_Meetings,    \* the list, filled before the call, constant in it
          clock,         \* what time(nullptr) returns
          called,        \* its value when the call began
          pages,         \* the pages sent to the display, oldest first
          status         \* "drawing", "done" or "reset"

panelVars == <<v_Meetings, clock, called, pages, status>>

\* No page yet to come shows an earlier instant than this one.
LastTime == IF pages = <<>> THEN called ELSE pages[Len(pages)].timestamp

Init == /\ v_Meetings \in Lists
        /\ clock \in 0 .. MaxClock
        /\ called = clock
        /\ pages = <<>>
        /\ status = "drawing"

Advance == /\ clock' \in clock .. MaxClock
           /\ UNCHANGED <<v_Meetings, called, pages, status>>

DrawPage == /\ status = "drawing"
            /\ Len(pages') = Len(pages) + 1
            /\ \A n \in DOMAIN pages : pages'[n] = pages[n]
            /\ LET p == pages'[Len(pages) + 1]
               IN  /\ p.timestamp \in LastTime .. clock
                   /\ Faithful(v_Meetings, p)
            /\ status' \in {"drawing", "done"}
            /\ UNCHANGED <<v_Meetings, clock, called>>

Reset == /\ status = "drawing"
         /\ \E t \in LastTime .. clock : Ended(v_Meetings, t) = {}
         /\ status' = "reset"
         /\ UNCHANGED <<v_Meetings, clock, called, pages>>

Next == Advance \/ DrawPage \/ Reset

Spec == Init /\ [][Next]_panelVars
=============================================================================

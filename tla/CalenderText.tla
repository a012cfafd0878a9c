----------------------------- MODULE CalenderText -----------------------------
(***************************************************************************)
(* calender_text (src/src/epaper.cpp), one step per loop iteration.  Each  *)
(* page of the display reads the clock once and then walks v_Meetings      *)
(* three times with size_t counters: forwards for the current and the next *)
(* meeting, backwards for the previous one.  The backward walk counts an   *)
(* unsigned k down under the condition k >= 0, so it ends only at a match: *)
(* with no meeting over it leaves the vector at the front.  What it reads  *)
(* there is undefined; the model lets each such read give any value, or    *)
(* reset the chip, which it must once Mapped elements' worth of readable   *)
(* memory below the vector is used up.                                     *)
(*                                                                         *)
(* Time passes between any two steps.  The list does not change during the *)
(* call: getJson runs in the same task, before it.                         *)
(***************************************************************************)
EXTENDS Selection

CONSTANTS Lists,      \* the lists the call may be given
          MaxClock,   \* bound of the clock
          Pages,      \* pages of the display's paged buffer
          SIZE_MAX,   \* largest size_t
          Mapped      \* elements' worth of readable memory below the vector

Meeting == [start_timestamp : Nat, end_timestamp : Nat]

ASSUME ListsAssumption == \A v \in Lists : v \in Seq(Meeting)

\* No vector fills half of the address space.
ASSUME WidthAssumption ==
    /\ SIZE_MAX \in Nat /\ Mapped \in Nat
    /\ \A v \in Lists : 2 * (Len(v) + Mapped) < SIZE_MAX

ASSUME BoundsAssumption == MaxClock \in Nat /\ Pages \in Nat \ {0}

VARIABLES v_Meetings, clock, called, pages,
          pc,                                      \* "page", "now", "next", "past", "draw", "done", "reset"
          timestamp,                               \* the page's one reading of the clock
          i, j, k,                                 \* the counters of the three walks
          meeting_now, meeting_next, meeting_past

walkVars == <<timestamp, i, j, k, meeting_now, meeting_next, meeting_past>>
vars == <<v_Meetings, clock, called, pages, pc, walkVars>>

Size == Len(v_Meetings)
\* Faults: a signed counter; a decrement that stops at 0.
Wrap_Signed(n)     == n - 1
Wrap_Saturating(n) == IF n = 0 THEN 0 ELSE n - 1
Wrap(n)  == IF n = 0 THEN SIZE_MAX ELSE n - 1             \* n - 1 in size_t
AsInt(n) == IF 2 * n < SIZE_MAX THEN n ELSE n - SIZE_MAX - 1  \* size_t to int

Init == /\ v_Meetings \in Lists
        /\ clock \in 0 .. MaxClock
        /\ called = clock
        /\ pages = <<>>
        /\ pc = "page"
        /\ timestamp = 0 /\ i = 0 /\ j = 0 /\ k = 0
        /\ meeting_now = 0 /\ meeting_next = 0 /\ meeting_past = None

Tick == /\ clock' \in clock + 1 .. MaxClock
        /\ UNCHANGED <<v_Meetings, called, pages, pc, walkVars>>

BeginPage == /\ pc = "page"
             /\ timestamp' = clock
             /\ i' = 0 /\ j' = 0 /\ k' = Wrap(Size)
             /\ meeting_now' = 0 /\ meeting_next' = 0 /\ meeting_past' = None
             /\ pc' = "now"
             /\ UNCHANGED <<v_Meetings, clock, called, pages>>

\* Fault: a meeting counts as current once it has started.
IsRunning_NoEnd(n) == At(v_Meetings, n).start_timestamp <= timestamp

\* // errechnet den aktuellen Termin
IsRunning(n) == /\ At(v_Meetings, n).start_timestamp <= timestamp
                /\ At(v_Meetings, n).end_timestamp >= timestamp

\* Fault: no break at the first match.
WalkNow_NoBreak ==
    /\ pc = "now"
    /\ IF i < Size
         THEN meeting_now' = (IF IsRunning(i) THEN i ELSE None) /\ pc' = "now" /\ i' = i + 1
         ELSE pc' = "next" /\ UNCHANGED <<meeting_now, i>>
    /\ UNCHANGED <<v_Meetings, clock, called, pages, timestamp, j, k,
                   meeting_next, meeting_past>>

WalkNow == /\ pc = "now"
           /\ IF i < Size
                THEN IF IsRunning(i)
                       THEN meeting_now' = i /\ pc' = "next" /\ i' = i
                       ELSE meeting_now' = None /\ pc' = "now" /\ i' = i + 1
                ELSE pc' = "next" /\ UNCHANGED <<meeting_now, i>>
           /\ UNCHANGED <<v_Meetings, clock, called, pages, timestamp, j, k,
                          meeting_next, meeting_past>>

\* // errechnet den naechsten Termin
WalkNext == /\ pc = "next"
            /\ IF j < Size
                 THEN IF At(v_Meetings, j).start_timestamp >= timestamp
                        THEN meeting_next' = j /\ pc' = "past" /\ j' = j
                        ELSE meeting_next' = None /\ pc' = "next" /\ j' = j + 1
                 ELSE pc' = "past" /\ UNCHANGED <<meeting_next, j>>
            /\ UNCHANGED <<v_Meetings, clock, called, pages, timestamp, i, k,
                           meeting_now, meeting_past>>

\* // errechnet den letzten Termin
Match  == meeting_past' = AsInt(k) /\ pc' = "draw" /\ k' = k
NoMatch == meeting_past' = None /\ pc' = "past" /\ k' = Wrap(k)

WalkPast == /\ pc = "past"
            /\ k < Size
            /\ IF At(v_Meetings, k).end_timestamp <= timestamp THEN Match ELSE NoMatch
            /\ UNCHANGED <<v_Meetings, clock, called, pages, timestamp, i, j,
                           meeting_now, meeting_next>>

\* v_Meetings[k] before the first element: any value, while memory is mapped.
WalkPastWild == /\ pc = "past"
                /\ k >= Size
                /\ SIZE_MAX - k < Mapped
                /\ Match \/ NoMatch
                /\ UNCHANGED <<v_Meetings, clock, called, pages, timestamp, i, j,
                               meeting_now, meeting_next>>

Fault == /\ pc' = "reset"
         /\ UNCHANGED <<v_Meetings, clock, called, pages, walkVars>>

WalkPastFault == pc = "past" /\ k >= Size /\ Fault

\* Printing goes through v_Meetings[n] for each index that is not None.
PrintsWild == \E n \in {meeting_now, meeting_next, meeting_past} : Wild(v_Meetings, n)

\* Fault: the page is labelled with a second reading of the clock.
Draw_ReadsClock ==
    /\ pc = "draw"
    /\ pages' = Append(pages, [timestamp |-> clock, past |-> meeting_past,
                               now |-> meeting_now, next |-> meeting_next])
    /\ pc' = IF Len(pages) + 1 < Pages THEN "page" ELSE "done"
    /\ UNCHANGED <<v_Meetings, clock, called, walkVars>>

Draw == /\ pc = "draw"
        /\ pages' = Append(pages, [timestamp |-> timestamp, past |-> meeting_past,
                                   now |-> meeting_now, next |-> meeting_next])
        /\ pc' = IF Len(pages) + 1 < Pages THEN "page" ELSE "done"
        /\ UNCHANGED <<v_Meetings, clock, called, walkVars>>

DrawFault == pc = "draw" /\ PrintsWild /\ Fault

Step == \/ BeginPage \/ WalkNow \/ WalkNext
        \/ WalkPast \/ WalkPastWild \/ WalkPastFault
        \/ Draw \/ DrawFault

Next == Tick \/ Step

\* The task runs whenever it can; nothing makes the clock run.
Spec == Init /\ [][Next]_vars /\ WF_vars(Step)
-----------------------------------------------------------------------------
Page == [timestamp : 0 .. MaxClock, past : Int, now : Int, next : Int]

TypeOK ==
    /\ v_Meetings \in Lists
    /\ clock \in 0 .. MaxClock
    /\ called \in 0 .. MaxClock
    /\ pages \in Seq(Page)
    /\ pc \in {"page", "now", "next", "past", "draw", "done", "reset"}
    /\ timestamp \in 0 .. MaxClock
    /\ i \in 0 .. Size /\ j \in 0 .. Size /\ k \in 0 .. SIZE_MAX
    /\ meeting_now \in Int /\ meeting_next \in Int /\ meeting_past \in Int

\* What the caller is promised (module Panel): every drawn page shows the
\* first running, first upcoming and last ended meeting of one instant, and the
\* call resets the chip only if no listed meeting was over at some instant of
\* it.  The walks read timestamp, i, j and k of different iterations; this says
\* that together they give one consistent picture.
Promise == INSTANCE Panel WITH
             status <- IF pc \in {"done", "reset"} THEN pc ELSE "drawing"
PanelPromise == Promise!Spec

\* epaper.cpp:157-183 for the lists a room should have: sorted, no two meetings
\* at once.  A meeting in progress is the one printed as current, also when it
\* touches its neighbours, and no meeting is left out between the previous and
\* the next one printed.
Disjoint(v) == /\ \A n \in Indices(v) : At(v, n).start_timestamp < At(v, n).end_timestamp
               /\ \A m, n \in Indices(v) :
                     m < n => At(v, m).end_timestamp <= At(v, n).start_timestamp
InProgress(v, t) == {n \in Indices(v) : /\ At(v, n).start_timestamp < t
                                        /\ At(v, n).end_timestamp > t}
NothingSkipped ==
    Disjoint(v_Meetings) => \A n \in DOMAIN pages :
        LET p == pages[n]
        IN  /\ InProgress(v_Meetings, p.timestamp) \subseteq {p.now}
            /\ p.past \in Indices(v_Meetings) /\ p.next # None =>
                  (p.past + 1) .. (p.next - 1) \subseteq {p.now}

\* epaper.cpp:185 "errechnet den letzten Termin": the meeting printed as the
\* previous one is the last listed meeting that is over, or there is none.
PastIsLastEnded ==
    \A n \in DOMAIN pages :
        IsLast(pages[n].past, Ended(v_Meetings, pages[n].timestamp))

\* The backward walk's condition k >= 0 never fails, so nothing in the code
\* bounds it: the call comes to an end because a meeting matches or because
\* the memory below the vector ends.
CallEnds == <>(pc \in {"done", "reset"})

-----------------------------------------------------------------------------
\* The inductive invariant behind PanelPromise: what each walk has established
\* about the part of the list behind its counter, and how the page's instant
\* lies between the previous page's and the clock.
NowWalked == IF Size = 0 THEN meeting_now = 0
                         ELSE IsFirst(meeting_now, Running(v_Meetings, timestamp))
NextWalked == IF Size = 0 THEN meeting_next = 0
                          ELSE IsFirst(meeting_next, Upcoming(v_Meetings, timestamp))
PastWalked == IF Ended(v_Meetings, timestamp) = {}
                THEN meeting_past \notin Indices(v_Meetings)
                ELSE IsLast(meeting_past, Ended(v_Meetings, timestamp))

NowLoop == /\ meeting_now = IF i = 0 THEN 0 ELSE None
           /\ \A n \in Running(v_Meetings, timestamp) : i <= n
NextLoop == /\ meeting_next = IF j = 0 THEN 0 ELSE None
            /\ \A n \in Upcoming(v_Meetings, timestamp) : j <= n
PastLoop == /\ k < Size => \A n \in Ended(v_Meetings, timestamp) : n <= k
            /\ k >= Size => /\ Ended(v_Meetings, timestamp) = {}
                            /\ SIZE_MAX - k <= Mapped

Times == /\ called <= clock
         /\ Promise!LastTime <= clock
         /\ pc \in {"now", "next", "past", "draw"} =>
              /\ timestamp <= clock
              /\ Promise!LastTime <= timestamp

WalkInv == /\ Times
           /\ pc = "now" => NowLoop /\ j = 0 /\ meeting_next = 0 /\ k = Wrap(Size)
           /\ pc \in {"next", "past", "draw"} => NowWalked
           /\ pc = "next" => NextLoop /\ k = Wrap(Size)
           /\ pc \in {"past", "draw"} => NextWalked
           /\ pc = "past" => PastLoop
           /\ pc = "draw" => PastWalked

PagesFaithful == \A n \in DOMAIN pages : Faithful(v_Meetings, pages[n])
=============================================================================

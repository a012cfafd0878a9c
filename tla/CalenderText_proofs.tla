-------------------------- MODULE CalenderText_proofs --------------------------
(***************************************************************************)
(* Proofs about calender_text for every list, every display and every     *)
(* width of size_t.  TypeCorrect and WalksCorrect are inductive            *)
(* invariants; from them the call is shown to implement Panel.             *)
(***************************************************************************)
EXTENDS CalenderText, TLAPS

\* The facts about the list every step uses.
LEMMA ListFacts ==
  ASSUME v_Meetings \in Lists
  PROVE  /\ Size \in Nat
         /\ 2 * (Size + Mapped) < SIZE_MAX
         /\ SIZE_MAX \in Nat /\ Mapped \in Nat
         /\ Indices(v_Meetings) = 0 .. Size - 1
         /\ \A n \in Indices(v_Meetings) :
              /\ At(v_Meetings, n).start_timestamp \in Nat
              /\ At(v_Meetings, n).end_timestamp \in Nat
<1>1. v_Meetings \in Seq(Meeting)
  BY ListsAssumption
<1>2. Size \in Nat
  BY <1>1 DEF Size
<1>3. SIZE_MAX \in Nat /\ Mapped \in Nat /\ 2 * (Size + Mapped) < SIZE_MAX
  BY WidthAssumption DEF Size
<1>4. ASSUME NEW n \in Indices(v_Meetings)
      PROVE  At(v_Meetings, n) \in Meeting
  BY <1>1, <1>4 DEF Indices, At
<1>5. Indices(v_Meetings) = 0 .. Size - 1
  BY DEF Indices, Size
<1> QED
  BY <1>2, <1>3, <1>4, <1>5 DEF Meeting

\* Every variable of calender_text keeps its type; i, j and k stay counters of
\* the vector although k is decremented below 0.
THEOREM TypeCorrect == Spec => []TypeOK
<1>1. Init => TypeOK
  <2> SUFFICES ASSUME Init PROVE TypeOK
    OBVIOUS
  <2>1. Size \in Nat /\ SIZE_MAX \in Nat /\ MaxClock \in Nat
    BY ListFacts, BoundsAssumption DEF Init
  <2> QED
    BY <2>1 DEF Init, TypeOK, None, Page
<1>2. TypeOK /\ [Next]_vars => TypeOK'
  <2> SUFFICES ASSUME TypeOK, [Next]_vars PROVE TypeOK'
    OBVIOUS
  <2> USE DEF TypeOK
  <2>1. Size \in Nat /\ SIZE_MAX \in Nat /\ MaxClock \in Nat /\ Size < SIZE_MAX
    BY ListFacts, BoundsAssumption
  <2>2. Size' = Size
    BY DEF Next, Tick, Step, BeginPage, WalkNow, WalkNext, WalkPast, WalkPastWild,
           WalkPastFault, Draw, DrawFault, Fault, Size, vars
  <2>3. CASE Tick
    BY <2>1, <2>2, <2>3 DEF Tick, walkVars
  <2>4. CASE BeginPage
    BY <2>1, <2>2, <2>4 DEF BeginPage, Wrap, None
  <2>5. CASE WalkNow
    BY <2>1, <2>2, <2>5 DEF WalkNow, None
  <2>6. CASE WalkNext
    BY <2>1, <2>2, <2>6 DEF WalkNext, None
  <2>7. CASE WalkPast
    BY <2>1, <2>2, <2>7 DEF WalkPast, Match, NoMatch, AsInt, Wrap, None
  <2>8. CASE WalkPastWild
    BY <2>1, <2>2, <2>8 DEF WalkPastWild, Match, NoMatch, AsInt, Wrap, None
  <2>9. CASE WalkPastFault
    BY <2>1, <2>2, <2>9 DEF WalkPastFault, Fault, walkVars
  <2>10. CASE Draw
    <3>1. pages' \in Seq(Page)
      BY <2>10 DEF Draw, Page
    <3> QED
      BY <2>1, <2>2, <2>10, <3>1 DEF Draw, walkVars
  <2>11. CASE DrawFault
    BY <2>1, <2>2, <2>11 DEF DrawFault, Fault, walkVars
  <2>12. CASE UNCHANGED vars
    BY <2>1, <2>2, <2>12 DEF vars, walkVars
  <2> QED
    BY <2>3, <2>4, <2>5, <2>6, <2>7, <2>8, <2>9, <2>10, <2>11, <2>12 DEF Next, Step
<1> QED
  BY <1>1, <1>2, PTL DEF Spec

-----------------------------------------------------------------------------
\* Members of the three sets are indices; they are told apart by the two fields.
LEMMA SelectionFacts ==
  ASSUME v_Meetings \in Lists, NEW t \in Nat
  PROVE  /\ Running(v_Meetings, t) \subseteq 0 .. Size - 1
         /\ Upcoming(v_Meetings, t) \subseteq 0 .. Size - 1
         /\ Ended(v_Meetings, t) \subseteq 0 .. Size - 1
  BY ListFacts DEF Running, Upcoming, Ended

\* The invariant about time survives every step.
LEMMA TimesStep ==
  ASSUME TypeOK, TypeOK', Times, [Next]_vars
  PROVE  Times'
<1>a. Promise!LastTime \in Nat
  <2>1. pages \in Seq(Page) /\ called \in Nat /\ MaxClock \in Nat
    BY BoundsAssumption DEF TypeOK
  <2>2. CASE pages = <<>>
    BY <2>1, <2>2 DEF Promise!LastTime
  <2>3. CASE pages # <<>>
    <3>1. pages[Len(pages)] \in Page
      BY <2>1, <2>3
    <3> QED
      BY <2>1, <2>3, <3>1 DEF Promise!LastTime, Page
  <2> QED
    BY <2>2, <2>3
<1> USE DEF Times, TypeOK, Promise!LastTime
<1>0. clock \in Nat /\ called \in Nat /\ timestamp \in Nat /\ clock' \in Nat
  BY BoundsAssumption
<1>1. CASE Tick
  BY <1>a, <1>0, <1>1, BoundsAssumption DEF Tick, walkVars
<1>2. CASE BeginPage
  BY <1>a, <1>0, <1>2 DEF BeginPage
<1>3. CASE WalkNow \/ WalkNext \/ WalkPast \/ WalkPastWild
  BY <1>0, <1>3 DEF WalkNow, WalkNext, WalkPast, WalkPastWild, Match, NoMatch
<1>4. CASE WalkPastFault \/ DrawFault
  BY <1>0, <1>4 DEF WalkPastFault, DrawFault, Fault, walkVars
<1>5. CASE Draw
  <2> DEFINE p == [timestamp |-> timestamp, past |-> meeting_past,
                   now |-> meeting_now, next |-> meeting_next]
  <2>1. pages' = Append(pages, p) /\ pages \in Seq(Page) /\ p \in Page
    BY <1>5 DEF Draw, Page
  <2> HIDE DEF p, TypeOK, Times, Promise!LastTime
  <2>2. pages' # <<>> /\ pages'[Len(pages')] = p
    BY <2>1
  <2>3. Promise!LastTime' = timestamp
    BY <2>2 DEF Promise!LastTime, p
  <2>4. /\ pc' \in {"page", "done"} /\ UNCHANGED <<clock, called>>
        /\ timestamp <= clock /\ called <= clock
    BY <1>5 DEF Draw, Times
  <2> QED
    BY <1>0, <2>3, <2>4 DEF Times
<1>6. CASE UNCHANGED vars
  BY <1>0, <1>6 DEF vars, walkVars
<1> QED
  BY <1>1, <1>2, <1>3, <1>4, <1>5, <1>6 DEF Next, Step

\* The three walks of calender_text find what Selection says they are after,
\* whatever the list, and however often size_t wraps.
THEOREM WalksCorrect == Spec => []WalkInv
<1>1. Init => WalkInv
  <2> SUFFICES ASSUME Init PROVE WalkInv
    OBVIOUS
  <2> QED
    BY DEF Init, WalkInv, Times, Promise!LastTime
<1>2. TypeOK /\ TypeOK' /\ WalkInv /\ [Next]_vars => WalkInv'
  <2> SUFFICES ASSUME TypeOK, TypeOK', WalkInv, [Next]_vars PROVE WalkInv'
    OBVIOUS
  <2>1. Times'
    BY TimesStep DEF WalkInv
  <2>2. /\ Size \in Nat /\ SIZE_MAX \in Nat /\ Mapped \in Nat
        /\ 2 * (Size + Mapped) < SIZE_MAX
        /\ timestamp \in Nat
        /\ i \in 0 .. Size /\ j \in 0 .. Size /\ k \in 0 .. SIZE_MAX
        /\ Indices(v_Meetings) = 0 .. Size - 1
    BY ListFacts, BoundsAssumption DEF TypeOK
  <2>3. /\ Running(v_Meetings, timestamp) \subseteq 0 .. Size - 1
        /\ Upcoming(v_Meetings, timestamp) \subseteq 0 .. Size - 1
        /\ Ended(v_Meetings, timestamp) \subseteq 0 .. Size - 1
    BY <2>2, SelectionFacts DEF TypeOK
  <2>4. CASE Tick \/ WalkPastFault \/ DrawFault \/ UNCHANGED vars
    BY <2>1, <2>4 DEF WalkInv, NowLoop, NextLoop, PastLoop, NowWalked, NextWalked,
       PastWalked, Tick, WalkPastFault, DrawFault, Fault, vars, walkVars, Size
  <2>5. CASE BeginPage
    <3>1. /\ pc' = "now" /\ i' = 0 /\ j' = 0 /\ k' = Wrap(Size) /\ v_Meetings' = v_Meetings
          /\ meeting_now' = 0 /\ meeting_next' = 0
      BY <2>5 DEF BeginPage
    <3>2. Size' = Size
      BY <3>1 DEF Size
    <3>3. timestamp' \in Nat
      BY BoundsAssumption DEF TypeOK
    <3>4. \A n \in Running(v_Meetings', timestamp') : 0 <= n
      BY <3>1, <3>3, <2>2, SelectionFacts DEF TypeOK
    <3> QED
      BY <2>1, <3>1, <3>2, <3>4 DEF WalkInv, NowLoop, Wrap
  <2>6. CASE WalkNow
    <3>1. /\ pc = "now" /\ v_Meetings' = v_Meetings /\ timestamp' = timestamp
          /\ j' = j /\ k' = k /\ meeting_next' = meeting_next
          /\ NowLoop /\ j = 0 /\ meeting_next = 0 /\ k = Wrap(Size)
      BY <2>6 DEF WalkNow, WalkInv
    <3>2. Size' = Size /\ Wrap(Size)' = Wrap(Size)
      BY <3>1 DEF Size, Wrap
    <3>3. NextLoop'
      BY <3>1, <3>2, <2>3 DEF NextLoop
    <3>4. CASE i < Size /\ IsRunning(i)
      <4>1. i \in Running(v_Meetings, timestamp)
        BY <3>4, <2>2 DEF Running, IsRunning
      <4>2. meeting_now' = i /\ pc' = "next"
        BY <3>4, <2>6 DEF WalkNow
      <4>3. IsFirst(i, Running(v_Meetings, timestamp))
        BY <4>1, <3>1 DEF IsFirst, NowLoop
      <4>4. NowWalked'
        BY <4>2, <4>3, <3>1, <3>2, <3>4, <2>2 DEF NowWalked
      <4> QED
        BY <4>2, <4>4, <3>1, <3>2, <3>3, <2>1 DEF WalkInv
    <3>5. CASE i < Size /\ ~IsRunning(i)
      <4>1. i \notin Running(v_Meetings, timestamp)
        BY <3>5 DEF Running, IsRunning
      <4>2. meeting_now' = None /\ pc' = "now" /\ i' = i + 1
        BY <3>5, <2>6 DEF WalkNow
      <4>3. \A n \in Running(v_Meetings, timestamp) : i + 1 <= n
        BY <4>1, <3>1, <2>2, <2>3 DEF NowLoop
      <4>4. NowLoop'
        BY <4>2, <4>3, <3>1, <2>2 DEF NowLoop
      <4> QED
        BY <4>2, <4>4, <3>1, <3>2, <2>1 DEF WalkInv
    <3>6. CASE ~(i < Size)
      <4>1. i = Size /\ meeting_now' = meeting_now /\ pc' = "next"
        BY <3>6, <2>2, <2>6 DEF WalkNow
      <4>2. Running(v_Meetings, timestamp) = {}
        BY <4>1, <3>1, <2>2, <2>3 DEF NowLoop
      <4>3. meeting_now = IF Size = 0 THEN 0 ELSE None
        BY <4>1, <3>1 DEF NowLoop
      <4>4. NowWalked'
        BY <4>1, <4>2, <4>3, <3>1, <3>2 DEF NowWalked, IsFirst
      <4> QED
        BY <4>1, <4>4, <3>1, <3>2, <3>3, <2>1 DEF WalkInv
    <3> QED
      BY <3>4, <3>5, <3>6
  <2>7. CASE WalkNext
    <3>1. /\ pc = "next" /\ v_Meetings' = v_Meetings /\ timestamp' = timestamp
          /\ k' = k /\ meeting_now' = meeting_now
          /\ NextLoop /\ NowWalked /\ k = Wrap(Size)
      BY <2>7 DEF WalkNext, WalkInv
    <3>2. Size' = Size /\ Wrap(Size)' = Wrap(Size)
      BY <3>1 DEF Size, Wrap
    <3>3. NowWalked'
      BY <3>1, <3>2 DEF NowWalked
    <3>4. PastLoop'
      BY <3>1, <3>2, <2>2, <2>3 DEF PastLoop, Wrap
    <3>5. CASE j < Size /\ At(v_Meetings, j).start_timestamp >= timestamp
      <4>1. j \in Upcoming(v_Meetings, timestamp)
        BY <3>5, <2>2 DEF Upcoming
      <4>2. meeting_next' = j /\ pc' = "past"
        BY <3>5, <2>7 DEF WalkNext
      <4>3. NextWalked'
        BY <4>1, <4>2, <3>1, <3>2, <3>5, <2>2 DEF NextWalked, NextLoop, IsFirst
      <4> QED
        BY <4>2, <4>3, <3>1, <3>2, <3>3, <3>4, <2>1 DEF WalkInv
    <3>6. CASE j < Size /\ ~(At(v_Meetings, j).start_timestamp >= timestamp)
      <4>1. j \notin Upcoming(v_Meetings, timestamp)
        BY <3>6 DEF Upcoming
      <4>2. meeting_next' = None /\ pc' = "next" /\ j' = j + 1
        BY <3>6, <2>7 DEF WalkNext
      <4>3. \A n \in Upcoming(v_Meetings, timestamp) : j + 1 <= n
        BY <4>1, <3>1, <2>2, <2>3 DEF NextLoop
      <4>4. NextLoop'
        BY <4>2, <4>3, <3>1, <2>2 DEF NextLoop
      <4> QED
        BY <4>2, <4>4, <3>1, <3>2, <3>3, <2>1 DEF WalkInv
    <3>7. CASE ~(j < Size)
      <4>1. j = Size /\ meeting_next' = meeting_next /\ pc' = "past"
        BY <3>7, <2>2, <2>7 DEF WalkNext
      <4>2. Upcoming(v_Meetings, timestamp) = {}
        BY <4>1, <3>1, <2>2, <2>3 DEF NextLoop
      <4>3. meeting_next = IF Size = 0 THEN 0 ELSE None
        BY <4>1, <3>1 DEF NextLoop
      <4>4. NextWalked'
        BY <4>1, <4>2, <4>3, <3>1, <3>2 DEF NextWalked, IsFirst
      <4> QED
        BY <4>1, <4>4, <3>1, <3>2, <3>3, <3>4, <2>1 DEF WalkInv
    <3> QED
      BY <3>5, <3>6, <3>7
  <2>8. CASE WalkPast
    <3>1. /\ pc = "past" /\ v_Meetings' = v_Meetings /\ timestamp' = timestamp
          /\ meeting_now' = meeting_now /\ meeting_next' = meeting_next
          /\ PastLoop /\ NowWalked /\ NextWalked /\ k < Size
      BY <2>8 DEF WalkPast, WalkInv
    <3>2. Size' = Size /\ NowWalked' /\ NextWalked'
      BY <3>1 DEF Size, NowWalked, NextWalked
    <3>3. CASE At(v_Meetings, k).end_timestamp <= timestamp
      <4>1. k \in Ended(v_Meetings, timestamp)
        BY <3>1, <3>3, <2>2 DEF Ended
      <4>2. meeting_past' = k /\ pc' = "draw"
        BY <3>1, <3>3, <2>2, <2>8 DEF WalkPast, Match, AsInt
      <4>3. PastWalked'
        BY <4>1, <4>2, <3>1 DEF PastWalked, PastLoop, IsLast
      <4> QED
        BY <4>2, <4>3, <3>2, <2>1 DEF WalkInv
    <3>4. CASE ~(At(v_Meetings, k).end_timestamp <= timestamp)
      <4>1. k \notin Ended(v_Meetings, timestamp)
        BY <3>4 DEF Ended
      <4>2. meeting_past' = None /\ pc' = "past" /\ k' = Wrap(k)
        BY <3>4, <2>8 DEF WalkPast, NoMatch
      <4>3. PastLoop'
        BY <4>1, <4>2, <3>1, <3>2, <2>2, <2>3 DEF PastLoop, Wrap
      <4> QED
        BY <4>2, <4>3, <3>2, <2>1 DEF WalkInv
    <3> QED
      BY <3>3, <3>4
  <2>9. CASE WalkPastWild
    <3>1. /\ pc = "past" /\ v_Meetings' = v_Meetings /\ timestamp' = timestamp
          /\ meeting_now' = meeting_now /\ meeting_next' = meeting_next
          /\ PastLoop /\ NowWalked /\ NextWalked /\ k >= Size /\ SIZE_MAX - k < Mapped
      BY <2>9 DEF WalkPastWild, WalkInv
    <3>2. Size' = Size /\ NowWalked' /\ NextWalked'
      BY <3>1 DEF Size, NowWalked, NextWalked
    <3>3. Ended(v_Meetings, timestamp) = {}
      BY <3>1 DEF PastLoop
    <3>4. CASE Match
      <4>1. meeting_past' < 0
        BY <3>1, <3>4, <2>2 DEF Match, AsInt
      <4>2. PastWalked'
        BY <4>1, <3>1, <3>3, <2>2, TypeOK' DEF PastWalked, TypeOK
      <4> QED
        BY <4>2, <3>2, <3>4, <2>1 DEF WalkInv, Match
    <3>5. CASE NoMatch
      <4>1. k' = k - 1 /\ k' >= Size /\ SIZE_MAX - k' <= Mapped
        BY <3>1, <3>5, <2>2 DEF NoMatch, Wrap
      <4>2. PastLoop'
        BY <4>1, <3>1, <3>2, <3>3, <2>2 DEF PastLoop
      <4> QED
        BY <4>2, <3>2, <3>5, <2>1 DEF WalkInv, NoMatch
    <3> QED
      BY <3>4, <3>5, <2>9 DEF WalkPastWild
  <2>10. CASE Draw
    BY <2>1, <2>10 DEF WalkInv, Draw
  <2> QED
    BY <2>4, <2>5, <2>6, <2>7, <2>8, <2>9, <2>10 DEF Next, Step
<1> QED
  BY <1>1, <1>2, TypeCorrect, PTL DEF Spec
-----------------------------------------------------------------------------
\* A page drawn from finished walks is a faithful picture of its instant.
LEMMA DrawFaithful ==
  ASSUME TypeOK, WalkInv, pc = "draw"
  PROVE  Faithful(v_Meetings, [timestamp |-> timestamp, past |-> meeting_past,
                               now |-> meeting_now, next |-> meeting_next])
<1>1. NowWalked /\ NextWalked /\ PastWalked
  BY DEF WalkInv
<1>2. v_Meetings = <<>> <=> Size = 0
  BY ListFacts, ListsAssumption DEF TypeOK, Size
<1> QED
  BY <1>1, <1>2 DEF NowWalked, NextWalked, PastWalked, Faithful

\* A fault strikes only while no listed meeting is over.
LEMMA FaultFacts ==
  ASSUME TypeOK, WalkInv, WalkPastFault \/ DrawFault
  PROVE  pc \in {"past", "draw"} /\ Ended(v_Meetings, timestamp) = {}
<1>1. CASE WalkPastFault
  BY <1>1 DEF WalkPastFault, WalkInv, PastLoop
<1>2. CASE DrawFault
  <2>1. pc = "draw" /\ NowWalked /\ NextWalked /\ PastWalked
    BY <1>2 DEF DrawFault, WalkInv
  <2>2. timestamp \in Nat
    BY BoundsAssumption DEF TypeOK
  <2>3. /\ Running(v_Meetings, timestamp) \subseteq Indices(v_Meetings)
        /\ Upcoming(v_Meetings, timestamp) \subseteq Indices(v_Meetings)
        /\ Ended(v_Meetings, timestamp) \subseteq Indices(v_Meetings)
    BY DEF Running, Upcoming, Ended
  <2>4. CASE Size = 0
    BY <2>1, <2>2, <2>4, ListFacts, SelectionFacts DEF TypeOK
  <2>5. CASE Size # 0
    <3>1. ~Wild(v_Meetings, meeting_now) /\ ~Wild(v_Meetings, meeting_next)
      BY <2>1, <2>3, <2>5 DEF NowWalked, NextWalked, IsFirst, Wild
    <3>2. Wild(v_Meetings, meeting_past)
      BY <1>2, <3>1 DEF DrawFault, PrintsWild
    <3> QED
      BY <2>1, <2>3, <3>2 DEF PastWalked, IsLast, Wild
  <2> QED
    BY <2>1, <2>4, <2>5
<1> QED
  BY <1>1, <1>2

\* Panel's copy of Selection is Selection.
LEMMA SameSelection ==
  /\ \A v, p : Promise!Faithful(v, p) <=> Faithful(v, p)
  /\ \A v, t : Promise!Ended(v, t) = Ended(v, t)
  BY DEF Promise!Faithful, Promise!IsFirst, Promise!IsLast, Promise!Running,
     Promise!Upcoming, Promise!Ended, Promise!Indices, Promise!At, Promise!None,
     Faithful, IsFirst, IsLast, Running, Upcoming, Ended, Indices, At, None

\* calender_text keeps Panel's promise: one consistent instant on each page, and
\* no reset once a listed meeting is over.
THEOREM Implements == Spec => PanelPromise
<1>1. Init => Promise!Init
  BY DEF Init, Promise!Init
<1>2. TypeOK /\ TypeOK' /\ WalkInv /\ [Next]_vars => [Promise!Next]_(Promise!panelVars)
  <2> SUFFICES ASSUME TypeOK, TypeOK', WalkInv, [Next]_vars
               PROVE  Promise!Next \/ UNCHANGED Promise!panelVars
    OBVIOUS
  <2> USE DEF Promise!Next, Promise!panelVars
  <2>1. CASE Tick
    <3>1. clock' \in clock .. MaxClock
      BY <2>1, BoundsAssumption DEF Tick, TypeOK
    <3> QED
      BY <2>1, <3>1 DEF Tick, Promise!Advance, walkVars
  <2>2. CASE BeginPage
    BY <2>2 DEF BeginPage
  <2>3. CASE WalkNow \/ WalkNext \/ WalkPast \/ WalkPastWild
    BY <2>3 DEF WalkNow, WalkNext, WalkPast, WalkPastWild, Match, NoMatch
  <2>4. CASE WalkPastFault \/ DrawFault
    <3>1. pc \in {"past", "draw"} /\ Ended(v_Meetings, timestamp) = {}
      BY <2>4, FaultFacts
    <3>2. timestamp \in Promise!LastTime .. clock
      <4>1. Promise!LastTime <= timestamp /\ timestamp <= clock
        BY <3>1 DEF WalkInv, Times
      <4> QED
        BY <4>1, BoundsAssumption DEF TypeOK
    <3>3. Promise!Ended(v_Meetings, timestamp) = {}
      BY <3>1, SameSelection
    <3>4. pc' = "reset" /\ UNCHANGED <<v_Meetings, clock, called, pages>>
      BY <2>4 DEF WalkPastFault, DrawFault, Fault
    <3> QED
      BY <3>1, <3>2, <3>3, <3>4 DEF Promise!Reset
  <2>5. CASE Draw
    <3> DEFINE p == [timestamp |-> timestamp, past |-> meeting_past,
                     now |-> meeting_now, next |-> meeting_next]
    <3>1. pc = "draw" /\ pages' = Append(pages, p) /\ pages \in Seq(Page) /\ p \in Page
      BY <2>5 DEF Draw, Page, TypeOK
    <3>2. Promise!Faithful(v_Meetings, p)
      BY <3>1, DrawFaithful, SameSelection
    <3>3. timestamp \in Promise!LastTime .. clock
      <4>1. Promise!LastTime <= timestamp /\ timestamp <= clock
        BY <3>1 DEF WalkInv, Times
      <4> QED
        BY <4>1, BoundsAssumption DEF TypeOK
    <3>4. p.timestamp = timestamp
      OBVIOUS
    <3> HIDE DEF p
    <3>5. /\ Len(pages') = Len(pages) + 1
          /\ \A n \in DOMAIN pages : pages'[n] = pages[n]
          /\ pages'[Len(pages) + 1] = p
      BY <3>1
    <3>6. pc' \in {"page", "done"} /\ UNCHANGED <<v_Meetings, clock, called>>
      BY <2>5 DEF Draw
    <3> QED
      BY <3>1, <3>2, <3>3, <3>4, <3>5, <3>6 DEF Promise!DrawPage
  <2>6. CASE UNCHANGED vars
    BY <2>6 DEF vars
  <2> QED
    BY <2>1, <2>2, <2>3, <2>4, <2>5, <2>6 DEF Next, Step
<1> QED
  BY <1>1, <1>2, TypeCorrect, WalksCorrect, PTL DEF Spec, PanelPromise, Promise!Spec
-----------------------------------------------------------------------------
\* Every page of the display, not only the newest, is faithful to its instant.
THEOREM PagesAreFaithful == Spec => []PagesFaithful
<1>1. Init => PagesFaithful
  BY DEF Init, PagesFaithful
<1>2. TypeOK /\ WalkInv /\ PagesFaithful /\ [Next]_vars => PagesFaithful'
  <2> SUFFICES ASSUME TypeOK, WalkInv, PagesFaithful, [Next]_vars PROVE PagesFaithful'
    OBVIOUS
  <2>1. v_Meetings' = v_Meetings
    BY DEF Next, Tick, Step, BeginPage, WalkNow, WalkNext, WalkPast, WalkPastWild,
           WalkPastFault, Draw, DrawFault, Fault, vars
  <2>2. CASE Draw
    <3> DEFINE p == [timestamp |-> timestamp, past |-> meeting_past,
                     now |-> meeting_now, next |-> meeting_next]
    <3>1. pc = "draw" /\ pages' = Append(pages, p) /\ pages \in Seq(Page)
      BY <2>2 DEF Draw, TypeOK
    <3>2. Faithful(v_Meetings, p)
      BY <3>1, DrawFaithful
    <3> HIDE DEF p
    <3>3. \A n \in DOMAIN pages' :
            \/ n \in DOMAIN pages /\ pages'[n] = pages[n]
            \/ pages'[n] = p
      BY <3>1
    <3>4. \A n \in DOMAIN pages' : Faithful(v_Meetings, pages'[n])
      BY <3>2, <3>3 DEF PagesFaithful
    <3> QED
      BY <2>1, <3>4 DEF PagesFaithful
  <2>3. CASE UNCHANGED pages
    BY <2>1, <2>3 DEF PagesFaithful
  <2> QED
    BY <2>2, <2>3 DEF Next, Tick, Step, BeginPage, WalkNow, WalkNext, WalkPast,
       WalkPastWild, WalkPastFault, DrawFault, Fault, vars
<1> QED
  BY <1>1, <1>2, TypeCorrect, WalksCorrect, PTL DEF Spec

\* On a sorted list without overlaps the meeting in progress is the one printed
\* as current, and none is left out between the previous and the next one.
THEOREM NoMeetingSkipped == Spec => []NothingSkipped
<1>1. TypeOK /\ PagesFaithful => NothingSkipped
  <2> SUFFICES ASSUME TypeOK, PagesFaithful, Disjoint(v_Meetings), NEW x \in DOMAIN pages
               PROVE  LET p == pages[x]
                      IN  /\ InProgress(v_Meetings, p.timestamp) \subseteq {p.now}
                          /\ p.past \in Indices(v_Meetings) /\ p.next # None =>
                                (p.past + 1) .. (p.next - 1) \subseteq {p.now}
    BY DEF NothingSkipped
  <2> DEFINE p == pages[x]
             t == pages[x].timestamp
  <2>1. p \in Page
    BY DEF TypeOK
  <2>2. t \in Nat /\ p.past \in Int /\ p.now \in Int /\ p.next \in Int
    BY <2>1, BoundsAssumption DEF Page
  <2>3. /\ v_Meetings # <<>> => /\ IsFirst(p.now, Running(v_Meetings, t))
                                /\ IsFirst(p.next, Upcoming(v_Meetings, t))
        /\ IF Ended(v_Meetings, t) = {}
             THEN p.past \notin Indices(v_Meetings)
             ELSE IsLast(p.past, Ended(v_Meetings, t))
    BY DEF PagesFaithful, Faithful
  <2>4. /\ Size \in Nat
        /\ Indices(v_Meetings) = 0 .. Size - 1
        /\ \A n \in Indices(v_Meetings) : /\ At(v_Meetings, n).start_timestamp \in Nat
                                          /\ At(v_Meetings, n).end_timestamp \in Nat
    BY ListFacts DEF TypeOK
  <2>5. Indices(v_Meetings) # {} => v_Meetings # <<>>
    BY DEF Indices
  <2>6. ASSUME NEW n \in InProgress(v_Meetings, t)
        PROVE  n = p.now
    <3>1. n \in Running(v_Meetings, t)
      BY <2>6, <2>2, <2>4 DEF InProgress, Running
    <3>2. p.now \in Running(v_Meetings, t) /\ p.now <= n
      BY <2>3, <2>5, <3>1 DEF IsFirst, Running
    <3>3. p.now \in Indices(v_Meetings) /\ At(v_Meetings, p.now).end_timestamp >= t
      BY <3>2 DEF Running
    <3>4. n \in Indices(v_Meetings) /\ At(v_Meetings, n).start_timestamp < t
      BY <2>6 DEF InProgress
    <3>5. ~(p.now < n)
      BY <2>2, <2>4, <3>3, <3>4 DEF Disjoint
    <3> QED
      BY <2>2, <2>4, <3>2, <3>4, <3>5
  <2>7. ASSUME p.past \in Indices(v_Meetings), p.next # None,
               NEW n \in (p.past + 1) .. (p.next - 1)
        PROVE  n = p.now
    <3>1. /\ p.past \in Ended(v_Meetings, t)
          /\ \A m \in Ended(v_Meetings, t) : m <= p.past
      BY <2>3, <2>7 DEF IsLast
    <3>2. /\ p.next \in Upcoming(v_Meetings, t)
          /\ \A m \in Upcoming(v_Meetings, t) : p.next <= m
      BY <2>3, <2>5, <2>7 DEF IsFirst
    <3>3. n \in Indices(v_Meetings)
      BY <2>2, <2>4, <2>7, <3>2 DEF Upcoming
    <3>4. n \notin Ended(v_Meetings, t) /\ n \notin Upcoming(v_Meetings, t)
      BY <2>2, <2>7, <3>1, <3>2
    <3>5. n \in InProgress(v_Meetings, t)
      BY <2>2, <2>4, <3>3, <3>4 DEF Ended, Upcoming, InProgress
    <3> QED
      BY <2>6, <3>5
  <2> QED
    BY <2>6, <2>7
<1> QED
  BY <1>1, TypeCorrect, PagesAreFaithful, PTL
=============================================================================

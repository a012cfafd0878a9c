------------------------- MODULE MeetingDisplay_proofs -------------------------
(***************************************************************************)
(* Proofs about the device for every calendar, every sequence of failures  *)
(* and every length of the day.                                            *)
(***************************************************************************)
EXTENDS MeetingDisplay, TLAPS

-----------------------------------------------------------------------------
\* Division by the length of a day: days are the ones of the model, and a later
\* instant is not on an earlier day.
LEMMA DivBound ==
  ASSUME NEW a \in Nat, NEW b \in Nat \ {0}, NEW c \in Nat, a < b * (c + 1)
  PROVE  a \div b \in 0 .. c
<1>1. /\ a \div b \in Int
      /\ b * (a \div b) <= a
      /\ a < b * (a \div b) + b
  OBVIOUS
<1> DEFINE q == a \div b
<1>2. q \in Int /\ b * q <= a /\ a < b * q + b
  BY <1>1
<1> HIDE DEF q
<1>3. ASSUME q <= -1 PROVE FALSE
  <2>1. b * q <= b * (-1)
    BY <1>2, <1>3
  <2> QED
    BY <1>2, <2>1
<1>4. ASSUME q >= c + 1 PROVE FALSE
  <2>1. b * q >= b * (c + 1)
    BY <1>2, <1>4
  <2> QED
    BY <1>2, <2>1
<1>5. q \in 0 .. c
  BY <1>2, <1>3, <1>4
<1> QED
  BY <1>5 DEF q

LEMMA DivMonotone ==
  ASSUME NEW a \in Nat, NEW b \in Nat \ {0}, NEW c \in Nat, a <= c
  PROVE  a \div b <= c \div b
<1> DEFINE p == a \div b
           q == c \div b
<1>1. p \in Int /\ q \in Int /\ b * p <= a /\ c < b * q + b
  OBVIOUS
<1> HIDE DEF p, q
<1>2. ASSUME p >= q + 1 PROVE FALSE
  <2>1. b * p >= b * (q + 1)
    BY <1>1, <1>2
  <2> QED
    BY <1>1, <2>1
<1> QED
  BY <1>1, <1>2 DEF p, q

\* Whatever the device reads from its clock is a day of the model.
LEMMA TodayIsADay ==
  ASSUME clock \in StartTime .. MaxClock, synced \in BOOLEAN
  PROVE  DeviceTime \in 0 .. MaxClock /\ Today \in Days
<1>1. DeviceTime \in 0 .. MaxClock
  BY ClockAssumption DEF DeviceTime
<1>2. DeviceTime \in Nat /\ DeviceTime < DayLength * (LastDay + 1)
  BY <1>1, ClockAssumption
<1>3. Today \in 0 .. LastDay
  BY <1>2, DivBound, ClockAssumption DEF Today, DayOf
<1> QED
  BY <1>1, <1>3 DEF Days

CalendarOK == DOMAIN calendar = Days /\ \A d \in Days : calendar[d] \in Schedules[d]

\* A reply of getSchedule is a list of room items.
LEMMA ReplyType ==
  ASSUME CalendarOK, NEW f \in Days, NEW t \in Days
  PROVE  Reply(f, t) \in Seq(Item)
  BY ScheduleAssumption DEF CalendarOK, Reply

LEMMA BookedType == CalendarOK => Booked \subseteq Item
<1>1. ASSUME CalendarOK, NEW d \in Days, NEW n \in DOMAIN calendar[d]
      PROVE  calendar[d][n] \in Item
  <2>1. calendar[d] \in Seq(Item)
    BY <1>1, ScheduleAssumption DEF CalendarOK
  <2> QED
    BY <2>1
<1> QED
  BY <1>1 DEF Booked, ItemsOf

\* Printing an index gives an entry of the list or one of the two sentinels.
LEMMA PrintedFacts ==
  ASSUME NEW v \in Seq(Entry), NEW n \in None .. Len(v)
  PROVE  /\ Printed(v, n) \in Meetings(v) \cup {Dashes, Garbage}
         /\ Meetings(v) \subseteq Entry
<1>1. Len(v) \in Nat /\ DOMAIN v = 1 .. Len(v)
  OBVIOUS
<1>2. CASE n # None /\ n \in Indices(v)
  <2>1. n + 1 \in DOMAIN v
    BY <1>1, <1>2 DEF Indices, None
  <2> QED
    BY <2>1, <1>2 DEF Printed, Wild, At, Meetings
<1>3. CASE ~(n # None /\ n \in Indices(v))
  BY <1>3 DEF Printed, Wild, Meetings
<1> QED
  BY <1>2, <1>3
-----------------------------------------------------------------------------
\* The sequence operators the fetch uses keep the type of the elements.
LEMMA SeqFacts ==
  /\ \A S : <<>> \in Seq(S)
  /\ \A S : \A s \in Seq(S) : s # <<>> => Head(s) \in S /\ Tail(s) \in Seq(S)
  /\ \A S : \A s \in Seq(S) : \A e \in S : Append(s, e) \in Seq(S)
  OBVIOUS

\* An entry made from a room's item.
LEMMA EntryType ==
  ASSUME NEW r \in Item, NEW s \in {"text", "PrivaterTermin"}
  PROVE  MakeEntry(r, s) \in Entry
  BY ClockAssumption DEF MakeEntry, Timestamp, Entry, Item

\* The conjuncts of TypeOK about the world, about what outlives a reset and
\* about the RAM.
WorldType == /\ clock \in StartTime .. MaxClock /\ CalendarOK
             /\ changes \in 0 .. MaxChanges /\ faults \in 0 .. MaxFaults
KeptType == /\ config \in Configs \cup {"missing"} /\ synced \in BOOLEAN
            /\ screen \in Picture
RamType ==
    /\ pc \in {"boot", "wifi", "token", "window", "item", "user", "draw", "sleep", "asleep"}
    /\ online \in BOOLEAN /\ fetch \in {1, 2} /\ token \in BOOLEAN
    /\ from \in Days \cup {None} /\ to \in Days \cup {None}
    /\ items \in Seq(Item) /\ answer \in Seq(OrganizerItem)
    /\ v_Meetings \in Seq(Entry)
    /\ title \in Days
GhostType == seen \subseteq Item /\ steady \subseteq seen

\* json_DeserializeUser runs for an item of the room.
UserHasItem == pc = "user" => items # <<>>
TypeInv == WorldType /\ KeptType /\ RamType /\ GhostType /\ UserHasItem

LEMMA TypeParts == TypeInv <=> TypeOK /\ UserHasItem
  BY DEF TypeInv, TypeOK, WorldType, KeptType, RamType, GhostType, CalendarOK

LEMMA BlankType == Blank \in Picture
  BY ClockAssumption DEF Blank, Picture, Days

LEMMA LostRamType ==
  ASSUME NEW p \in {"boot", "asleep"}, LoseRam(p)
  PROVE  RamType' /\ GhostType' /\ UserHasItem'
<1>1. /\ pc' = p /\ online' = FALSE /\ fetch' = 1 /\ token' = FALSE
      /\ from' = None /\ to' = None /\ title' = 0
      /\ items' = <<>> /\ answer' = <<>> /\ v_Meetings' = <<>>
      /\ seen' = {} /\ steady' = {}
  BY DEF LoseRam
<1>2. 0 \in Days
  BY ClockAssumption DEF Days
<1>3. RamType'
  BY <1>1, <1>2, SeqFacts DEF RamType
<1>4. GhostType' /\ UserHasItem'
  BY <1>1 DEF GhostType, UserHasItem
<1> QED
  BY <1>3, <1>4

\* The device's variables keep their types.
LEMMA TypeInvariance == Spec => []TypeInv
<1>1. Init => TypeInv
  <2> SUFFICES ASSUME Init PROVE TypeInv
    OBVIOUS
  <2>1. WorldType
    BY ClockAssumption, BudgetAssumption DEF Init, WorldType, CalendarOK
  <2>2. KeptType
    BY BlankType DEF Init, KeptType
  <2>3. RamType /\ GhostType
    <3>1. /\ pc = "boot" /\ online = FALSE /\ fetch = 1 /\ token = FALSE
          /\ from = None /\ to = None /\ title = 0
          /\ items = <<>> /\ answer = <<>> /\ v_Meetings = <<>>
          /\ seen = {} /\ steady = {}
      BY DEF Init
    <3>2. 0 \in Days
      BY ClockAssumption DEF Days
    <3>3. RamType
      BY <3>1, <3>2, SeqFacts DEF RamType
    <3>4. GhostType
      BY <3>1 DEF GhostType
    <3> QED
      BY <3>3, <3>4
  <2>4. UserHasItem
    BY DEF Init, UserHasItem
  <2> QED
    BY <2>1, <2>2, <2>3, <2>4 DEF TypeInv
<1>2. TypeInv /\ [Next]_vars => TypeInv'
  <2> SUFFICES ASSUME TypeInv, [Next]_vars PROVE TypeInv'
    OBVIOUS
  <2>1. WorldType /\ KeptType /\ RamType /\ GhostType /\ UserHasItem
    BY DEF TypeInv
  <2>2. Today \in Days
    BY <2>1, TodayIsADay DEF WorldType, KeptType
  <2>3. ASSUME UNCHANGED world, UNCHANGED <<config, synced, screen>>,
               faults' \in 0 .. MaxFaults
        PROVE  WorldType' /\ KeptType'
    BY <2>1, <2>3 DEF WorldType, KeptType, CalendarOK, world
  <2>4. Failing => faults' \in 0 .. MaxFaults
    BY <2>1, BudgetAssumption DEF Failing, WorldType
  <2>5. UNCHANGED faults => faults' \in 0 .. MaxFaults
    BY <2>1 DEF WorldType
  <2>6. UNCHANGED <<ram, ghost>> => RamType' /\ GhostType' /\ UserHasItem'
    BY <2>1 DEF RamType, GhostType, UserHasItem, ram, ghost
  <2>7. UNCHANGED ghost => GhostType'
    BY <2>1 DEF GhostType, ghost
  <2>8. CASE Tick
    <3>1. WorldType' /\ KeptType'
      BY <2>1, <2>8, ClockAssumption DEF Tick, WorldType, KeptType, CalendarOK
    <3> QED
      BY <2>6, <2>8, <3>1 DEF TypeInv, Tick
  <2>9. CASE ChangeCalendar
    <3>1. CalendarOK'
      BY <2>1, <2>9 DEF ChangeCalendar, WorldType, CalendarOK
    <3>2. WorldType' /\ KeptType' /\ RamType' /\ UserHasItem'
      BY <2>1, <2>9, <3>1, BudgetAssumption
      DEF ChangeCalendar, WorldType, KeptType, RamType, UserHasItem, ram
    <3>3. Booked' \subseteq Item
      <4>1. ASSUME NEW d \in Days, NEW n \in DOMAIN calendar'[d]
            PROVE  calendar'[d][n] \in Item
        <5>1. calendar'[d] \in Seq(Item)
          BY <3>1, ScheduleAssumption DEF CalendarOK
        <5> QED
          BY <5>1
      <4> QED
        BY <4>1 DEF Booked, ItemsOf
    <3>4. GhostType'
      BY <2>1, <2>9, <3>3 DEF ChangeCalendar, GhostType, ghost
    <3> QED
      BY <3>2, <3>4
      DEF TypeInv
  <2>10. CASE SntpReply
    <3>1. WorldType' /\ KeptType'
      BY <2>1, <2>10 DEF SntpReply, WorldType, KeptType, CalendarOK, world
    <3> QED
      BY <2>6, <2>10, <3>1 DEF TypeInv, SntpReply
  <2>11. CASE PowerCut
    <3>1. WorldType' /\ KeptType'
      BY <2>1, <2>4, <2>11 DEF PowerCut, WorldType, KeptType, CalendarOK, world
    <3> QED
      BY <2>11, <3>1, LostRamType DEF TypeInv, PowerCut
  <2>12. CASE ConfigCrash \/ ItemCrash \/ UserCrash \/ DrawCrash
    BY <2>3, <2>5, <2>12, LostRamType
    DEF TypeInv, ConfigCrash, ItemCrash, UserCrash, DrawCrash, Crash
  <2>13. CASE OrganizerCrash
    BY <2>3, <2>4, <2>13, LostRamType DEF TypeInv, OrganizerCrash
  <2>14. CASE DeepSleep \/ Wake
    BY <2>3, <2>5, <2>14, LostRamType DEF TypeInv, DeepSleep, Wake
  <2>15. CASE FormatConfig
    <3>1. WorldType' /\ KeptType'
      BY <2>1, <2>4, <2>15 DEF FormatConfig, WorldType, KeptType, CalendarOK, world
    <3>2. RamType' /\ UserHasItem'
      BY <2>1, <2>15 DEF FormatConfig, RamType, UserHasItem
    <3> QED
      BY <2>7, <2>15, <3>1, <3>2 DEF TypeInv, FormatConfig
  <2>16. CASE MountConfig \/ ConnectWifi
    <3>1. RamType' /\ UserHasItem'
      BY <2>1, <2>16 DEF MountConfig, ConnectWifi, RamType, UserHasItem
    <3> QED
      BY <2>3, <2>5, <2>7, <2>16, <3>1 DEF TypeInv, MountConfig, ConnectWifi
  <2>17. CASE PostToken
    <3>1. RamType' /\ UserHasItem'
      BY <2>1, <2>17 DEF PostToken, RamType, UserHasItem
    <3> QED
      BY <2>3, <2>4, <2>5, <2>7, <2>17, <3>1 DEF TypeInv, PostToken
  <2>18. CASE ReadStartDay \/ ReadEndDay
    <3>1. RamType' /\ UserHasItem'
      BY <2>1, <2>2, <2>18 DEF ReadStartDay, ReadEndDay, RamType, UserHasItem
    <3> QED
      BY <2>3, <2>5, <2>7, <2>18, <3>1 DEF TypeInv, ReadStartDay, ReadEndDay
  <2>19. CASE PostSchedule
    <3>1. from \in Days /\ to \in Days
      BY <2>1, <2>19 DEF PostSchedule, RamType
    <3>2. Reply(from, to) \in Seq(Item)
      BY <2>1, <3>1, ReplyType DEF WorldType
    <3>3. items' \in Seq(Item)
      BY <2>19, <3>2, SeqFacts DEF PostSchedule
    <3>4. RamType' /\ UserHasItem'
      BY <2>1, <2>19, <3>3 DEF PostSchedule, RamType, UserHasItem
    <3> QED
      BY <2>3, <2>4, <2>5, <2>7, <2>19, <3>4 DEF TypeInv, PostSchedule
  <2>20. CASE PostOrganizer
    <3>1. RamType' /\ UserHasItem'
      BY <2>1, <2>20, AnswerAssumption DEF PostOrganizer, RamType, UserHasItem
    <3> QED
      BY <2>3, <2>5, <2>7, <2>20, <3>1 DEF TypeInv, PostOrganizer
  <2>21. CASE UserItem
    <3>1. answer' \in Seq(OrganizerItem)
      BY <2>1, <2>21, SeqFacts DEF UserItem, RamType
    <3>2. v_Meetings' \in Seq(Entry)
      <4>1. Head(items) \in Item
        BY <2>1, <2>21, SeqFacts DEF UserItem, RamType, UserHasItem
      <4>2. \A s \in {"text", "PrivaterTermin"} : MakeEntry(Head(items), s) \in Entry
        BY <4>1, EntryType
      <4> QED
        BY <2>1, <2>21, <4>2, SeqFacts DEF UserItem, RamType
    <3>3. RamType' /\ UserHasItem'
      BY <2>1, <2>21, <3>1, <3>2 DEF UserItem, RamType, UserHasItem
    <3> QED
      BY <2>3, <2>5, <2>7, <2>21, <3>3 DEF TypeInv, UserItem
  <2>22. CASE UserDone
    <3>1. items' \in Seq(Item)
      BY <2>1, <2>22, SeqFacts DEF UserDone, RamType, UserHasItem
    <3>2. RamType' /\ UserHasItem'
      BY <2>1, <2>22, <3>1 DEF UserDone, RamType, UserHasItem
    <3> QED
      BY <2>3, <2>5, <2>7, <2>22, <3>2 DEF TypeInv, UserDone
  <2>23. CASE ClearList
    <3>1. RamType' /\ UserHasItem'
      BY <2>1, <2>23, SeqFacts DEF ClearList, RamType, UserHasItem
    <3>2. GhostType'
      BY <2>1, <2>23, BookedType DEF ClearList, GhostType, WorldType
    <3> QED
      BY <2>3, <2>5, <2>23, <3>1, <3>2 DEF TypeInv, ClearList
  <2>24. CASE ReadTitle
    <3>1. RamType' /\ UserHasItem'
      BY <2>1, <2>2, <2>24 DEF ReadTitle, RamType, UserHasItem
    <3> QED
      BY <2>3, <2>5, <2>7, <2>24, <3>1 DEF TypeInv, ReadTitle
  <2>25. CASE Draw
    <3>1. screen' \in Picture
      <4>1. PICK past, now, next \in None .. Len(v_Meetings) :
               screen' = IF online
                           THEN [title |-> title, timestamp |-> DeviceTime,
                                 past |-> Printed(v_Meetings, past),
                                 now  |-> Printed(v_Meetings, now),
                                 next |-> Printed(v_Meetings, next)]
                           ELSE screen
        BY <2>25 DEF Draw
      <4>2. \A n \in {past, now, next} :
               Printed(v_Meetings, n) \in Entry \cup {Dashes, Garbage}
        BY <2>1, PrintedFacts DEF RamType
      <4>3. DeviceTime \in Nat /\ title \in Days
        BY <2>1, TodayIsADay, ClockAssumption DEF WorldType, KeptType, RamType
      <4> QED
        BY <2>1, <4>1, <4>2, <4>3 DEF Picture, KeptType
    <3>2. RamType' /\ UserHasItem'
      BY <2>1, <2>25 DEF Draw, RamType, UserHasItem
    <3>3. WorldType' /\ KeptType'
      BY <2>1, <2>25, <3>1 DEF Draw, WorldType, KeptType, CalendarOK, world
    <3> QED
      BY <2>7, <2>25, <3>2, <3>3 DEF TypeInv, Draw
  <2>26. CASE WaitForWifi \/ UNCHANGED vars
    BY <2>3, <2>5, <2>6, <2>26 DEF TypeInv, WaitForWifi, vars
  <2> QED
    BY <2>8, <2>9, <2>10, <2>11, <2>12, <2>13, <2>14, <2>15, <2>16, <2>17, <2>18, <2>19,
       <2>20, <2>21, <2>22, <2>23, <2>24, <2>25, <2>26
    DEF Next, World, Device, Setup, GetJson, Loop
<1> QED
  BY <1>1, <1>2, PTL DEF Spec

\* The device's variables keep their types.
THEOREM TypeCorrect == Spec => []TypeOK
  BY TypeInvariance, TypeParts, PTL
-----------------------------------------------------------------------------
\* What getSchedule answers: booked items in order, none after the last day
\* asked for.
LEMMA ReplyFacts ==
  ASSUME CalendarOK, NEW f \in Days, NEW t \in Days, NEW s, s = Reply(f, t)
  PROVE  /\ s \in Seq(Item)
         /\ Starts(s)
         /\ \A n \in DOMAIN s : s[n] \in Booked /\ DayOf(s[n].start) <= t
<1> DEFINE a == calendar[f]
           b == calendar[t]
<1>1. /\ a \in Seq(Item) /\ b \in Seq(Item)
      /\ Starts(a) /\ Starts(b)
      /\ \A n \in DOMAIN a : DayOf(a[n].start) = f
      /\ \A n \in DOMAIN b : DayOf(b[n].start) = t
  BY ScheduleAssumption DEF CalendarOK
<1>2. /\ \A n \in DOMAIN a : a[n] \in Booked
      /\ \A n \in DOMAIN b : b[n] \in Booked
  BY DEF Booked, ItemsOf
<1>3. f \in Nat /\ t \in Nat
  BY DEF Days
<1> HIDE DEF a, b
<1>4. CASE s = a /\ f = t
  BY <1>1, <1>2, <1>3, <1>4
<1>5. CASE s = <<>>
  BY <1>5 DEF Starts
<1>6. CASE s = a \o b /\ t = f + 1
  <2>1. s \in Seq(Item) /\ Len(s) = Len(a) + Len(b) /\ Len(a) \in Nat /\ Len(b) \in Nat
    BY <1>1, <1>6
  <2>2. \A n \in DOMAIN s :
           IF n <= Len(a) THEN n \in DOMAIN a /\ s[n] = a[n]
                          ELSE n - Len(a) \in DOMAIN b /\ s[n] = b[n - Len(a)]
    BY <1>1, <1>6
  <2>3. \A n \in DOMAIN s : s[n] \in Booked /\ DayOf(s[n].start) <= t
    BY <1>1, <1>2, <1>3, <1>6, <2>2
  <2>4. ASSUME NEW m \in DOMAIN s, NEW n \in DOMAIN s, m < n
        PROVE  s[m].start <= s[n].start
    <3>1. m \in Nat /\ n \in Nat
      BY <2>1
    <3>2. CASE n <= Len(a)
      BY <1>1, <2>1, <2>2, <2>4, <3>1, <3>2 DEF Starts
    <3>3. CASE m > Len(a)
      BY <1>1, <2>1, <2>2, <2>4, <3>1, <3>3 DEF Starts
    <3>4. CASE m <= Len(a) /\ n > Len(a)
      <4>1. s[m] = a[m] /\ m \in DOMAIN a /\ s[n] = b[n - Len(a)] /\ n - Len(a) \in DOMAIN b
        BY <2>1, <2>2, <3>1, <3>4
      <4>2. DayOf(s[m].start) = f /\ DayOf(s[n].start) = t
        BY <1>1, <4>1
      <4>3. s[m].start \in Nat /\ s[n].start \in Nat
        <5>1. s[m] \in Item /\ s[n] \in Item
          BY <2>1
        <5> QED
          BY <5>1 DEF Item
      <4>4. s[n].start <= s[m].start => DayOf(s[n].start) <= DayOf(s[m].start)
        BY <4>3, DivMonotone, ClockAssumption DEF DayOf
      <4> QED
        BY <1>3, <1>6, <4>2, <4>3, <4>4
    <3> QED
      BY <2>1, <3>1, <3>2, <3>3, <3>4
  <2> QED
    BY <2>1, <2>3, <2>4 DEF Starts
<1> QED
  BY <1>4, <1>5, <1>6 DEF Reply, a, b

\* How a step may change the two lists.
LEMMA ListSteps ==
  ASSUME [Next]_vars
  PROVE  \/ v_Meetings' = <<>> /\ items' = <<>>
         \/ /\ UNCHANGED <<v_Meetings, items>>
            /\ pc' \in Early => pc \in Early
         \/ PostSchedule
         \/ UserItem
         \/ UserDone
<1>1. CASE World
  BY <1>1 DEF World, Tick, ChangeCalendar, SntpReply, PowerCut, LoseRam, ram
<1>2. CASE Setup
  BY <1>2 DEF Setup, MountConfig, FormatConfig, ConfigCrash, Crash, LoseRam,
     WaitForWifi, ConnectWifi, Early, vars, ram
<1>3. CASE GetJson
  BY <1>3 DEF GetJson, PostToken, ReadStartDay, ReadEndDay, PostOrganizer, ItemCrash,
     OrganizerCrash, UserCrash, Crash, LoseRam, Early
<1>4. CASE Loop
  BY <1>4 DEF Loop, ClearList, ReadTitle, Draw, DrawCrash, DeepSleep, Wake, Crash,
     LoseRam, Early
<1>5. CASE UNCHANGED vars
  BY <1>5 DEF vars, ram
<1> QED
  BY <1>1, <1>2, <1>3, <1>4, <1>5 DEF Next, Device

\* What json_DeserializeUser does to the list for one item of the organizer.
LEMMA UserItemFacts ==
  ASSUME TypeInv, UserItem
  PROVE  /\ 1 \in DOMAIN items /\ items' = items
         /\ pc = "user" /\ pc' = "user"
         /\ \/ v_Meetings' = v_Meetings
            \/ /\ Len(v_Meetings') = Len(v_Meetings) + 1
               /\ \A n \in DOMAIN v_Meetings : v_Meetings'[n] = v_Meetings[n]
               /\ v_Meetings'[Len(v_Meetings) + 1].start_timestamp = Timestamp(items[1].start)
               /\ MadeFrom(v_Meetings'[Len(v_Meetings) + 1], items[1])
<1>1. /\ items \in Seq(Item) /\ items # <<>> /\ v_Meetings \in Seq(Entry)
      /\ items' = items /\ pc = "user" /\ pc' = "user"
  BY DEF UserItem, TypeInv, RamType, UserHasItem
<1>2. Head(items) = items[1] /\ 1 \in DOMAIN items
  BY <1>1
<1>3. CASE v_Meetings' = v_Meetings
  BY <1>1, <1>2, <1>3
<1>4. ASSUME NEW s, v_Meetings' = Append(v_Meetings, MakeEntry(items[1], s))
      PROVE  /\ Len(v_Meetings') = Len(v_Meetings) + 1
             /\ \A n \in DOMAIN v_Meetings : v_Meetings'[n] = v_Meetings[n]
             /\ v_Meetings'[Len(v_Meetings) + 1] = MakeEntry(items[1], s)
  <2> DEFINE e == MakeEntry(items[1], s)
  <2> HIDE DEF e
  <2>1. v_Meetings' = Append(v_Meetings, e)
    BY <1>4 DEF e
  <2>2. /\ Len(v_Meetings') = Len(v_Meetings) + 1
        /\ \A n \in DOMAIN v_Meetings : v_Meetings'[n] = v_Meetings[n]
        /\ v_Meetings'[Len(v_Meetings) + 1] = e
    BY <1>1, <2>1
  <2> QED
    BY <2>2 DEF e
<1>5. CASE v_Meetings' # v_Meetings
  <2>1. PICK s : v_Meetings' = Append(v_Meetings, MakeEntry(items[1], s))
    BY <1>2, <1>5 DEF UserItem
  <2> QED
    BY <1>1, <1>2, <1>4, <2>1 DEF MakeEntry, MadeFrom
<1> QED
  BY <1>3, <1>5
-----------------------------------------------------------------------------
LEMMA OrderInvariance == Spec => []OrderInv
<1>1. Init => OrderInv
  BY DEF Init, OrderInv, Starts, ListInOrder
<1>2. TypeInv /\ TypeInv' /\ OrderInv /\ [Next]_vars => OrderInv'
  <2> SUFFICES ASSUME TypeInv, TypeInv', OrderInv, [Next]_vars PROVE OrderInv'
    OBVIOUS
  <2>1. CASE v_Meetings' = <<>> /\ items' = <<>>
    BY <2>1 DEF OrderInv, Starts, ListInOrder
  <2>2. CASE UNCHANGED <<v_Meetings, items>> /\ (pc' \in Early => pc \in Early)
    BY <2>2 DEF OrderInv, Starts, ListInOrder, Early
  <2>3. CASE PostSchedule
    <3>1. from \in Days /\ to \in Days /\ CalendarOK
      BY <2>3 DEF PostSchedule, TypeInv, RamType, WorldType
    <3>2. Starts(items')
      <4>1. Starts(<<>>)
        BY DEF Starts
      <4> QED
        BY <2>3, <3>1, <4>1, ReplyFacts DEF PostSchedule
    <3>3. v_Meetings = <<>> /\ v_Meetings' = <<>> /\ pc' = "item"
      BY <2>3 DEF PostSchedule, OrderInv, Early
    <3> QED
      BY <3>2, <3>3 DEF OrderInv, Starts, ListInOrder, Early
  <2>4. CASE UserItem
    <3>1. /\ 1 \in DOMAIN items /\ items' = items /\ pc' \notin Early
          /\ \/ v_Meetings' = v_Meetings
             \/ /\ Len(v_Meetings') = Len(v_Meetings) + 1
                /\ \A n \in DOMAIN v_Meetings : v_Meetings'[n] = v_Meetings[n]
                /\ v_Meetings'[Len(v_Meetings) + 1].start_timestamp = Timestamp(items[1].start)
      BY <2>4, UserItemFacts DEF Early
    <3>2. CASE v_Meetings' = v_Meetings
      BY <3>1, <3>2 DEF OrderInv, Starts, ListInOrder
    <3>3. CASE v_Meetings' # v_Meetings
      <4> DEFINE L == Len(v_Meetings)
                 first == Timestamp(items[1].start)
      <4>1. /\ L \in Nat /\ DOMAIN v_Meetings = 1 .. L /\ DOMAIN v_Meetings' = 1 .. L + 1
        BY <3>1, <3>3 DEF TypeInv, RamType
      <4>2. /\ \A n \in 1 .. L : v_Meetings'[n] = v_Meetings[n]
            /\ v_Meetings'[L + 1].start_timestamp = first
        BY <3>1, <3>3, <4>1
      <4>3. \A n \in DOMAIN items : first <= Timestamp(items[n].start)
        <5>1. \A n \in DOMAIN items : items[n] \in Item
          BY DEF TypeInv, RamType
        <5>2. \A n \in DOMAIN items : items[n].start \in Nat
          BY <5>1 DEF Item
        <5>3. \A n \in DOMAIN items : n = 1 \/ 1 < n
          BY DEF TypeInv, RamType
        <5>4. \A n \in DOMAIN items : items[1].start <= items[n].start
          BY <3>1, <5>2, <5>3 DEF OrderInv, Starts
        <5> QED
          BY <3>1, <5>2, <5>4, ClockAssumption DEF Timestamp
      <4>4. \A n \in 1 .. L : v_Meetings[n].start_timestamp <= first
        BY <3>1, <4>1 DEF OrderInv
      <4> HIDE DEF L, first
      <4>5. \A m \in DOMAIN v_Meetings', n \in DOMAIN items' :
              v_Meetings'[m].start_timestamp <= Timestamp(items'[n].start)
        BY <3>1, <4>1, <4>2, <4>3 DEF OrderInv
      <4>6. ListInOrder'
        BY <4>1, <4>2, <4>4 DEF OrderInv, ListInOrder
      <4> QED
        BY <3>1, <4>5, <4>6 DEF OrderInv, Starts
    <3> QED
      BY <3>2, <3>3
  <2>5. CASE UserDone
    <3>1. /\ items \in Seq(Item) /\ items # <<>> /\ items' = Tail(items)
          /\ v_Meetings' = v_Meetings /\ pc' = "item"
      BY <2>5 DEF UserDone, TypeInv, RamType, UserHasItem
    <3>2. \A n \in DOMAIN items' : n + 1 \in DOMAIN items /\ items'[n] = items[n + 1]
      BY <3>1
    <3>3. DOMAIN items' \subseteq Int
      BY <3>1
    <3> QED
      BY <3>1, <3>2, <3>3 DEF OrderInv, Starts, ListInOrder, Early
  <2> QED
    BY <2>1, <2>2, <2>3, <2>4, <2>5, ListSteps
<1> QED
  BY <1>1, <1>2, TypeInvariance, PTL DEF Spec

\* The list calender_text searches is in order of start, whatever the two
\* fetches, the days asked for and the organizers' answers were.
THEOREM ListStaysInOrder == Spec => []ListInOrder
<1>1. OrderInv => ListInOrder
  BY DEF OrderInv
<1> QED
  BY <1>1, OrderInvariance, PTL
-----------------------------------------------------------------------------
\* How a step may change what has been seen booked since the list was cleared.
LEMMA SeenSteps ==
  ASSUME [Next]_vars
  PROVE  \/ v_Meetings' = <<>> /\ items' = <<>> /\ fetch' = 1
         \/ v_Meetings' = <<>> /\ items' = <<>> /\ Booked' \subseteq seen'
         \/ /\ fetch' = fetch /\ seen \subseteq seen'
            /\ fetch = 2 /\ Booked \subseteq seen => Booked' \subseteq seen'
<1>1. UNCHANGED calendar => Booked' = Booked
  BY DEF Booked, ItemsOf
<1>2. CASE ChangeCalendar
  BY <1>2 DEF ChangeCalendar, ram, ghost
<1>3. CASE Tick \/ SntpReply \/ PowerCut
  BY <1>1, <1>3 DEF Tick, SntpReply, PowerCut, LoseRam, world, ram, ghost
<1>4. CASE Setup
  BY <1>1, <1>4 DEF Setup, MountConfig, FormatConfig, ConfigCrash, Crash, LoseRam,
     WaitForWifi, ConnectWifi, vars, world, ram, ghost
<1>5. CASE GetJson
  BY <1>1, <1>5 DEF GetJson, PostToken, ReadStartDay, ReadEndDay, PostSchedule,
     PostOrganizer, ItemCrash, OrganizerCrash, UserItem, UserCrash, UserDone, Crash,
     LoseRam, world, ghost
<1>6. CASE ClearList
  BY <1>1, <1>6 DEF ClearList, world
<1>7. CASE ReadTitle \/ Draw \/ DrawCrash \/ DeepSleep \/ Wake
  BY <1>1, <1>7 DEF ReadTitle, Draw, DrawCrash, DeepSleep, Wake, Crash, LoseRam,
     world, ghost
<1>8. CASE UNCHANGED vars
  BY <1>1, <1>8 DEF vars, world, ram, ghost
<1> QED
  BY <1>2, <1>3, <1>4, <1>5, <1>6, <1>7, <1>8 DEF Next, World, Device, Loop

LEMMA FreshInvariance == Spec => []FreshInv
<1>1. Init => FreshInv
  BY DEF Init, FreshInv, ListIsFresh
<1>2. TypeInv /\ FreshInv /\ [Next]_vars => FreshInv'
  <2> SUFFICES ASSUME TypeInv, FreshInv, [Next]_vars PROVE FreshInv'
    OBVIOUS
  <2>1. CASE v_Meetings' = <<>> /\ items' = <<>> /\ (fetch' = 1 \/ Booked' \subseteq seen')
    BY <2>1 DEF FreshInv, ListIsFresh, Meetings
  <2>2. ASSUME fetch' = fetch, seen \subseteq seen',
               fetch = 2 /\ Booked \subseteq seen => Booked' \subseteq seen'
        PROVE  FreshInv'
    <3>1. fetch = 2 => Booked' \subseteq seen'
      BY <2>2 DEF FreshInv
    <3>2. ASSUME fetch = 2, NEW n \in DOMAIN v_Meetings
          PROVE  \E r \in seen' : MadeFrom(v_Meetings[n], r)
      BY <2>2, <3>2 DEF FreshInv, ListIsFresh, Meetings
    <3>3. CASE v_Meetings' = <<>> /\ items' = <<>>
      BY <2>2, <3>1, <3>3 DEF FreshInv, ListIsFresh, Meetings
    <3>4. CASE UNCHANGED <<v_Meetings, items>> /\ (pc' \in Early => pc \in Early)
      BY <2>2, <3>1, <3>2, <3>4 DEF FreshInv, ListIsFresh, Meetings, Early, MadeFrom
    <3>5. CASE PostSchedule
      <4>1. from \in Days /\ to \in Days /\ CalendarOK
        BY <3>5 DEF PostSchedule, TypeInv, RamType, WorldType
      <4>2. \A n \in DOMAIN items' : items'[n] \in Booked
        BY <3>5, <4>1, ReplyFacts DEF PostSchedule
      <4>3. v_Meetings' = <<>> /\ pc' = "item" /\ v_Meetings = <<>>
        BY <3>5 DEF PostSchedule, FreshInv, Early
      <4> QED
        BY <2>2, <3>1, <4>2, <4>3 DEF FreshInv, ListIsFresh, Meetings, Early
    <3>6. CASE UserItem
      <4> DEFINE L == Len(v_Meetings)
      <4>1. /\ 1 \in DOMAIN items /\ items' = items /\ pc' \notin Early
            /\ \/ v_Meetings' = v_Meetings
               \/ /\ Len(v_Meetings') = L + 1
                  /\ \A n \in DOMAIN v_Meetings : v_Meetings'[n] = v_Meetings[n]
                  /\ MadeFrom(v_Meetings'[L + 1], items[1])
        BY <3>6, UserItemFacts DEF Early
      <4>2. /\ L \in Nat /\ DOMAIN v_Meetings = 1 .. L
            /\ v_Meetings' = v_Meetings \/ DOMAIN v_Meetings' = 1 .. L + 1
        BY <3>6, <4>1 DEF TypeInv, RamType, UserItem
      <4>3. \A n \in DOMAIN v_Meetings' :
               \/ n \in DOMAIN v_Meetings /\ v_Meetings'[n] = v_Meetings[n]
               \/ MadeFrom(v_Meetings'[n], items[1])
        BY <4>1, <4>2
      <4>4. fetch = 2 => items[1] \in seen'
        BY <2>2, <4>1 DEF FreshInv
      <4>5. fetch = 2 => \A n \in DOMAIN v_Meetings' :
                            \E r \in seen' : MadeFrom(v_Meetings'[n], r)
        BY <3>2, <4>3, <4>4
      <4>6. ListIsFresh'
        BY <2>2, <4>5 DEF ListIsFresh, Meetings, MadeFrom
      <4> QED
        BY <2>2, <3>1, <4>1, <4>6 DEF FreshInv
    <3>7. CASE UserDone
      <4>1. /\ items \in Seq(Item) /\ items # <<>> /\ items' = Tail(items)
            /\ v_Meetings' = v_Meetings /\ pc' = "item"
        BY <3>7 DEF UserDone, TypeInv, RamType, UserHasItem
      <4>2. \A n \in DOMAIN items' : n + 1 \in DOMAIN items /\ items'[n] = items[n + 1]
        BY <4>1
      <4>3. ListIsFresh'
        BY <2>2, <3>2, <4>1 DEF ListIsFresh, Meetings, MadeFrom
      <4> QED
        BY <2>2, <3>1, <4>1, <4>2, <4>3 DEF FreshInv, Early
    <3> QED
      BY <3>3, <3>4, <3>5, <3>6, <3>7, ListSteps
  <2> QED
    BY <2>1, <2>2, SeenSteps
<1> QED
  BY <1>1, <1>2, TypeInvariance, PTL DEF Spec

\* Nothing on the list drawn was booked only before the list was cleared.
THEOREM ListStaysFresh == Spec => []ListIsFresh
<1>1. FreshInv => ListIsFresh
  BY DEF FreshInv
<1> QED
  BY <1>1, FreshInvariance, PTL
-----------------------------------------------------------------------------
\* The device's day never goes back while its RAM lives, SNTP included, and
\* each reading of it is the day of that moment.
LEMMA DaySteps ==
  ASSUME TypeInv, TypeInv', [Next]_vars
  PROVE  \/ v_Meetings' = <<>> /\ items' = <<>> /\ from' = None /\ to' = None
         \/ /\ Today \in Nat /\ Today' \in Nat /\ Today <= Today'
            /\ from' \in {from, Today} /\ to' \in {to, Today}
            /\ pc' = "draw" => \/ pc = "draw" /\ UNCHANGED <<title, v_Meetings>>
                               \/ title' = Today /\ UNCHANGED v_Meetings
<1>1. Today \in Nat /\ Today' \in Nat
  <2>1. Today \in Days
    BY TodayIsADay DEF TypeInv, WorldType, KeptType
  <2>2. DeviceTime' \in 0 .. MaxClock
    BY ClockAssumption DEF TypeInv, WorldType, KeptType, DeviceTime
  <2>3. DeviceTime' \in Nat /\ DeviceTime' < DayLength * (LastDay + 1)
    BY <2>2, ClockAssumption
  <2>4. Today' \in 0 .. LastDay
    BY <2>3, DivBound, ClockAssumption DEF Today, DayOf
  <2> QED
    BY <2>1, <2>4 DEF Days
<1>2. UNCHANGED <<clock, synced>> => Today' = Today
  BY DEF Today, DeviceTime
<1>3. CASE Tick \/ SntpReply
  <2>1. DeviceTime \in Nat /\ DeviceTime' \in Nat /\ DeviceTime <= DeviceTime'
    BY <1>3, ClockAssumption
    DEF Tick, SntpReply, world, DeviceTime, TypeInv, WorldType, KeptType
  <2>2. Today <= Today'
    BY <2>1, DivMonotone, ClockAssumption DEF Today, DayOf
  <2> QED
    BY <1>1, <1>3, <2>2 DEF Tick, SntpReply, ram
<1>4. CASE ChangeCalendar \/ UNCHANGED vars
  BY <1>1, <1>2, <1>4 DEF ChangeCalendar, vars, world, ram
<1>5. CASE PowerCut
  BY <1>5 DEF PowerCut, LoseRam
<1>6. CASE Setup
  BY <1>1, <1>2, <1>6 DEF Setup, MountConfig, FormatConfig, ConfigCrash, Crash, LoseRam,
     WaitForWifi, ConnectWifi, vars, world, ram
<1>7. CASE GetJson
  BY <1>1, <1>2, <1>7 DEF GetJson, PostToken, ReadStartDay, ReadEndDay, PostSchedule,
     PostOrganizer, ItemCrash, OrganizerCrash, UserItem, UserCrash, UserDone, Crash,
     LoseRam, world
<1>8. CASE Loop
  BY <1>1, <1>2, <1>8 DEF Loop, ClearList, ReadTitle, Draw, DrawCrash, DeepSleep, Wake,
     Crash, LoseRam, world
<1> QED
  BY <1>3, <1>4, <1>5, <1>6, <1>7, <1>8 DEF Next, World, Device

LEMMA DayInvariance == Spec => []DayInv
<1>1. Init => DayInv
  BY DEF Init, DayInv
<1>2. TypeInv /\ TypeInv' /\ DayInv /\ [Next]_vars => DayInv'
  <2> SUFFICES ASSUME TypeInv, TypeInv', DayInv, [Next]_vars PROVE DayInv'
    OBVIOUS
  <2>1. CASE v_Meetings' = <<>> /\ items' = <<>> /\ from' = None /\ to' = None
    BY <2>1 DEF DayInv
  <2>2. ASSUME Today \in Nat, Today' \in Nat, Today <= Today',
               from' \in {from, Today}, to' \in {to, Today},
               pc' = "draw" => \/ pc = "draw" /\ UNCHANGED <<title, v_Meetings>>
                               \/ title' = Today /\ UNCHANGED v_Meetings
        PROVE  DayInv'
    <3> DEFINE ItemDay(n) == DayOf(items[n].start)
               ListDay(n) == DayOf(v_Meetings[n].start_timestamp - Shift)
    <3>1. /\ from \in Days \cup {None} /\ to \in Days \cup {None} /\ Days \subseteq Nat
          /\ title \in Nat /\ DayLength \in Nat \ {0} /\ Shift \in Nat
      BY ClockAssumption DEF TypeInv, RamType, Days
    <3>2. /\ from' # None => from' <= Today'
          /\ to' # None => to' <= Today'
      BY <2>2, <3>1 DEF DayInv, None
    <3>3. \A n \in DOMAIN items : items[n].start \in Nat /\ ItemDay(n) \in Int
      <4>1. \A n \in DOMAIN items : items[n] \in Item
        BY DEF TypeInv, RamType
      <4> QED
        BY <3>1, <4>1 DEF Item, DayOf
    <3>4. \A n \in DOMAIN v_Meetings : v_Meetings[n].start_timestamp \in Nat /\ ListDay(n) \in Int
      <4>1. \A n \in DOMAIN v_Meetings : v_Meetings[n] \in Entry
        BY DEF TypeInv, RamType
      <4> QED
        BY <3>1, <4>1 DEF Entry, DayOf
    <3>5. /\ \A n \in DOMAIN items : ItemDay(n) <= Today'
          /\ \A n \in DOMAIN v_Meetings : ListDay(n) <= Today'
      BY <2>2, <3>3, <3>4 DEF DayInv
    <3>6. CASE v_Meetings' = <<>> /\ items' = <<>>
      BY <3>2, <3>6 DEF DayInv
    <3>7. CASE UNCHANGED <<v_Meetings, items>> /\ (pc' \in Early => pc \in Early)
      <4>1. pc' = "draw" => \A n \in DOMAIN v_Meetings : ListDay(n) <= title'
        BY <2>2 DEF DayInv
      <4> QED
        BY <3>2, <3>5, <3>7, <4>1 DEF DayInv, Early
    <3>8. CASE PostSchedule
      <4>1. /\ from \in Days /\ to \in Days /\ to # None /\ CalendarOK
            /\ v_Meetings = <<>> /\ v_Meetings' = <<>> /\ pc' = "item"
        BY <3>8 DEF PostSchedule, TypeInv, RamType, WorldType, DayInv, Early
      <4>2. items' # <<>> => items' = Reply(from, to)
        BY <3>8 DEF PostSchedule
      <4>3. CASE items' = <<>>
        BY <3>2, <4>1, <4>3 DEF DayInv, Early
      <4>4. CASE items' = Reply(from, to)
        <5>1. /\ items' \in Seq(Item)
              /\ \A n \in DOMAIN items' : DayOf(items'[n].start) <= to
          BY <4>1, <4>4, ReplyFacts
        <5>2. \A n \in DOMAIN items' : DayOf(items'[n].start) \in Int
          <6>1. \A n \in DOMAIN items' : items'[n] \in Item
            BY <5>1
          <6> QED
            BY <3>1, <6>1 DEF Item, DayOf
        <5>3. to <= Today' /\ to \in Nat
          BY <2>2, <3>1, <4>1 DEF DayInv
        <5>4. \A n \in DOMAIN items' : DayOf(items'[n].start) <= Today'
          BY <2>2, <5>1, <5>2, <5>3
        <5> QED
          BY <3>2, <4>1, <5>4 DEF DayInv, Early
      <4> QED
        BY <4>2, <4>3, <4>4
    <3>9. CASE UserItem
      <4> DEFINE L == Len(v_Meetings)
      <4>1. /\ 1 \in DOMAIN items /\ items' = items /\ pc' = "user"
            /\ \/ v_Meetings' = v_Meetings
               \/ /\ Len(v_Meetings') = L + 1
                  /\ \A n \in DOMAIN v_Meetings : v_Meetings'[n] = v_Meetings[n]
                  /\ v_Meetings'[L + 1].start_timestamp = Timestamp(items[1].start)
        BY <3>9, UserItemFacts
      <4>2. /\ L \in Nat /\ DOMAIN v_Meetings = 1 .. L
            /\ v_Meetings' = v_Meetings \/ DOMAIN v_Meetings' = 1 .. L + 1
        BY <4>1 DEF TypeInv, RamType
      <4>3. \A n \in DOMAIN v_Meetings' :
               \/ n \in DOMAIN v_Meetings /\ v_Meetings'[n] = v_Meetings[n]
               \/ v_Meetings'[n].start_timestamp = Timestamp(items[1].start)
        BY <4>1, <4>2
      <4>4. Timestamp(items[1].start) - Shift = items[1].start
        BY <3>1, <3>3, <4>1 DEF Timestamp
      <4>5. \A n \in DOMAIN v_Meetings' :
               DayOf(v_Meetings'[n].start_timestamp - Shift) <= Today'
        BY <3>5, <4>1, <4>3, <4>4
      <4> QED
        BY <3>2, <3>5, <4>1, <4>5 DEF DayInv, Early
    <3>10. CASE UserDone
      <4>1. /\ items \in Seq(Item) /\ items # <<>> /\ items' = Tail(items)
            /\ v_Meetings' = v_Meetings /\ pc' = "item"
        BY <3>10 DEF UserDone, TypeInv, RamType, UserHasItem
      <4>2. \A n \in DOMAIN items' : n + 1 \in DOMAIN items /\ items'[n] = items[n + 1]
        BY <4>1
      <4>3. \A n \in DOMAIN items' : DayOf(items'[n].start) <= Today'
        BY <3>5, <4>2
      <4> QED
        BY <3>2, <3>5, <4>1, <4>3 DEF DayInv, Early
    <3> QED
      BY <3>6, <3>7, <3>8, <3>9, <3>10, ListSteps
  <2> QED
    BY <2>1, <2>2, DaySteps
<1> QED
  BY <1>1, <1>2, TypeInvariance, PTL DEF Spec

\* What the three properties of the list rest on holds in every state.
THEOREM FetchStaysSound == Spec => []FetchInv
<1>1. OrderInv /\ FreshInv /\ DayInv => FetchInv
  BY DEF FetchInv
<1> QED
  BY <1>1, OrderInvariance, FreshInvariance, DayInvariance, PTL

\* No meeting is ever shown under a date before its own, although the days of
\* the request and the date of the title are read at different moments.
THEOREM NeverBeforeItsDay == Spec => NoMeetingBeforeItsDay
<1>1. TypeInv /\ DayInv /\ [Next]_vars =>
        [screen' # screen =>
           \A e \in OnScreen' : DayOf(e.start_timestamp - Shift) <= screen'.title]_vars
  <2> SUFFICES ASSUME TypeInv, DayInv, [Next]_vars, screen' # screen, NEW e \in OnScreen'
               PROVE  DayOf(e.start_timestamp - Shift) <= screen'.title
    OBVIOUS
  <2>1. Draw
    BY DEF Next, World, Tick, ChangeCalendar, SntpReply, PowerCut, Device, Setup,
       MountConfig, FormatConfig, ConfigCrash, WaitForWifi, ConnectWifi, GetJson, PostToken,
       ReadStartDay, ReadEndDay, PostSchedule, PostOrganizer, ItemCrash, OrganizerCrash,
       UserItem, UserCrash, UserDone, Loop, ClearList, ReadTitle, DrawCrash, DeepSleep,
       Wake, Crash, vars
  <2>2. PICK past, now, next \in None .. Len(v_Meetings) :
           screen' = IF online
                       THEN [title |-> title, timestamp |-> DeviceTime,
                             past |-> Printed(v_Meetings, past),
                             now  |-> Printed(v_Meetings, now),
                             next |-> Printed(v_Meetings, next)]
                       ELSE screen
    BY <2>1 DEF Draw
  <2>3. /\ screen'.title = title
        /\ e \in {Printed(v_Meetings, past), Printed(v_Meetings, now),
                  Printed(v_Meetings, next)}
        /\ e \notin {Dashes, Garbage}
    BY <2>2 DEF OnScreen, Dashes, Garbage
  <2>4. \A n \in {past, now, next} : Printed(v_Meetings, n) \in Meetings(v_Meetings) \cup {Dashes, Garbage}
    BY PrintedFacts DEF TypeInv, RamType
  <2>5. e \in Meetings(v_Meetings)
    BY <2>3, <2>4
  <2>6. pc = "draw"
    BY <2>1 DEF Draw
  <2> QED
    BY <2>3, <2>5, <2>6 DEF DayInv, Meetings
<1> QED
  BY <1>1, TypeInvariance, DayInvariance, PTL DEF Spec, NoMeetingBeforeItsDay
-----------------------------------------------------------------------------
(***************************************************************************)
(* In winter, and when every organizer's calendar has the meeting where    *)
(* the room's has it, a booked room is never shown as free: for every      *)
(* calendar, every change of it during the cycle and every failure.        *)
(***************************************************************************)
\* What a step does to the days of the request and to what was booked all the time
\* since the list was cleared.
LEMMA SteadySteps ==
  ASSUME [Next]_vars, TypeInv, FreeInv
  PROVE  \/ /\ v_Meetings' = <<>> /\ items' = <<>> /\ pc' \in Early
            /\ steady' \subseteq Booked' /\ (fetch' = 1 => steady' = {})
         \/ /\ fetch' = fetch /\ steady' \subseteq steady /\ steady' \subseteq Booked'
            /\ UNCHANGED <<from, to>> \/ (pc \in Early /\ pc' \in Early)
<1>1. UNCHANGED calendar => Booked' = Booked
  BY DEF Booked, ItemsOf
<1>2. CASE ChangeCalendar
  <2>1. CASE fetch = 2
    BY <1>2, <2>1 DEF ChangeCalendar, ram
  <2>2. CASE fetch # 2
    <3>1. UNCHANGED <<steady, fetch, from, to>>
      BY <1>2, <2>2 DEF ChangeCalendar, ghost, ram
    <3>2. steady = {}
      BY <2>2 DEF TypeInv, RamType, FreeInv
    <3> QED
      BY <3>1, <3>2
  <2> QED
    BY <2>1, <2>2
<1>3. CASE Tick \/ SntpReply \/ PowerCut
  BY <1>1, <1>3 DEF FreeInv, Tick, SntpReply, PowerCut, LoseRam, world, ram, ghost, Early
<1>4. CASE Setup
  BY <1>1, <1>4 DEF FreeInv, Setup, MountConfig, FormatConfig, ConfigCrash, Crash, LoseRam,
     WaitForWifi, ConnectWifi, vars, world, ram, ghost, Early
<1>5. CASE GetJson
  BY <1>1, <1>5 DEF FreeInv, GetJson, PostToken, ReadStartDay, ReadEndDay, PostSchedule,
     PostOrganizer, ItemCrash, OrganizerCrash, UserItem, UserCrash, UserDone, Crash,
     LoseRam, world, ghost, Early
<1>6. CASE ClearList
  BY <1>1, <1>6 DEF ClearList, world, Early
<1>7. CASE ReadTitle \/ Draw \/ DrawCrash \/ DeepSleep \/ Wake
  BY <1>1, <1>7 DEF FreeInv, ReadTitle, Draw, DrawCrash, DeepSleep, Wake, Crash, LoseRam,
     world, ghost, Early
<1>8. CASE UNCHANGED vars
  BY <1>1, <1>8 DEF FreeInv, vars, world, ram, ghost
<1> QED
  BY <1>2, <1>3, <1>4, <1>5, <1>6, <1>7, <1>8 DEF Next, World, Device, Loop

\* How a step gets to json_DeserializeUser and to the drawing.
LEMMA ControlSteps ==
  ASSUME [Next]_vars
  PROVE  \/ UserItem \/ UserDone \/ PostSchedule \/ PostOrganizer
         \/ v_Meetings' = <<>> /\ items' = <<>> /\ pc' \in Early
         \/ /\ UNCHANGED <<v_Meetings, items>>
            /\ pc' \in Early => pc \in Early
            /\ pc' = "user" => pc = "user" /\ UNCHANGED answer
            /\ pc' = "draw" => pc = "draw" \/ items = <<>>
<1>1. CASE World
  BY <1>1 DEF World, Tick, ChangeCalendar, SntpReply, PowerCut, LoseRam, ram, Early
<1>2. CASE Setup
  BY <1>2 DEF Setup, MountConfig, FormatConfig, ConfigCrash, Crash, LoseRam,
     WaitForWifi, ConnectWifi, Early, vars, ram
<1>3. CASE GetJson
  BY <1>3 DEF GetJson, PostToken, ReadStartDay, ReadEndDay, ItemCrash,
     OrganizerCrash, UserCrash, Crash, LoseRam, Early
<1>4. CASE Loop
  BY <1>4 DEF Loop, ClearList, ReadTitle, Draw, DrawCrash, DeepSleep, Wake, Crash,
     LoseRam, Early
<1>5. CASE UNCHANGED vars
  BY <1>5 DEF vars, ram
<1> QED
  BY <1>1, <1>2, <1>3, <1>4, <1>5 DEF Next, Device

\* An item booked for a day is in that day's schedule.
LEMMA BookedOnItsDay ==
  ASSUME CalendarOK, NEW r \in Booked
  PROVE  r \in ItemsOf(DayOf(r.start))
<1>1. PICK d \in Days : r \in ItemsOf(d)
  BY DEF Booked
<1>2. PICK n \in DOMAIN calendar[d] : r = calendar[d][n]
  BY <1>1 DEF ItemsOf
<1>3. DayOf(calendar[d][n].start) = d
  BY ScheduleAssumption DEF CalendarOK
<1> QED
  BY <1>1, <1>2, <1>3
-----------------------------------------------------------------------------
\* Given honest answers, every item of the room enters the list.
LEMMA FreeInvariance == HonestAnswers => (Spec => []FreeInv)
<1> SUFFICES ASSUME HonestAnswers PROVE Spec => []FreeInv
  OBVIOUS
<1>1. Init => FreeInv
  BY DEF Init, FreeInv
<1>2. TypeInv /\ TypeInv' /\ FreeInv /\ [Next]_vars => FreeInv'
  <2> SUFFICES ASSUME TypeInv, TypeInv', FreeInv, [Next]_vars PROVE FreeInv'
    OBVIOUS
  <2>1. CASE /\ v_Meetings' = <<>> /\ items' = <<>> /\ pc' \in Early
             /\ steady' \subseteq Booked' /\ (fetch' = 1 => steady' = {})
    BY <2>1 DEF FreeInv, Early
  <2>2. ASSUME fetch' = fetch, steady' \subseteq steady, steady' \subseteq Booked',
               UNCHANGED <<from, to>> \/ (pc \in Early /\ pc' \in Early)
        PROVE  FreeInv'
    <3> DEFINE Kept == /\ fetch' = 1 => steady' = {}
                       /\ steady' \subseteq Booked'
    <3>1. Kept
      BY <2>2 DEF FreeInv
    <3>2. CASE v_Meetings' = <<>> /\ items' = <<>> /\ pc' \in Early
      BY <3>1, <3>2 DEF FreeInv, Early
    <3>3. CASE /\ UNCHANGED <<v_Meetings, items>>
               /\ pc' \in Early => pc \in Early
               /\ pc' = "user" => pc = "user" /\ UNCHANGED answer
               /\ pc' = "draw" => pc = "draw" \/ items = <<>>
      <4>1. \A r : Listed(r)' = Listed(r) /\ ToHandle(r)' = ToHandle(r)
        BY <3>3 DEF Listed, ToHandle, MadeFrom
      <4>2. /\ pc' \in Early => items' = <<>> /\ v_Meetings' = <<>>
            /\ pc' = "draw" => items' = <<>>
        BY <3>3 DEF FreeInv
      <4>3. pc' = "user" => Listed(items[1])' \/ \E n \in DOMAIN answer' : Matches(answer'[n])
        BY <3>3 DEF FreeInv, Listed, MadeFrom
      <4>4. (items' # <<>> \/ v_Meetings' # <<>>) /\ from' = to' =>
               \A r \in steady' : DayOf(r.start) = from' => Listed(r)' \/ ToHandle(r)'
        BY <2>2, <3>3, <4>1 DEF FreeInv
      <4> QED
        BY <3>1, <4>2, <4>3, <4>4 DEF FreeInv
    <3>4. CASE PostSchedule
      <4>1. /\ from \in Days /\ to \in Days /\ CalendarOK
            /\ v_Meetings = <<>> /\ v_Meetings' = <<>> /\ pc' = "item"
            /\ UNCHANGED <<from, to>>
            /\ items' = <<>> \/ items' = Reply(from, to)
        BY <3>4 DEF PostSchedule, TypeInv, RamType, WorldType, FreeInv, Early
      <4>2. ASSUME items' # <<>>, from = to, NEW r \in steady', DayOf(r.start) = from
            PROVE  ToHandle(r)'
        <5>1. items' = calendar[from]
          BY <4>1, <4>2 DEF Reply
        <5>2. r \in Booked
          BY <2>2, <4>2 DEF FreeInv
        <5>3. r \in ItemsOf(from)
          BY <4>1, <4>2, <5>2, BookedOnItsDay
        <5> QED
          BY <5>1, <5>3 DEF ItemsOf, ToHandle
      <4> QED
        BY <3>1, <4>1, <4>2 DEF FreeInv, Early
    <3>5. CASE PostOrganizer
      <4>1. /\ UNCHANGED <<v_Meetings, items, from, to>> /\ pc' = "user"
            /\ \E n \in DOMAIN answer' : Matches(answer'[n])
        BY <3>5 DEF PostOrganizer, HonestAnswers
      <4>2. \A r : Listed(r)' = Listed(r) /\ ToHandle(r)' = ToHandle(r)
        BY <4>1 DEF Listed, ToHandle, MadeFrom
      <4>3. (items' # <<>> \/ v_Meetings' # <<>>) /\ from' = to' =>
               \A r \in steady' : DayOf(r.start) = from' => Listed(r)' \/ ToHandle(r)'
        BY <2>2, <4>1, <4>2 DEF FreeInv
      <4> QED
        BY <3>1, <4>1, <4>3 DEF FreeInv, Early
    <3>6. CASE UserItem
      <4> DEFINE L == Len(v_Meetings)
      <4>1. /\ 1 \in DOMAIN items /\ items' = items /\ pc = "user" /\ pc' = "user"
            /\ \/ v_Meetings' = v_Meetings
               \/ /\ Len(v_Meetings') = L + 1
                  /\ \A n \in DOMAIN v_Meetings : v_Meetings'[n] = v_Meetings[n]
                  /\ MadeFrom(v_Meetings'[L + 1], items[1])
        BY <3>6, UserItemFacts
      <4>2. /\ L \in Nat /\ DOMAIN v_Meetings = 1 .. L
            /\ v_Meetings' = v_Meetings \/ DOMAIN v_Meetings' = 1 .. L + 1
        BY <3>6, <4>1 DEF TypeInv, RamType
      <4>3. \A r : Listed(r) => Listed(r)'
        <5>1. \A n \in DOMAIN v_Meetings : n \in DOMAIN v_Meetings' /\ v_Meetings'[n] = v_Meetings[n]
          BY <4>1, <4>2
        <5> QED
          BY <5>1 DEF Listed, MadeFrom
      <4>4. v_Meetings' # v_Meetings => Listed(items[1])'
        <5>1. v_Meetings' # v_Meetings => L + 1 \in DOMAIN v_Meetings'
          BY <4>1, <4>2
        <5> QED
          BY <4>1, <5>1 DEF Listed, MadeFrom
      <4>5. Matches(Head(answer)) => v_Meetings' # v_Meetings
        <5>1. ASSUME NEW e \in Entry PROVE Append(v_Meetings, e) # v_Meetings
          <6>1. v_Meetings \in Seq(Entry)
            BY DEF TypeInv, RamType
          <6> DEFINE longer == Append(v_Meetings, e)
          <6>2. Len(longer) = L + 1
            BY <6>1
          <6> HIDE DEF longer
          <6>3. longer # v_Meetings
            BY <4>2, <6>2
          <6> QED
            BY <6>3 DEF longer
        <5>2. Head(items) \in Item
          BY <4>1, SeqFacts DEF TypeInv, RamType
        <5>3. \A s \in {"text", "PrivaterTermin"} : MakeEntry(Head(items), s) \in Entry
          BY <5>2, EntryType
        <5> QED
          BY <3>6, <5>1, <5>3 DEF UserItem
      <4>6. Listed(items[1])' \/ \E n \in DOMAIN answer' : Matches(answer'[n])
        <5>1. CASE Listed(items[1])
          BY <4>1, <4>3, <5>1 DEF Listed
        <5>2. ASSUME NEW n \in DOMAIN answer, Matches(answer[n]), ~Matches(Head(answer))
              PROVE  n - 1 \in DOMAIN answer' /\ Matches(answer'[n - 1])
          <6>1. answer \in Seq(OrganizerItem) /\ answer # <<>> /\ answer' = Tail(answer)
            BY <3>6 DEF UserItem, TypeInv, RamType
          <6>2. n # 1
            BY <5>2, <6>1
          <6>3. n - 1 \in DOMAIN answer' /\ answer'[n - 1] = answer[n]
            BY <6>1, <6>2
          <6> QED
            BY <5>2, <6>3
        <5> QED
          BY <4>1, <4>4, <4>5, <5>1, <5>2 DEF FreeInv
      <4>7. items # <<>> /\ UNCHANGED <<from, to>>
        BY <3>6 DEF UserItem, TypeInv, UserHasItem
      <4>8. from' = to' =>
               \A r \in steady' : DayOf(r.start) = from' => Listed(r)' \/ ToHandle(r)'
        BY <2>2, <4>1, <4>3, <4>7 DEF FreeInv, ToHandle
      <4> QED
        BY <3>1, <4>1, <4>6, <4>8 DEF FreeInv, Early
    <3>7. CASE UserDone
      <4>1. /\ items \in Seq(Item) /\ items # <<>> /\ items' = Tail(items)
            /\ v_Meetings' = v_Meetings /\ pc = "user" /\ pc' = "item" /\ answer = <<>>
            /\ UNCHANGED <<from, to>>
        BY <3>7 DEF UserDone, TypeInv, RamType, UserHasItem
      <4>2. \A r : Listed(r)' = Listed(r)
        BY <4>1 DEF Listed, MadeFrom
      <4>3. Listed(items[1])
        BY <4>1 DEF FreeInv
      <4>4. ASSUME NEW r, ToHandle(r) PROVE Listed(r)' \/ ToHandle(r)'
        <5>1. PICK n \in DOMAIN items : items[n] = r
          BY <4>4 DEF ToHandle
        <5>2. CASE n = 1
          BY <4>2, <4>3, <5>1, <5>2
        <5>3. CASE n # 1
          <6>1. n - 1 \in DOMAIN items' /\ items'[n - 1] = items[n]
            BY <4>1, <5>3
          <6> QED
            BY <5>1, <6>1 DEF ToHandle
        <5> QED
          BY <5>2, <5>3
      <4>5. from' = to' =>
               \A r \in steady' : DayOf(r.start) = from' => Listed(r)' \/ ToHandle(r)'
        BY <2>2, <4>1, <4>2, <4>4 DEF FreeInv
      <4> QED
        BY <3>1, <4>1, <4>5 DEF FreeInv, Early
    <3> QED
      BY <3>2, <3>3, <3>4, <3>5, <3>6, <3>7, ControlSteps
  <2> QED
    BY <2>1, <2>2, SteadySteps
<1> QED
  BY <1>1, <1>2, TypeInvariance, PTL DEF Spec
-----------------------------------------------------------------------------
\* A page without a current meeting was drawn from a list that has one, and none of
\* it is running.
LEMMA DashesMeanNothingRuns ==
  ASSUME NEW v \in Seq(Entry), NEW t, NEW past, NEW now \in None .. Len(v), NEW next,
         Faithful(v, [timestamp |-> t, past |-> past, now |-> now, next |-> next]),
         Printed(v, now) = Dashes
  PROVE  v # <<>> /\ Running(v, t) = {}
<1>1. now = None
  <2>1. Dashes # Garbage
    BY DEF Dashes, Garbage
  <2>2. Dashes \notin Entry
    BY DEF Dashes, Entry
  <2>3. ASSUME now # None PROVE FALSE
    <3>1. CASE now \in Indices(v)
      <4>1. now + 1 \in DOMAIN v
        BY <3>1 DEF Indices
      <4> QED
        BY <2>2, <2>3, <3>1, <4>1 DEF Printed, Wild, At
    <3>2. CASE now \notin Indices(v)
      BY <2>1, <2>3, <3>2 DEF Printed, Wild
    <3> QED
      BY <3>1, <3>2
  <2> QED
    BY <2>3
<1>2. v # <<>>
  BY <1>1 DEF Faithful, None
<1>3. IsFirst(None, Running(v, t))
  BY <1>1, <1>2 DEF Faithful
<1>4. None \notin Running(v, t)
  BY DEF Running, Indices, None
<1> QED
  BY <1>2, <1>3, <1>4 DEF IsFirst

\* "Free" is true: no meeting of the day that was booked all the time since the list
\* was cleared is running, when the clock's UTC+1 is right and the answers are honest.
THEOREM FreeRoomIsFree == Shift = 0 /\ HonestAnswers => (Spec => FreeIsTrue)
<1> SUFFICES ASSUME Shift = 0, HonestAnswers PROVE Spec => FreeIsTrue
  OBVIOUS
<1>1. TypeInv /\ FreeInv /\ [Next]_vars =>
        [screen' # screen /\ screen'.now = Dashes
           /\ from = to /\ from = DayOf(screen'.timestamp) =>
             \A r \in steady :
                DayOf(r.start) = from =>
                   ~(r.start <= screen'.timestamp /\ screen'.timestamp <= r.end)]_vars
  <2> SUFFICES ASSUME TypeInv, FreeInv, [Next]_vars, screen' # screen, screen'.now = Dashes,
                      from = to, NEW r \in steady, DayOf(r.start) = from,
                      r.start <= screen'.timestamp, screen'.timestamp <= r.end
               PROVE  FALSE
    OBVIOUS
  <2>1. Draw
    BY DEF Next, World, Tick, ChangeCalendar, SntpReply, PowerCut, Device, Setup,
       MountConfig, FormatConfig, ConfigCrash, WaitForWifi, ConnectWifi, GetJson, PostToken,
       ReadStartDay, ReadEndDay, PostSchedule, PostOrganizer, ItemCrash, OrganizerCrash,
       UserItem, UserCrash, UserDone, Loop, ClearList, ReadTitle, DrawCrash, DeepSleep,
       Wake, Crash, vars
  <2>2. PICK past, now, next \in None .. Len(v_Meetings) :
           /\ Faithful(v_Meetings, [timestamp |-> DeviceTime,
                                    past |-> past, now |-> now, next |-> next])
           /\ screen' = IF online
                          THEN [title |-> title, timestamp |-> DeviceTime,
                                past |-> Printed(v_Meetings, past),
                                now  |-> Printed(v_Meetings, now),
                                next |-> Printed(v_Meetings, next)]
                          ELSE screen
    BY <2>1 DEF Draw
  <2>3. screen'.timestamp = DeviceTime /\ Printed(v_Meetings, now) = Dashes
    BY <2>2
  <2>4. v_Meetings \in Seq(Entry)
    BY DEF TypeInv, RamType
  <2>5. v_Meetings # <<>> /\ Running(v_Meetings, DeviceTime) = {}
    BY <2>2, <2>3, <2>4, DashesMeanNothingRuns
  <2>6. Listed(r)
    <3>1. pc = "draw" /\ items = <<>>
      BY <2>1 DEF Draw, FreeInv
    <3> QED
      BY <2>5, <3>1 DEF FreeInv, ToHandle
  <2>7. PICK n \in DOMAIN v_Meetings : MadeFrom(v_Meetings[n], r)
    BY <2>6 DEF Listed
  <2>8. r \in Item
    BY DEF TypeInv, GhostType
  <2>9. v_Meetings[n].start_timestamp = r.start /\ v_Meetings[n].end_timestamp = r.end
    BY <2>7, <2>8 DEF MadeFrom, Timestamp, Item
  <2>10. n - 1 \in Indices(v_Meetings) /\ (n - 1) + 1 = n
    BY <2>4 DEF Indices
  <2>11. n - 1 \in Running(v_Meetings, DeviceTime)
    BY <2>3, <2>9, <2>10 DEF Running, At
  <2> QED
    BY <2>5, <2>11
<1> QED
  BY <1>1, TypeInvariance, FreeInvariance, PTL DEF Spec, FreeIsTrue
=============================================================================

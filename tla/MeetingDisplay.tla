---------------------------- MODULE MeetingDisplay ----------------------------
(***************************************************************************)
(* The device: src/src/main.cpp with the clock of src/src/Albeto_time.cpp  *)
(* and the panel of src/src/epaper.cpp.                                    *)
(*                                                                         *)
(* setup() reads the configuration, waits for the WiFi and starts SNTP,    *)
(* which answers whenever it likes.  loop() fetches the room's schedule,   *)
(* clears the list, fetches it again, draws and enters deep sleep; waking  *)
(* is a reboot.  Deep sleep and a reset lose the RAM and keep the clock; a *)
(* power cut loses both; the e-paper keeps its picture through all three.  *)
(* Each network call, each reading of the clock and each iteration over    *)
(* the two JSON arrays is a step, so that time passes, SNTP answers and    *)
(* people book meetings in between.  A NULL string handed to std::string   *)
(* (a missing JSON member, a failed call) resets the chip.                 *)
(***************************************************************************)
EXTENDS Selection

CONSTANTS
    DayLength, LastDay,   \* instants per day; the days are 0 .. LastDay
    StartTime, MaxClock,  \* the true time runs between these instants
    Shift,                \* how far mktime's fixed UTC+1 is off Europe/Berlin
    Schedules,            \* per day, the schedules the room may have
    Answers,              \* what an organizer's calendar may answer
    Configs,              \* what /Hawaii.txt may hold
    MaxFaults, MaxChanges \* bounds on failures and on changed schedules

Days == 0 .. LastDay      \* day 0 is 1970-01-01, where an unset clock stands

\* A scheduleItem of the room.  complete: it has a subject and a location.
Item == [start : Nat, end : Nat, complete : BOOLEAN]

\* A scheduleItem of the organizer, by what json_DeserializeUser compares.
OrganizerItem == [isPrivate : BOOLEAN,
                  start     : {"same", "other"},
                  location  : {"same", "other", "null"},
                  subject   : {"text", "null"}]

\* Meeting_struct, without the strings that are only printed.
Entry == [start_timestamp : Nat, end_timestamp : Nat,
          subject : {"text", "PrivaterTermin"}]

Starts(s) == \A m, n \in DOMAIN s : m < n => s[m].start <= s[n].start

ASSUME ClockAssumption ==
    /\ DayLength \in Nat \ {0} /\ LastDay \in Nat
    /\ StartTime \in Nat /\ MaxClock \in Nat /\ Shift \in Nat
    /\ DayLength <= StartTime /\ StartTime <= MaxClock
    /\ MaxClock < DayLength * (LastDay + 1)

DayOf(t) == t \div DayLength

\* getSchedule lists a day's items by start; there are none in 1970.
ASSUME ScheduleAssumption ==
    /\ DOMAIN Schedules = Days
    /\ \A d \in Days : \A s \in Schedules[d] :
         s \in Seq(Item) /\ Starts(s) /\ \A n \in DOMAIN s : DayOf(s[n].start) = d
    /\ Schedules[0] = {<<>>}

ASSUME AnswerAssumption == \A a \in Answers : a \in Seq(OrganizerItem)

ASSUME ConfigAssumption == Configs \subseteq {"ok", "missing", "incomplete", "noSsid"}

ASSUME BudgetAssumption == MaxFaults \in Nat /\ MaxChanges \in Nat

VARIABLES
    \* the world
    clock,       \* the true time
    calendar,    \* per day, the room's schedule
    changes,     \* changes of it so far
    faults,      \* failures so far
    \* what outlives a reset
    config,      \* what /Hawaii.txt holds
    synced,      \* SNTP has set the clock
    screen,      \* the picture on the e-paper
    \* the RAM
    pc, online,
    fetch,       \* which of loop()'s two calls of getJson runs
    token,       \* jsonToken is one Graph accepts
    from, to,    \* the days in the schedule request
    items,       \* the room's items not yet handled, the current one first
    answer,      \* the organizer's items not yet handled
    v_Meetings, title,
    \* for checking only: the items booked at some time, and at every time,
    \* since loop() cleared the list
    seen, steady

ram   == <<pc, online, fetch, token, from, to, items, answer, v_Meetings, title>>
ghost == <<seen, steady>>
world == <<clock, calendar, changes>>
vars  == <<world, faults, config, synced, screen, ram, ghost>>

\* Fault: an unset clock reads as the largest time there is.
DeviceTime_Error == IF synced THEN clock ELSE DayLength * (LastDay + 1)

\* time(nullptr), and the day getTime and getTimejson make of it.
DeviceTime == IF synced THEN clock ELSE 0
Today      == DayOf(DeviceTime)

ItemsOf(d) == {calendar[d][n] : n \in DOMAIN calendar[d]}
Booked     == UNION {ItemsOf(d) : d \in Days}

\* getGraphTimeAsTimestamp: mktime takes Berlin's wall clock for UTC+1.
Timestamp(t) == t + Shift

MakeEntry(item, subject) == [start_timestamp |-> Timestamp(item.start),
                             end_timestamp   |-> Timestamp(item.end),
                             subject         |-> subject]

\* What the panel shows where the code has no meeting, and where it prints
\* memory that holds none.
Dashes  == [start_timestamp |-> -1, end_timestamp |-> -1, subject |-> "text"]
Garbage == [start_timestamp |-> -2, end_timestamp |-> -2, subject |-> "text"]

Printed(v, n) == IF n = None THEN Dashes ELSE IF Wild(v, n) THEN Garbage ELSE At(v, n)

Blank == [title |-> 0, timestamp |-> 0, past |-> Dashes, now |-> Garbage, next |-> Dashes]

Init == /\ clock = StartTime
        /\ calendar \in {c \in [Days -> UNION {Schedules[d] : d \in Days}] :
                            \A d \in Days : c[d] \in Schedules[d]}
        /\ changes = 0 /\ faults = 0
        /\ config \in Configs
        /\ synced = FALSE
        /\ screen = Blank
        /\ pc = "boot" /\ online = FALSE /\ fetch = 1 /\ token = FALSE
        /\ from = None /\ to = None
        /\ items = <<>> /\ answer = <<>> /\ v_Meetings = <<>> /\ title = 0
        /\ seen = {} /\ steady = {}
-----------------------------------------------------------------------------
\* Nothing in RAM survives; execution goes on at p.
LoseRam(p) == /\ pc' = p
              /\ online' = FALSE /\ fetch' = 1 /\ token' = FALSE
              /\ from' = None /\ to' = None
              /\ items' = <<>> /\ answer' = <<>> /\ v_Meetings' = <<>> /\ title' = 0
              /\ seen' = {} /\ steady' = {}

Crash == LoseRam("boot") /\ UNCHANGED <<world, faults, config, synced, screen>>

Failing == faults < MaxFaults /\ faults' = faults + 1

\* The world.
Tick == /\ clock < MaxClock
        /\ clock' = clock + 1
        /\ UNCHANGED <<calendar, changes, faults, config, synced, screen, ram, ghost>>

ChangeCalendar ==
    /\ changes < MaxChanges
    /\ changes' = changes + 1
    /\ \E d \in Days : \E s \in Schedules[d] :
          /\ s # calendar[d]
          /\ calendar' = [calendar EXCEPT ![d] = s]
    /\ IF fetch = 2 THEN seen' = seen \cup Booked' /\ steady' = steady \cap Booked'
                    ELSE UNCHANGED ghost
    /\ UNCHANGED <<clock, faults, config, synced, screen, ram>>

\* time_main only starts SNTP; the answer comes at any later time, or never.
SntpReply == /\ online /\ ~synced
             /\ synced' = TRUE
             /\ UNCHANGED <<world, faults, config, screen, ram, ghost>>

PowerCut == /\ Failing
            /\ synced' = FALSE
            /\ LoseRam("boot")
            /\ UNCHANGED <<world, config, screen>>

\* setup().  Without a configuration it returns early and loop() runs offline.
MountConfig ==
    /\ pc = "boot"
    /\ \/ config \in {"ok", "noSsid"} /\ pc' = "wifi"
       \/ config = "missing" /\ pc' = "token"
    /\ UNCHANGED <<world, faults, config, synced, screen, online, fetch, token, from, to,
                   items, answer, v_Meetings, title, ghost>>

\* SPIFFS.begin(true) formats a file system it cannot mount.
FormatConfig == /\ pc = "boot" /\ Failing
                /\ config' = "missing"
                /\ pc' = "token"
                /\ UNCHANGED <<world, synced, screen, online, fetch, token, from, to,
                               items, answer, v_Meetings, title, ghost>>

\* Raumname, Raumnummer or roomEmail = NULL.
ConfigCrash == pc = "boot" /\ config = "incomplete" /\ Crash

\* while (WiFi.status() != WL_CONNECTED) has no way out but a connection, which
\* a NULL ssid never gets.
WaitForWifi == pc = "wifi" /\ UNCHANGED vars

ConnectWifi == /\ pc = "wifi" /\ config = "ok"
               /\ online' = TRUE
               /\ pc' = "token"
               /\ UNCHANGED <<world, faults, config, synced, screen, fetch, token, from, to,
                              items, answer, v_Meetings, title, ghost>>
-----------------------------------------------------------------------------
\* getJson().
PostToken ==
    /\ pc = "token"
    /\ \/ token' = online /\ UNCHANGED faults
       \/ token' = FALSE /\ Failing
    /\ pc' = "window"
    /\ UNCHANGED <<world, config, synced, screen, online, fetch, from, to,
                   items, answer, v_Meetings, title, ghost>>

\* The request text calls getTimejson twice, in no specified order.
ReadStartDay == /\ pc = "window" /\ from = None
                /\ from' = Today
                /\ UNCHANGED <<world, faults, config, synced, screen, pc, online, fetch, token,
                               to, items, answer, v_Meetings, title, ghost>>

ReadEndDay == /\ pc = "window" /\ to = None
              /\ to' = Today
              /\ UNCHANGED <<world, faults, config, synced, screen, pc, online, fetch, token,
                             from, items, answer, v_Meetings, title, ghost>>

\* Fault: the later day's items come first.
Reply_Swapped(f, t) == IF f = t THEN calendar[f]
                       ELSE IF f # 0 /\ t = f + 1 THEN calendar[t] \o calendar[f]
                       ELSE <<>>

\* Graph refuses a window that ends before it starts or lasts since 1970.
Reply(f, t) == IF f = t THEN calendar[f]
               ELSE IF f # 0 /\ t = f + 1 THEN calendar[f] \o calendar[t]
               ELSE <<>>

\* Without an answer every json_ getter returns NULL and the array has no items.
PostSchedule ==
    /\ pc = "window" /\ from # None /\ to # None
    /\ \/ items' = (IF online /\ token THEN Reply(from, to) ELSE <<>>) /\ UNCHANGED faults
       \/ items' = <<>> /\ Failing
    /\ pc' = "item"
    /\ UNCHANGED <<world, config, synced, screen, online, fetch, token, from, to,
                   answer, v_Meetings, title, ghost>>

PostOrganizer ==
    /\ pc = "item" /\ items # <<>>
    /\ Head(items).complete
    /\ answer' \in Answers
    /\ pc' = "user"
    /\ UNCHANGED <<world, faults, config, synced, screen, online, fetch, token, from, to,
                   items, v_Meetings, title, ghost>>

ItemCrash == pc = "item" /\ items # <<>> /\ ~Head(items).complete /\ Crash

\* json_DeserializeUser on a failed request: scheduleId is NULL.
OrganizerCrash == /\ pc = "item" /\ items # <<>> /\ Head(items).complete
                  /\ Failing
                  /\ LoseRam("boot")
                  /\ UNCHANGED <<world, config, synced, screen>>

\* json_DeserializeUser's loop: a private item counts by its start time, any
\* other by its location, and the entry gets the times of the room's item.
Private(o)   == o.isPrivate
NullField(o) == ~Private(o) /\ (o.location = "null" \/ (o.location = "same" /\ o.subject = "null"))
\* Fault: a private item, too, counts by its location, which it hides.
Matches_LocationOnly(o) == o.location = "same"
Matches(o)   == IF Private(o) THEN o.start = "same" ELSE o.location = "same"

\* Fault: the entry is put in front of the list.
UserItem_Front ==
    /\ pc = "user" /\ answer # <<>>
    /\ LET o == Head(answer)
       IN  /\ ~NullField(o)
           /\ v_Meetings' =
                IF Matches(o)
                  THEN <<MakeEntry(Head(items), "text")>> \o v_Meetings
                  ELSE v_Meetings
    /\ answer' = Tail(answer)
    /\ UNCHANGED <<world, faults, config, synced, screen, pc, online, fetch, token, from, to,
                   items, title, ghost>>

UserItem ==
    /\ pc = "user" /\ answer # <<>>
    /\ LET o == Head(answer)
       IN  /\ ~NullField(o)
           /\ v_Meetings' =
                IF Matches(o)
                  THEN Append(v_Meetings,
                              MakeEntry(Head(items),
                                        IF Private(o) THEN "PrivaterTermin" ELSE "text"))
                  ELSE v_Meetings
    /\ answer' = Tail(answer)
    /\ UNCHANGED <<world, faults, config, synced, screen, pc, online, fetch, token, from, to,
                   items, title, ghost>>

UserCrash == pc = "user" /\ answer # <<>> /\ NullField(Head(answer)) /\ Crash

UserDone == /\ pc = "user" /\ answer = <<>>
            /\ items' = Tail(items)
            /\ pc' = "item"
            /\ UNCHANGED <<world, faults, config, synced, screen, online, fetch, token, from, to,
                           answer, v_Meetings, title, ghost>>
-----------------------------------------------------------------------------
\* Fault: the list is not cleared between the two fetches.
ClearList_Keeps == /\ pc = "item" /\ items = <<>> /\ fetch = 1
                   /\ fetch' = 2 /\ token' = FALSE /\ from' = None /\ to' = None
                   /\ pc' = "token"
                   /\ seen' = Booked /\ steady' = Booked
                   /\ UNCHANGED <<world, faults, config, synced, screen, online,
                                  items, answer, v_Meetings, title>>

\* Fault: the title is the first day of the request.
ReadTitle_OfRequest ==
    /\ pc = "item" /\ items = <<>> /\ fetch = 2
    /\ title' = from
    /\ pc' = "draw"
    /\ UNCHANGED <<world, faults, config, synced, screen, online, fetch, token, from, to,
                   items, answer, v_Meetings, ghost>>

\* Fault: the list is cleared after the second fetch as well.
ReadTitle_ClearsList ==
    /\ pc = "item" /\ items = <<>> /\ fetch = 2
    /\ title' = Today
    /\ v_Meetings' = <<>>
    /\ pc' = "draw"
    /\ UNCHANGED <<world, faults, config, synced, screen, online, fetch, token, from, to,
                   items, answer, ghost>>

\* loop() around the two calls of getJson.
ClearList == /\ pc = "item" /\ items = <<>> /\ fetch = 1
             /\ v_Meetings' = <<>>
             /\ fetch' = 2 /\ token' = FALSE /\ from' = None /\ to' = None
             /\ pc' = "token"
             /\ seen' = Booked /\ steady' = Booked
             /\ UNCHANGED <<world, faults, config, synced, screen, online,
                            items, answer, title>>

ReadTitle == /\ pc = "item" /\ items = <<>> /\ fetch = 2
             /\ title' = Today
             /\ pc' = "draw"
             /\ UNCHANGED <<world, faults, config, synced, screen, online, fetch, token, from, to,
                            items, answer, v_Meetings, ghost>>

\* calender_text as module Panel has it, for the one page of this display.  The
\* panel is driven only if setup() came as far as epaper_setup.
Draw ==
    /\ pc = "draw"
    /\ \E past, now, next \in None .. Len(v_Meetings) :
          /\ Faithful(v_Meetings, [timestamp |-> DeviceTime,
                                   past |-> past, now |-> now, next |-> next])
          /\ screen' = IF online
                         THEN [title |-> title, timestamp |-> DeviceTime,
                               past |-> Printed(v_Meetings, past),
                               now  |-> Printed(v_Meetings, now),
                               next |-> Printed(v_Meetings, next)]
                         ELSE screen
    /\ pc' = "sleep"
    /\ UNCHANGED <<world, faults, config, synced, online, fetch, token, from, to,
                   items, answer, v_Meetings, title, ghost>>

DrawCrash == pc = "draw" /\ Ended(v_Meetings, DeviceTime) = {} /\ Crash

DeepSleep == /\ pc = "sleep"
             /\ LoseRam("asleep")
             /\ UNCHANGED <<world, faults, config, synced, screen>>

\* The timer wakes the chip within one instant of the model.
Wake == /\ pc = "asleep"
        /\ LoseRam("boot")
        /\ UNCHANGED <<world, faults, config, synced, screen>>
-----------------------------------------------------------------------------
World == Tick \/ ChangeCalendar \/ SntpReply \/ PowerCut

Setup == MountConfig \/ FormatConfig \/ ConfigCrash \/ WaitForWifi \/ ConnectWifi

GetJson == \/ PostToken \/ ReadStartDay \/ ReadEndDay \/ PostSchedule
           \/ PostOrganizer \/ ItemCrash \/ OrganizerCrash
           \/ UserItem \/ UserCrash \/ UserDone

Loop == ClearList \/ ReadTitle \/ Draw \/ DrawCrash \/ DeepSleep \/ Wake

Device == Setup \/ GetJson \/ Loop

Next == World \/ Device

Spec == Init /\ [][Next]_vars

\* The chip runs its program and its requests time out; the access point comes
\* back; time goes on; a time server that is asked again and again answers.
Fairness == WF_vars(Device) /\ WF_vars(Tick) /\ SF_vars(SntpReply)

FairSpec == Spec /\ Fairness
-----------------------------------------------------------------------------
Picture == [title : Days, timestamp : Nat, past : Entry \cup {Dashes, Garbage},
            now : Entry \cup {Dashes, Garbage}, next : Entry \cup {Dashes, Garbage}]

TypeOK ==
    /\ clock \in StartTime .. MaxClock
    /\ DOMAIN calendar = Days /\ \A d \in Days : calendar[d] \in Schedules[d]
    /\ changes \in 0 .. MaxChanges /\ faults \in 0 .. MaxFaults
    /\ config \in Configs \cup {"missing"}
    /\ synced \in BOOLEAN
    /\ screen \in Picture
    /\ pc \in {"boot", "wifi", "token", "window", "item", "user", "draw", "sleep", "asleep"}
    /\ online \in BOOLEAN /\ fetch \in {1, 2} /\ token \in BOOLEAN
    /\ from \in Days \cup {None} /\ to \in Days \cup {None}
    /\ items \in Seq(Item) /\ answer \in Seq(OrganizerItem)
    /\ v_Meetings \in Seq(Entry)
    /\ title \in Days
    /\ seen \subseteq Item /\ steady \subseteq seen

\* The entries of a list, and the ones on the screen, that are meetings.
Meetings(v) == {v[n] : n \in DOMAIN v}
OnScreen == {screen.past, screen.now, screen.next} \ {Dashes, Garbage}

\* e was made from the room's item r.
MadeFrom(e, r) == /\ e.start_timestamp = Timestamp(r.start)
                  /\ e.end_timestamp = Timestamp(r.end)

\* main.cpp:289-295.  loop() fetches twice and clears in between; whatever is
\* listed after that was booked at some time since, never only during the
\* first fetch.
ListIsFresh ==
    fetch = 2 => \A e \in Meetings(v_Meetings) : \E r \in seen : MadeFrom(e, r)

\* epaper.cpp:158-196 takes the first match and the last match for the current,
\* the next and the previous meeting, which is right only on a list in order of
\* start: the answers of two fetches, of two days and of the organizers, some
\* of which add no entry or several, must leave it in order.
ListInOrder == \A m, n \in DOMAIN v_Meetings :
                  m < n => v_Meetings[m].start_timestamp <= v_Meetings[n].start_timestamp

\* main.cpp:235,310.  The two days of the request and the date in the title are
\* read at different times, SNTP and midnight in between; still no meeting is
\* shown under a date before its own.
NoMeetingBeforeItsDay ==
    [][screen' # screen =>
         \A e \in OnScreen' : DayOf(e.start_timestamp - Shift) <= screen'.title]_vars

\* epaper.cpp:157 "errechnet den aktuellen Termin".  "Free" is true: no meeting
\* of the day requested, booked all the time since the list was cleared, is
\* running at the instant shown.  Nothing is claimed if midnight came between.
FreeIsTrue ==
    [][screen' # screen /\ screen'.now = Dashes
         /\ from = to /\ from = DayOf(screen'.timestamp) =>
           \A r \in steady :
              DayOf(r.start) = from =>
                 ~(r.start <= screen'.timestamp /\ screen'.timestamp <= r.end)]_vars

\* Once people stop changing the calendar and failures stop, the screen comes to
\* show the calendar as it is and stays so, whatever happened before: provided
\* the configuration survived and some meeting of the day is over.
Final == [n \in DOMAIN calendar[DayOf(clock)] |->
             MakeEntry(calendar[DayOf(clock)][n], "text")]
Settled == /\ config = "ok"
           /\ \A r \in ItemsOf(DayOf(clock)) : r.complete
           /\ Ended(Final, clock) # {}
SameMeeting(a, b) == a.start_timestamp = b.start_timestamp /\ a.end_timestamp = b.end_timestamp
ScreenIsRight ==
    /\ screen.title = DayOf(clock)
    /\ \E past, now, next \in None .. Len(Final) :
          /\ Faithful(Final, [timestamp |-> clock, past |-> past, now |-> now, next |-> next])
          /\ SameMeeting(screen.past, Printed(Final, past))
          /\ SameMeeting(screen.now, Printed(Final, now))
          /\ SameMeeting(screen.next, Printed(Final, next))
ScreenSettles == <>[](Settled => ScreenIsRight)
-----------------------------------------------------------------------------
\* The inductive invariants behind the three properties of the list.  Before
\* the schedule of a fetch arrives the list is empty; after that it stays in
\* order because no entry starts after an item still to be handled.
Early == {"boot", "wifi", "token", "window", "asleep"}

OrderInv ==
    /\ pc \in Early => v_Meetings = <<>>
    /\ Starts(items)
    /\ \A m \in DOMAIN v_Meetings, n \in DOMAIN items :
          v_Meetings[m].start_timestamp <= Timestamp(items[n].start)
    /\ ListInOrder

FreshInv ==
    /\ pc \in Early => v_Meetings = <<>>
    /\ fetch = 2 => Booked \subseteq seen /\ \A n \in DOMAIN items : items[n] \in seen
    /\ ListIsFresh

\* No day the device has read, asked for or been told of is after Today.
DayInv ==
    /\ pc \in Early => v_Meetings = <<>>
    /\ from # None => from <= Today
    /\ to # None => to <= Today
    /\ \A n \in DOMAIN items : DayOf(items[n].start) <= Today
    /\ \A n \in DOMAIN v_Meetings :
          /\ DayOf(v_Meetings[n].start_timestamp - Shift) <= Today
          /\ pc = "draw" => DayOf(v_Meetings[n].start_timestamp - Shift) <= title

FetchInv == OrderInv /\ FreshInv /\ DayInv

\* Every organizer's calendar has the meeting where the room's has it.
HonestAnswers == \A a \in Answers : \E n \in DOMAIN a : Matches(a[n])

Listed(r) == \E n \in DOMAIN v_Meetings : MadeFrom(v_Meetings[n], r)
ToHandle(r) == \E n \in DOMAIN items : items[n] = r

\* The inductive invariant behind FreeIsTrue, given HonestAnswers: once a schedule
\* arrived, what was booked all the time is in the list or still to be handled.
FreeInv ==
    /\ fetch = 1 => steady = {}
    /\ steady \subseteq Booked
    /\ pc \in Early => items = <<>> /\ v_Meetings = <<>>
    /\ pc = "draw" => items = <<>>
    /\ pc = "user" => Listed(items[1]) \/ \E n \in DOMAIN answer : Matches(answer[n])
    /\ (items # <<>> \/ v_Meetings # <<>>) /\ from = to =>
          \A r \in steady : DayOf(r.start) = from => Listed(r) \/ ToHandle(r)
=============================================================================

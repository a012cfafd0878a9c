# MeetingDisplayScreen in TLA+

MeetingDisplayScreen is the firmware of an ESP32 door sign. Every few minutes
it wakes from deep sleep, asks Microsoft Graph for the schedule of one meeting
room, draws the previous, the current and the next meeting on an e-paper panel
and sleeps again. This directory holds TLA+ models of it, the TLC
configurations that check them, and theorems that the TLA+ proof system (TLAPS)
checks.

## 1. Inventory

| component | code | state | operations | modelled in |
|---|---|---|---|---|
| device cycle | `src/main.cpp` `setup`, `loop` | where execution is, WiFi, configuration in `/Hawaii.txt`, `jsonToken`, `v_Meetings` | mount, connect, fetch, clear, fetch, draw, sleep, wake; resets, power cuts | `MeetingDisplay` |
| fetching the schedule | `src/main.cpp` `getJson`, `json_DeserializeUser`, `postRequest` | the two JSON arrays walked, the request's days | token, schedule, one request per item to its organizer | `MeetingDisplay` |
| device clock | `src/Albeto_time.cpp`, `getGraphTimeAsTimestamp` | set or unset (1970) | start SNTP, be set later, read the day | `MeetingDisplay` |
| choosing and drawing | `src/epaper.cpp` `calender_text` | three counters, three indices, one timestamp per page | three walks over `v_Meetings`, page loop | `CalenderText`, promise in `Panel`, selection in `Selection` |
| panel set-up | `src/epaper.cpp` `epaper_setup` | the picture | initialise, refresh | in part, `MeetingDisplay` |
| parson JSON tree | `src/parson.c` | values, parents, capacities, blocks of memory | parse, serialize, get, set, dotset, append, replace, remove, clear, copy, compare, free | `ParsonTree`, `ParsonDoc`, promise in `JsonDoc` |
| MQTT client | `lib/MQTT/src/MQTTClient.cpp`, `lwmqtt/client.c` | network, session, packet identifiers, timers | connect, publish, subscribe, unsubscribe, loop, disconnect | `MqttClient`, promise in `MqttCalls`, the timers' arithmetic in `MqttTimer` |
| MQTT packet codec | `lib/MQTT/src/lwmqtt/packet.c`, `helpers.c`, `string.c` | the two buffers, positions in them | encode, read from the network, decode | `LwmqttCodec` |
| NTPClient | `lib/NTPClient-master/NTPClient.cpp` | last answer, `millis` of it | update, forceUpdate, setEpochTime, end, getEpochTime, getFormattedDate | `NtpClient`, the calendar in `NtpDate` |
| texts and fonts | `get_formated_time`, cursor positions | none | formatting | no: layout |
| `JsonSetup` | `src/json_Deserialize.cpp` | | dead code; `setup` holds a copy, which is modelled | no |

How they interact. `setup` and `loop` run in one task. `getJson` pushes into
the global vector `v_Meetings`, which `calender_text` reads later in the same
task. SNTP runs in another task and sets the clock at any time after `setup`
started it; `getTime`, `getTimejson` and `calender_text` read that clock, at
different moments of one cycle. `esp_deep_sleep_start` loses the RAM but not the
clock; waking is a reboot into `setup`. The e-paper shows its last picture
whatever happens to the chip. `getJson` and `setup` parse each answer and the
configuration with parson, read members and free the tree; they use no other of
its calls. `main.cpp` links the MQTT and NTP libraries but calls neither.

What is hard about it:

* the clock is unset at power-on and set asynchronously, so two readings in one
  cycle may differ by decades, or by a day at midnight;
* the list comes from many requests, any of which may fail, made while people
  go on booking;
* a missing JSON member is a NULL handed to `std::string`, which resets the
  chip in the middle of the cycle;
* `for (size_t k = size() - 1; k >= 0; k--)` (epaper.cpp:186) has no exit but
  a match, so on a list with nothing over it reads memory before the vector;
* MQTT acknowledgements carry identifiers that lwmqtt decodes and never
  compares; links break half open, and only the keep alive notices;
* NTP answers come late, twice or not at all, and carry nothing that ties them
  to a request;
* every call of parson may run out of memory at each of its allocations, with a
  tree half built, and ownership of a value passes with the call that succeeds;
* nobody looks at the device: a cycle that goes wrong must be repaired by the
  next ones.

What makes it correct: the page shows the meetings of one instant; the list
holds what is booked, once, in order; no meeting is shown under a date before
its own; "Free" is true; after any disturbance the screen becomes right again.
An MQTT call that returns true was performed, once; a message is acknowledged
only when the callback has it. The NTP clock is off by no more than the delays
explain. A JSON value has one owner; a call of parson does what it says or changes
nothing, and no memory is lost either way.

## 2. Modules

`Selection` says which meetings are running, upcoming and over at an instant,
as sets of indices, and what a page must show of them (`Faithful`). It has no
variables.

`Panel` is the abstract specification of one call of `calender_text`: a page
shows one instant's meetings, instants do not go back, and a reset needs an
instant at which no listed meeting is over.

`CalenderText` is `calender_text` itself, one action per loop iteration:

| action | code (`src/epaper.cpp`) |
|---|---|
| `BeginPage` | the page's `time(nullptr)` and the initial values, 123-155 |
| `WalkNow`, `WalkNext` | an iteration of the forward walks, 157-183 |
| `WalkPast` | an iteration of the backward walk inside the vector, 185-196 |
| `WalkPastWild`, `WalkPastFault` | the same outside the vector: any value, or a reset |
| `Draw`, `DrawFault` | printing the page, 198-253, and the reset of printing from a wild index |
| `Tick` | time passes, also between the iterations |

`size_t` is modelled modulo `SIZE_MAX + 1` (`Wrap`), the conversion to `int` by
`AsInt`. Undefined reads are a choice: each may match, not match or reset the
chip, and it must reset once `Mapped` elements of memory below the vector are
used up.

`MeetingDisplay` is the device. Its state is split as the hardware splits it:
what outlives a reset (`config`, `synced`, `screen`), and the RAM, which
`LoseRam` clears. Its actions are the requests (`PostToken`, `PostSchedule`,
`PostOrganizer`), the readings of the day (`ReadStartDay`, `ReadEndDay`,
`ReadTitle`, in the order or the absence of order the code gives them), one
iteration of each loop (`UserItem`, `UserDone`), the steps of `setup` and
`loop`, the resets of NULL members (`ConfigCrash`, `ItemCrash`,
`OrganizerCrash`, `UserCrash`, `DrawCrash`), and the world's steps (`Tick`,
`ChangeCalendar`, `SntpReply`, `PowerCut`). `Draw` takes what `Panel` promises
of `calender_text`; that `calender_text` keeps this promise is a theorem
(`Implements`). The display has one page (`Pages = 1` in the code's full-buffer
case), so `Draw` makes one.

A time is an instant; the day of an instant is `t \div DayLength`, and day 0 is
1970-01-01, where an unset clock stands. Strings are what the code compares:
an organizer's item has the same start or another, the same location, another
or none. `Shift` is the error of `getGraphTimeAsTimestamp`, which adds one hour
all year round. `seen` and `steady` are for checking only: the items booked at
some time, and at every time, since `loop` cleared the list.

`MqttCalls` is the abstract specification of `publish`, `subscribe` and
`unsubscribe`: a call is performed at most once, after it was made, and one that
returns true was performed.

`MqttClient` is the wrapper and lwmqtt together, against a broker. A call is
`Command` (write one packet, wait) and then one action per packet read in
`lwmqtt_cycle_until`:

| action | code |
|---|---|
| `Connect`, `ConnectRefused`, `ConnectUnwritten`, `ConnectSkip` | `MQTTClient::connect` and its two early ends |
| `Command`, `CommandFails` | `publish`, `subscribe`, `unsubscribe` up to the wait |
| `ReadRequest`, `AnswerFails`, `ReadOther` | `lwmqtt_cycle` for what is not awaited |
| `ReadNeedle`, `ReadRefusal`, `ReadFails`, `GiveUp` | the four ends of a call |
| `Loop`, `YieldEnds`, `NoPingDue`, `Ping`, `PingFails`, `PongTimeout` | `MQTTClient::loop`, `lwmqtt_keep_alive` |
| `TimerExpires`, `PingDue` | the two timers |
| `Break`, `LinkDown`, `Reboot` | the link goes, the socket notices, the device restarts |
| the broker's actions | MQTT 3.1.1 as the client relies on it (external) |

Every error of lwmqtt ends in `close()` (`Fail`). `toBroker` holds what was
written on all connections, with an `OPEN` in front of each, because the broker
may still be at work on an old connection when a new one is opened; it answers
on the latest only. The program calls from one task, the callback makes no
calls (the library's README asks for that), the keep alive interval is not 0.
`lwmqtt_drain_network` is compiled but the wrapper never enables it. The timers
are flags that run out at any moment.

`MqttTimer` is what these flags stand for: `lwmqtt_arduino_timer_set` and
`lwmqtt_arduino_timer_get` in unsigned words that roll over (`Since`) and the
signed one that is returned (`AsInt`). Like `NtpClient` it extends `Board`, the
clock whose roll-overs both libraries see as `millis()`; `MCNtpClient` puts them on
one board.

`NtpClient` is `NTPClient` with requests and answers on their way, a socket
that queues, a `millis()` that wraps and a server whose seconds count from 1900.
Time is counted in polls of 10 ms: `Poll`, `GiveUp` and `Accept` are one
iteration of the loop in `forceUpdate`.

`NtpDate` is the calendar of `getFormattedDate`: its two loops as a
recursive function (`InYear`) and as the days left at the first of each month
(`InMonth`), against the day numbers of the Gregorian rule
(`Ordinal`). It extends `NtpClient`, whose `getEpochTime` it prints, with the offset
of `setTimeOffset`. `CountedOff` is what the loops leave, `getFormattedDate` what is
printed: of a month below 10 that is text from somewhere behind the literal `"0"`
(`MonthText`). `DateIsCounted` therefore speaks of the printed year and day and of the
counted month, and says nothing of the text of the month (section 5).

`LwmqttCodec` is one packet: written with the length that was added up before
(`Encode`, `EncodeFails`), or sent by the broker as any sequence of bytes
(`Receive`), read byte by byte until its length is known and then as a whole
(`ReadHeader`, `ReadLength`, `ReadRest`, `TooLong`, `ReadStops`), and decoded
(`Decode`). The writing functions are sequences of bytes (`Packet`, `Varnum`,
`Str`), the reading ones a cursor with an end that every read checks (`Need`). A
header byte is a record of its fields, and the flags of `CONNECT` are one byte
whose value does not matter; all other bytes are numbers. `Inputs` may be any
packets of the kinds defined there (`Connects` to `Arrivals`, by `InputAssumption`), with
texts of any length: TLC is given a few of them, the theorems hold for all.

`JsonDoc` is the abstract specification of parson: documents as a language with a
garbage collector would keep them. Its variables are what each value holds
(`content`), which values the program owns (`held`) and whether the last call
succeeded (`ok`). A call does what its name says or fails and changes nothing, and
what the program can no longer reach is gone (`Becomes`): what is left is the least set
of values that has the roots and is closed under members (`Reach`). A dotted name leads
along the objects that are there and new ones from where a part is missing (`Roads`).

`ParsonTree` is `parson.c`. A state is the heap (`node`: a value at each address,
with its parent, its members in their order and its capacity), the number of
`blocks` allocated, and `held` and `ok`. Within a call the heap is passed on in a
record `h` with the memory and the text that are left; the functions of `parson.c`
have their names there, and each error path frees what that path of the code
frees. The code calls itself to free, copy, parse and store below a dotted name:
there a function of the heap stands for the inner calls, by the levels of the
document, the levels left of `MAX_NESTING` or the parts of the name, and a loop is a
function of its rounds. An action is a call of the interface:

| action | code (`src/parson.c`) |
|---|---|
| `Create` | `json_value_init_object`, `_array`, `_string`, `_number`, `_boolean`, `_null` |
| `SetValue`, `SetNew` | `json_object_set_value`, `json_object_set_string` and its like |
| `DotSet`, `DotSetNew` | `json_object_dotset_value`, `json_object_dotset_string` and its like |
| `RemoveMember`, `DotRemove` | `json_object_remove`, `json_object_dotremove` |
| `AppendValue`, `AppendNew` | `json_array_append_value`, `json_array_append_string` and its like |
| `ReplaceValue`, `ReplaceNew`, `RemoveItem` | `json_array_replace_value`, `..._string` and its like, `json_array_remove` |
| `Clear` | `json_object_clear`, `json_array_clear` |
| `Copy`, `Parse`, `FreeValue` | `json_value_deep_copy`, `json_parse_string`, `json_value_free` |

Each is made with any live value, also one that is in a tree already, and ends as
with plenty of memory or with none left for any one of its allocations
(`Outcomes`); to be out of addresses is to be out of memory. Allocations that the
code undoes together are made together. A string that is not UTF-8 and a number
that is not finite fail as a failed allocation does. Addresses are model values
and alike, so it does not matter which free one `malloc` gives. A parent that was
freed is only ever compared with NULL, and becomes `Stale`. A name is the sequence
of its parts between dots, a text a sequence of tokens, strings and numbers are
model data. That a value is not put below itself is an assumption on the program
(`NotBelow`); the code does not look.

At its end are the documents that the program sees in the heap (`content`), by what the
accessors of a value return (`Holds`), and with them the refinement of `JsonDoc`.

`ParsonDoc` extends it with the calls that change nothing, writing (`Serialize`) and
comparing (`json_value_equals`), and with what it is for two documents to be the same
(`Same`): recursive operators, which the theorems do not need.

`MCCalenderText`, `MCMeetingDisplay`, `MCMqttClient`, `MCNtpClient`,
`MCLwmqttCodec` and `MCParsonTree` give the constants for TLC;
`CalenderText_proofs`, `MeetingDisplay_proofs`, `MqttClient_proofs`, `Clock_proofs` (of
`NtpClient`, `NtpDate` and `MqttTimer`), `LwmqttCodec_proofs`, `ParsonTree_proofs` and
`JsonDoc_proofs` hold the theorems, and `Numbers_proofs` the lemmas about numbers that
they share.

## 3. Runs

| run | checks | shows | states, time |
|---|---|---|---|
| `calender_text` | `TypeOK`, `WalkInv`, `NothingSkipped`, `PanelPromise`, `CallEnds` | the loops implement `Panel`; in a disjoint list nothing is left out; the call ends | 108 000, 5 s |
| `calender_text_past` | `PastIsLastEnded` is violated | see findings | |
| `fetch` | `TypeOK`, `ListIsFresh`, `ListInOrder`, `FetchInv`, `NoMeetingBeforeItsDay` | the list after every mix of failures, bookings, SNTP, midnight, configurations | 945 000, 15 s |
| `free_summer` | `FreeIsTrue` is violated | `settle` needs its assumption on the time zone; see findings | |
| `settle` | `FreeIsTrue`, `ScreenSettles` | in winter and with honest organizers no booked room is shown as free, failures included; after the last change of the calendar, also of the day shown at the end, and the last failure the screen comes to show it | 913 000, 150 s |
| `mqtt` | `TypeOK`, `AckIsOwn`, `ConnectedIsInitiated`, `PongIsRead`, `CallsPromise` | an awaited acknowledgement is always the call's own, although nothing compares it; the calls implement `MqttCalls`; a pong that is there is read before it is missed | 952 000, 20 s |
| `mqtt_kept` | `AckedIsHandled`, `PublishedIsPerformed`, `CallsReturn`, `DeadIsNoticed` | with a session the broker keeps over a broken link: nothing is acknowledged that the callback did not get; every call returns; `loop()` alone notices a dead link | 558 000, 50 s |
| `mqtt_lost` | `PublishedIsPerformed` is violated | a restart breaks it; see findings | |
| `ntp` | `TypeOK`, `EpochIsClose`, `FreshIsExact`, `ReturnsInTime`, `DateIsCounted`, `TimerIsKept` | how slow and how fast the clock may be; `forceUpdate` returns in time; year, month and day are counted off as the calendar's (the text of the month is left out); no timer runs out early or more than a millisecond late | 198 000, 60 s |
| `codec` | `TypeOK`, `AnnouncedIsWritten`, `RoundTrip`, `OwnBytesOnly` | lengths agree with what is written, in each kind of packet; what was written is read back; no decoder leaves its packet, whatever the broker sent | 975 000, 10 s |
| `codec_suback` | `GrantedFit` is violated | see findings | |
| `parson` | `TypeOK`, `TreeInv`, `NothingLost`, `EqualsIsSame`, `RoundTrip`, `DotNamesAgree`, `NewIsTold`, `Promise` | whichever allocation fails, every value has one owner and one parent and no block is lost; the calls implement `JsonDoc`; what is written, copied, compared or reached by a dotted name is the same document (numbers closer than `EPSILON` compare as equal) | 119 000, 220 s |

Bounds and why they are enough.

* `CalenderText`: every list of up to two meetings between three instants, in
  any order, overlapping or empty, and every sub-list of a day of three
  back-to-back meetings. Two meetings give every relation of two intervals to
  each other and to the clock, three give one that is neither first nor last.
  `SIZE_MAX = 15` and `Mapped = 3` make the wrap and the walk below the vector
  happen; two pages let time pass between them. Deadlock is not checked: the
  call ends. The theorems hold for every list and every bound.
* `MeetingDisplay`: three days of four instants (1970, today, tomorrow), so
  that midnight, SNTP and the cycle interleave; two meetings that touch; one
  fault and one change of the calendar in `fetch`, one fault and two changes in
  `settle`, so that a meeting can be booked and cancelled in one cycle. In `settle`
  either day has two schedules (`MCChangingSchedules`): the changes may fall on
  the day the clock ends in, before or after that instant, and the screen has two
  pictures to settle on, one with the room free and one with a meeting in it.
  A cycle has no counter: a second fault meets the states the first one leaves.
  `MaxClock` bounds the clock, `MaxFaults` the failures, `MaxChanges` the
  changes.
* `MqttClient`: two calls, the second of which meets whatever the first left
  behind; `MaxPacketId = 2`, so that the identifier wraps between them; one
  incoming QoS 2 message, and in `mqtt_kept` one of QoS 1 that does not fit into
  the read buffer, so that it closes every connection it is sent on; one broken
  link and, in `mqtt`, one restart. `MaxQueue` bounds what the program writes ahead
  of the broker at a connect; a call waits for its answer, so more cannot
  gather. `mqtt_kept` uses identifiers that do not wrap: with a kept session
  and a wrap the identifier of an unreleased message comes round again, as it
  does after a restart.
* `NtpClient`: two requests, so that an answer can be late for one and early for
  the other; 17 polls over a `millis()` that wraps after 14 and an era that ends
  after 16 seconds, with 3 polls a second as the code has 100.
* `LwmqttCodec`: a byte holds three values and a top bit instead of 128, and a
  length has up to four bytes, as in the code. The packets written are every
  `PUBLISH`, `CONNECT`, `SUBSCRIBE`, `UNSUBSCRIBE` and acknowledgement of strings
  of up to two bytes, with in addition a topic that needs a length of two bytes, one
  longer than a string's length can say, a user name and a password that this length
  cuts to nothing (and which are then not sent), and payloads at the largest length that
  can be written and one above; the bytes read are all sequences of five after each
  header. One buffer is too small for most of this, one is large enough. Deadlock
  is not checked: a packet is done or refused.
* `MqttTimer`: every timeout and every start of a timer over a `millis()` that
  wraps after 14. The theorem holds for words of any width.
* `NtpDate`: a second stands for a day, and the offsets for the years that the
  short era leaves out: the days around the end of every month of 1971, and of
  February and December of 1972, 2000 and 2100. To get there the loop passes through
  every year and month before.
* `ParsonTree`: four values at a time, of which the program owns two: enough for
  the new object of a dotted name with a member, and for a second document to copy
  or to put in. Three members make an array grow twice from `StartCapacity = 1`
  (16 in the code). `MaxNesting = 2`, with texts at that depth and one deeper. One
  plain and one dotted name, one scalar and twelve texts, of which each wrong one
  leaves the parser by an exit of its own. The scalar is the number 1; strings and the
  numbers 0 and 2 come from the texts, and with `Epsilon = 2` each of these is near 1 but
  they are not near each other, on their own and within arrays. `Plenty` is above what
  any call allocates. Any sequence of calls is run, so a third document or a longer name
  meets only what these have left. Addresses are symmetric, which is sound as
  nothing orders them and no property is a liveness property.

Fairness. `CalenderText` assumes weak fairness of the task's steps only, and
nothing of the clock. `MeetingDisplay`'s `FairSpec`, used by `settle` alone,
assumes that the chip executes its program and `HTTPClient`'s requests time out
(WF of `Device`; this includes that the access point comes back, since `setup`
waits for it without limit), that time passes (WF of `Tick`), and that a time
server asked in every cycle answers in some (SF of `SntpReply`: it is enabled
only while the chip is awake and online, so weak fairness would promise
nothing). Failures and bookings are not fair, and end because they are
bounded, which is what "after the last failure" means. `ScreenSettles` is
claimed only with an intact configuration and when some meeting of the day is
over: without one `calender_text` may reset the chip in every cycle. A `NULL` or wrong
SSID holds the device in `setup` for ever (main.cpp:85); `WaitForWifi` models that, no
property rules it out, and it is listed as a hazard without one.
`MqttClient`'s `FairSpec`, used by `mqtt_kept`, assumes that a call under way is
executed (WF of `InCall`), that the two timers run out (WF of `TimerExpires`,
`PingDue`) and that the program calls `loop()` again and again, as the
library's README tells it to (WF of `Loop`). Nothing is assumed of the broker or
of the link, not even that a broken link is ever reported.

## 4. Proofs

All for every value of the constants, under the assumptions the modules name.

`CalenderText_proofs`, from `ListsAssumption` (the lists are sequences of
meetings), `WidthAssumption` (no vector fills half the address space) and
`BoundsAssumption`:

* `TypeCorrect`: `Spec => []TypeOK`.
* `WalksCorrect`: `Spec => []WalkInv`. `WalkInv` is the loop invariant of the
  three walks: no index before `i` (before `j`) matches, no index after `k` is
  over, and the page's instant lies between the last page's and the clock. It is
  needed because the promise relates values found in different iterations.
* `Implements`: `Spec => PanelPromise`, step by step from `WalkInv`: `Draw` is
  a `DrawPage`, the faults are a `Reset`, the walks stutter.
* `PagesAreFaithful`, `NoMeetingSkipped`: what a reader of the pages gets from
  it, the second for every disjoint list.

`MeetingDisplay_proofs`, from `ClockAssumption`, `ScheduleAssumption` (a day's
schedule is in order of start and of that day; none in 1970),
`AnswerAssumption`, `ConfigAssumption` and `BudgetAssumption`:

* `TypeCorrect`: from `TypeInv`, which adds to `TypeOK` that an item is being
  handled while its organizer's answer is.
* `ListStaysInOrder`: from `OrderInv`. Order alone is not inductive: an entry
  is appended per organizer item, so one must know that no entry starts after
  an item still to be handled, and that the list is empty before a schedule
  arrives.
* `ListStaysFresh`: from `FreshInv`: the items still to be handled, and all
  that is booked, were seen since the clear.
* `FetchStaysSound`: `Spec => []FetchInv`, this invariant and the next one together.
* `NeverBeforeItsDay`: from `DayInv`: no day the device has read, asked for or
  been told of is after the day its clock shows now. The clock never goes back
  and only jumps forward, which is where the argument rests.
* `FreeRoomIsFree`: `Spec => FreeIsTrue` when, besides, `Shift = 0` (winter) and
  `HonestAnswers`, both in the theorem itself, from `FreeInv`: once a schedule has
  arrived, each of its items that stayed booked is in the list, or still to be
  handled, or is being handled by an answer that has a match left. Failures need
  no case of their own: they leave an empty list, for which the panel shows no
  "Free". `free_summer` shows that the first assumption is needed.

`MqttClient_proofs`, from the assumptions on identifiers, calls, messages, queue and
faults in `MqttClient`:

* `TypeCorrect`: from `TypeInv`, which adds to `TypeOK` what the packets of each
  direction hold: without it the client could not tell the broker's message by its
  number, nor the broker store an identifier.
* `ConnectedMeansInitiated`, from `SkipMode = FALSE`: `ConnectedIsInitiated`, from
  `InitiatedInv`: a network that counts as connected before the broker's `CONNACK`
  is that of the `connect()` under way. It is stated without `skip` because with it
  the code breaks it (see "Noticed" below).
* `NoPongOverlooked`: `PongIsRead`, from `PongInv`: a pong that was there when
  `loop()` counted what is available has been read or is among those still to be
  read, unless the link is gone.
* `NothingConfirmedUnseen`: `AckedIsHandled`, from `HandledInv`: an acknowledgement
  of an incoming message on its way, and each later step of its delivery, is of one
  that the callback got.

Of the calls and what `MqttCalls` promises of them, from the same:

* `OnlyOwnAnswers`: `AckIsOwn`. The client takes the next acknowledgement of the
  right type and compares no identifier; what makes it the right one is `TokenInv`:
  of the packets that ask for an acknowledgement, and of the acknowledgements, at
  most one is under way on the connection, and it belongs to the call that waits.
  Every error closes the network, so nothing of a call outlives it (`ClosedIsEmpty`).
* `TrueMeansPerformed` and `CallsAreKept`, from `NoReuse`: the session is clean, which
  is the default of `MQTTClient`, or the device does not restart and the
  identifiers do not wrap. `mqtt_lost` shows that the hypothesis is needed. They say
  `PublishedIsPerformed`, and `Spec => CallsPromise`: `MqttClient` implements
  `MqttCalls`, step by step (a call that is made is a `Begin`, the packet that the broker
  acts on a `Perform`, the end of a call a `Return`; all else stutters). They rest on three more invariants. `CallInv`: a call is pending
  exactly while it waits, one that was not made was not performed, and one that is
  queued is queued once and not performed yet. `StoredInv`: in a clean session the
  broker holds no identifier but that of the call that waits, and that only until its
  release is answered (`StoredClean`); in a kept one what it holds is neither queued
  again nor still to be given out (`StoredKept`). This is where reuse would break it.
  `DoneInv`: an acknowledgement or a `PUBREL` under way means that the broker has
  performed the call.

`Clock_proofs`, from `BoardAssumption`, `UnitAssumption`, `TimeAssumption`,
`DayAssumption` and `HalfAssumption`:

* `TypeIsKept` and `UpdateReturns`: `TypeOK` and `ReturnsInTime`, from `WaitInv`: while
  `forceUpdate()` waits, the counter in its byte is the time since the request.
* `ClockIsClose` and `FreshClockIsExact`: `EpochIsClose` and `FreshIsExact`, for every
  loss, doubling and delay and every width of `millis()`. The invariant follows an
  answer: the server stamped it between its request and now, an answer that arrives is
  at most `MaxDelay` old, and so is all that the socket gets after the request
  that emptied it (`AskedInv`, `AnswersInv`, `UdpInv`). Of the time in use, `lastUpdate`
  is what `millis()` showed a poll before its request, and `currentEpoc` the
  seconds of a time near that request (`TimeInv`). That the two words add up
  to the right seconds in spite of both wraps is arithmetic (`PollsAreCounted`,
  `SecondsAddUp`, `LagIsBounded`), from quotient and rest being unique.
* The proof found that `TimeAssumption` allowed too much: a clock that is fast by the
  wait for an answer reaches the end of the era before the true time does, and starts
  again from 0. The bound on the true time now stays that wait below the end of the
  era, in the year 2106.
* `CalendarIsCounted`: `DateIsCounted`, for every offset and every day from 1970 on. The
  years and the months of the code are as long as those of the Gregorian rule
  (`YearsAddUp`, `MonthsAddUp`), so a day is in one year only (`YearIsUnique`). That
  the function of years satisfies its recursive equation, and is the only one that does,
  is shown with that closed form and a least number of days for which it would
  fail (`CountedSatisfies`, `InYearIs`); the loop of months the same way
  (`LeftIs`, `InMonthIs`). It ends in the year because fewer days are left than
  the year has.
* `TimersAreKept`: `TimerIsKept` for every width of `millis()`, from what the
  unsigned difference and the sign of the result are. It is why `MqttClient` may
  take the timers for flags, and why `TimerExpires` may be fair.

`LwmqttCodec_proofs`, from `NumberAssumption`, `BufferAssumption` and `InputAssumption`:

* `CodecTypesAreKept`, `LengthIsTrue` and `DecodersKeepToThePacket`: `TypeOK`,
  `AnnouncedIsWritten` and `OwnBytesOnly`, from `ReadInv`, which says how much of a packet
  the buffer holds in every phase (`Shape`): while the length is read every byte after
  the first has its top bit set, and there are at most five in all; then one byte
  without it ends them; then there are as many more as they say. It is needed because
  the decoders are told the end of the buffer, not of the packet: that they stop
  in time (`DecodeStaysInside`) follows from what was read before. `LengthIsTrue` speaks
  of every packet at the moment it has been written, publishes and acknowledgements
  included (`WrittenInv` says of those that they are whole), and rests on `BodyIsCounted`, for each kind of packet by the parts that the code adds up and
  strings together in two places, and on `VarnumIsRead`: a length's bytes are read as the
  length.
* `WhatIsSentIsRead`: `RoundTrip`, from `SentInv` besides: the buffer is the
  beginning of the packet that was sent and the stream the rest of it, so the end of the
  length is found where it is, neither limit is exceeded, and what is decoded is the
  whole packet (`PacketIsReadBack`).

`ParsonTree_proofs`, from `ValuesAssumption`, `BoundsAssumption`, `NamesAssumption`,
`ScalarsAssumption` and `TextsAssumption`, thus for any number of values, names, scalars
and texts and any depth of nesting:

* `TypeCorrect`, `Trees` and `NoLeak`: `TypeOK`, `TreeInv` and `NothingLost`, all from one
  invariant, `IInv`. It says that the heap is `Sound` with the roots `held`: the values
  that exist are a forest (`Forest`: whatever holds the roots and is closed under
  members holds every value, and each member has its container as its parent), each
  container fits its arrays (`Fits`), and `blocks` is the `Weight` of the nodes. It is needed because
  `TreeInv` counts places, which no call keeps track of: a call changes the
  members of one container and the parent of one value, and that all else is
  reached as before is what `Forest` gives.
* A heap in the middle of a call is `Sound` too, but with more roots: the value that was
  made and is not added yet, the container that is being filled. What each function
  of parson does is thus said of any sound heap: it succeeds with one new root (
  `Copied`, `Parsed`) or with one root less, or it fails, and then the roots are the old ones and no
  block is lost but a key with `\u0000`. For the functions that call
  themselves this is shown of the tables that stand for them, for each number of
  levels from the one before it.
* The longest argument is the dotted name's: when the new object of a missing part
  cannot be added, what was stored in it must be taken out again, or the caller's value
  would be freed with it. That `json_object_dotremove` finds it there, under the rest
  of the name, is `UndoIs`.
* `DottedNames`: `DotNamesAgree`, from the same invariant: what dotset leaves is found
  by dotget (`DotSetStored`), level by level of the name from its last part up.

`JsonDoc_proofs`, from the same and the invariant `IInv`:

* `DocumentsAreKept`: `Spec => Promise`, parson implements `JsonDoc`. A heap tells a
  document (`Tells`) when what each of its values holds is what the document says, and
  since the heap is a forest its values are what the roots reach (`ReachIs`): that nothing
  is freed too early or too late is thus said by `Sound` already (`EndedIs`). A call that
  fails need not be shown to undo what it did, only to leave every value that is there
  before and after as it was (`Spares`): with the same roots it then has the same values
  (`SparedIs`). What remains is, for each call that succeeds, the one container that is
  changed and what is in it now: `Puts` for a member that is added or replaced,
  `Removes`, `Itemed` for arrays, by their places although objects swap members about
  when one is removed. A dotted name changes a whole road of objects, some made on the way
  in an order that is not the one in which they are linked (`Walked`); that these are
  the objects of a road of `JsonDoc`, and that undoing the attempt spares all else,
  is shown by the parts of the name from the last one up (`PartsAreWalked`).

`Numbers_proofs` holds what these share: a least element of a set of numbers, quotient
and rest, and `TableExists`: a table of which each entry is computed from the one before
exists. With it the sum over a list of filters (`TotalIsSum`) can be reasoned about; the
library's theorems on induction and recursion take operators as parameters.

Only model-checked: the liveness properties `CallEnds`, `ScreenSettles`, `CallsReturn`
and `DeadIsNoticed`, which are out of the prover's reach; and of parson what is said
with `ParsonDoc`, whose `Serialize` and `json_value_equals` are recursive operators:
`EqualsIsSame`, `RoundTrip` and `NewIsTold`. `Promise` says of a call that makes a value
only that it makes a new document and touches no other (`Adopt`); that a copy or what was
parsed is the document asked for is what `NewIsTold` checks.

## 5. Findings

* `calender_text_past`: while no listed meeting is over, the backward walk does
  not leave `meeting_past` at -1 but goes on before the vector and may print
  memory as the previous meeting, or reset the chip.
* `free_summer`: `getGraphTimeAsTimestamp` takes Berlin's wall clock for UTC+1
  all year; in summer time the room is shown as free while its meeting runs.
* `mqtt_lost`: identifiers start at 1 again after a restart. With
  `setCleanSession(false)` the broker may still hold one of them unreleased; a
  QoS 2 publish that uses it is taken for a repetition, returns true and is lost.
* `codec_suback`: `lwmqtt_decode_suback` stores `max_count + 1` values before it
  notices that there are too many. lwmqtt's caller has room for as many as it asked
  filters.

Noticed and given no run:

* Device: a meeting enters the list only through its organizer's own calendar,
  when that names the room's location (main.cpp:155). A booked room whose
  organizer's item names another is shown as free; `HonestAnswers` excludes it.
* MQTT: `_connected` is cleared by `close()` only, so after a lost link a network
  that the program opens itself for `connect(..., skip)` counts as connected before
  `CONNECT` (`ConnectedIsInitiated` is checked without `skip`). `varnum_length` is
  one short at 2097151 and refuses the largest length (helpers.c:160-163), and
  only the refusal has an effect. `decode_connack` reads the session flag from bit
  7 where MQTT has bit 0, and its caller drops it. A timer that ran out has time
  left again after another 2^31 milliseconds.
* NTP: `"0" + (month)` (NTPClient.cpp:193) adds to an address, so that
  `getFormattedDate` prints no month before October, where NTPClient.h:92-93 promises
  "formatted to ISO 8601 like `2004-02-12T15:19:21+00:00`"; for that date the month is
  whatever lies behind the literal. One line shows it, and `DateIsCounted` leaves the
  text of the month out by name. Without an argument it reads the clock twice, and
  across midnight the result is a day early.
* parson: `json_value_equals` takes numbers closer than 0.000001 for equal
  (parson.c:2128, the comment says `EPSILON`; parson.h:98 says nothing of it).
  `EqualsIsSame` says the same, with `Epsilon`: the comparison is that of documents but
  for such numbers, and three documents may be equal in pairs without the first being
  equal to the last. When `json_object_dotset_value` fails late, the value it leaves to the
  caller keeps the freed object as its parent, and no later call takes it
  (parson.c:1926). A key with an embedded `\u0000` is not freed (744), which
  `NothingLost` allows for. A value can be put below itself (1757), and freeing it
  then does not end. The serializer writes deeper than the parser reads, as
  `RoundTrip` says. An object's last member takes the place of the one removed
  (455), so removing by an index that counts up skips one. `remove_comments` looks
  for `/*` before the lines that start with `//` are gone.

## 6. Not modelled

Fonts, positions, texts, `get_formated_time` (layout); the display controller's
memory behind `display.refresh()` (hardware); TLS and HTTP (external; a request
answers or fails); heap exhaustion. `initialize_sntp`, `obtain_time` and
`JsonSetup` are never called. Of `NTPClient`, `isValid` (an outcome) and the
formatting of a time of day; that `setEpochTime` sets the seconds without the
moment they count from, so that the time read back is later than the time set, is
plain from its one line and no run is spent on it. Of the MQTT wrapper, the
setters: they store what the constants of `MqttClient` are. Of parson, files,
comments, `json_validate`, pretty printing, escapes and UTF-8, the digits of
numbers and `json_set_allocation_functions`. The length that parson computes
before it writes a text comes from the same function with a NULL buffer, and a
text is a sequence of tokens here.

## 7. Plan

Order: what the device shows first, then what it is linked with.

1. Done: `Selection`, `Panel`, `CalenderText`, `MeetingDisplay`, their runs and
   proofs.
2. Done: `NtpClient` with its runs.
3. Done: `MqttCalls`, `MqttClient` with their runs.
4. Done: `LwmqttCodec` with its runs.
5. Done: `JsonDoc`, `ParsonTree` with their run; `MqttTimer`, `NtpDate`; the
   theorems `FreeRoomIsFree`, `FetchStaysSound` and `TimersAreKept`.
6. Done: the theorems of `MqttClient`, with its refinement of `MqttCalls`, of
   `NtpClient` and of `LwmqttCodec`.
7. Done: the theorem that the days `NtpDate` counts are the calendar's.
8. Done: the theorems of `ParsonTree`, with its refinement of `JsonDoc`.

# Verification of the Inspector HMI

TLA+ models of the Inspector, a Qt program that operates an inspection machine
(C++ under `src/`), with TLC runs on small instances and TLAPS proofs.

* [1 The system](#1-the-system)
* [2 Modules and how they correspond to the code](#2-modules-and-how-they-correspond-to-the-code)
* [3 Runs: what is checked, on which instances](#3-runs-what-is-checked-on-which-instances)
* [4 Proofs](#4-proofs)
* [5 Where the code and its comments and messages disagree](#5-where-the-code-and-its-comments-and-messages-disagree)
* [6 Not modelled](#6-not-modelled)

## 1 The system

`inspector/` is the host program: it loads plugins, shows their messages and
their machine state, and holds the user that is logged in. `plugins/timerecording/`
is a plugin (ETRS) that turns card swipes into bookings on an ERP server and
opens doors. `lib/` has what both use: devices on a Profinet controller, OPC and
ADS variables, PLC-style timers, and a large image-processing part.

Concurrency is that of Qt's event loops: a handler runs to completion in the
thread of its object, and what interleaves in one thread are handlers (timers,
network answers, queued calls, operator input). There are several threads: the
host's, with the main window, the users and the list of employees; one for each
plugin that wants one, ETRS among them; one for each card reader, with the
system behind it; and two polling threads in each Profinet port. Threads meet
in queued calls, in semaphores, in fields under a lock, and in fields that
should be under one. A handler that writes a file can besides be cut off by
the end of the process between truncating and writing.

| Component | State | Operations | Interacts with | Hard parts | What makes it correct |
|---|---|---|---|---|---|
| Time booking: `timerecordingsystem.cpp`, `ErpClient.cpp` | queue of events, last event, the file, warning bit, requests in flight | swipe, timer tick, answers and failures of GET and POST, save, load, reset | card reader (swipe), ERP server (HTTP), the file `EmployeeTimeEvents`, plugin messages | overlapping requests, lost answers, process end, truncating saves, rounding to 6:00 | no booking lost, doubled, reordered or invented; the action shown is the action booked |
| Profinet transport of a card reader: `BPNSerialPort.cpp` | write and read semaphores, sequence number, receive buffer, control/status values | open, write, wait for read, new record answer | `PNIOReadRecord`/`PNIOWriteRecord`, the station | blocking without timeout, answer against timeout, wrap at 255 | a telegram is never taken for the answer to another; no token is left over |
| Card reader: `lib/BSimaticident.cpp` | present card, serial number, status code | poll (100 ms), LED, login/logout | transport, access control, users | timeouts during a poll, checksums | logins and logouts alternate; every logout is of the card that logged in |
| Door and access: `accesscontrolsystem.cpp`, `DoorAccessControl.cpp`, `EmployeeList.cpp` | list of employees and its file, filtered list per system, output and its timer | verify a card, hourly update, open the door 5 s | card reader, ERP client | list assigned while other threads read it, failing update | an employee removed on the server loses access; the door closes 5 s after the last access |
| Devices: `devicemanagement.cpp` | list of devices, settings | add, edit, delete | plugin | the list and what is saved of it | what is saved is what is shown |
| Plugin: `etrsplugin.cpp`, `etrswidget.cpp` and other widgets | devices, current user, warning mask, view, message and its timer | initialize, setValues, current user, booking messages, project view | host, systems | two threads with queued calls both ways, a timer that logs out whoever is there, a view that outlives its employee, fields read without a lock | who has booked is logged out, and nobody by a message that came before; the projects shown are nobody's when nobody is logged in, and not another's |
| Plugin host: `pluginscontroller.cpp`, `interfaces.h` | plugins, enabled set, aggregated machine and diagnosis state, requested state | load, enable, 250 ms update, broadcast of values and levels, quit | plugins, main window, alarm database | partly enabled plugins, terminate handshake | the program quits only when every plugin has terminated; the worst state is shown |
| Alarms: `alarmdatabase.cpp`, `messagespopupdialog.cpp` | active alarms, table | update, clean-up | plugin host | keys that collide, removal by code only | an alarm that is over has its end recorded once |
| Users and access level: `usermanagement.cpp`, `mainwindow.cpp`, `userwidget.cpp` | users, base level, current level, logout timer, card that is awaited | add, edit, delete, import, log in by password or card, log out, enrol a card | card reader, plugin host | stale base level, timer that outlives its login and fires under a dialog, two rows waiting for a card | after a logout the level is the base level; a session ends when nobody is there; the page takes a card exactly while a dialog waits for it |
| PLC helpers: `timer_ton/tof/tp.cpp`, `edge_trig.cpp`, `logic.*` | timer start, last inputs | one update per cycle | logic programs | first calls, times between cycles | the results are those of the inputs put in |
| Driver values: `pniovalue.cpp`, `opcvalue.cpp`, `adsvalue.cpp` | value from the logic, forced value, value written, validity | update, force, set | logic, driver, station or server | the logic sets its output while update reads it; writes that fail | what the station has is what was forced or computed, and an input is what the station has |

Image processing (`lib/vision*`, `bottle*`), drawing and layout widgets,
translations, tables of error codes, the crash handler and the vendored
libraries under `cmake/` carry no protocol and are left aside.

`PROJECT.json` lists the hazards at their lines.

## 2 Modules and how they correspond to the code

| Module | Models | State ↔ code | Actions ↔ code |
|---|---|---|---|
| `TimeRecording` | the booking path of one `TimeRecordingSystem` | `queue` = `_employeeTimeEvents`, `waiting` = `_timeBookingWaitingList`, `file` = the file `EmployeeTimeEvents`, `warning` = the bit in the plugin's warning mask, `req` = requests under way | `Swipe` = `handleTimeEvent` + `bookTimeRequest`, `Tick` = `bookNextTimeEvent`, `StatusAnswer`/`StatusFails` and `BookingConfirmed`/`BookingFails` = its callbacks, `ShowAnswer`/`ShowOffline` = the display's callback, `FinishSave` = the write after the truncating open |
| `BookingOutbox` | what the booking path promises | `pending`, `recorded` | accept, record, discharge |
| `BPNSerialPort` | the port behind a Profinet station, with its four threads | semaphores, `seq` = `_sequenznumber`, `data` = `_data`, `first` = `_firstReadRecord`, the inputs `status`, `receipt`, `rcv` | `Write` … `WriteReturns` = `writeData`, cut where it touches what other threads touch; `SenderReads` … `SenderSettles` = `checkSendStatus`; `ReceiverReads` … `ReceiverSaves` = `checkRCVStatus`; `WaitForReadyRead` … `WaitReturnsFalse`; `ReadAll` |
| `UserSession` | `UserManagement`, the session in `MainWindow`, the access control page and its rows | `users` = `_users`, `base` = `_baseAccessLevel`, `current` = `_current_access_level`, `timer` = the logout timer, `widgets`, `asking`, `dialog`, `waiting` = the page, its rows, the modal dialog that is open and who waits for a card | `Password`, `NoPassword`, `CardLogsIn`, `UnknownCard`, `SetLevelValue` = the ways to `setAccessLevel`; `HoverMove`, `Counts`, `Timeout` = the logout timer; `OpenForm`, `AddUser`, `EditLevel`, `DeleteUser`, `UpdateUsers`, `Import` = changes of the users, the modal forms cut at their `exec()`; `WaitForCard`, `Cancel`, `EnrolCard`, `EnrolAndLogIn`, `RefuseCard` = enrolment; `Restart` |
| `PluginsController` | the host's 250 ms update and the plugins as it sees them | `requested`, `machine`, `diag`, `messages` = the host's fields; `inbox`, `calls` = posted calls; `state`, `reports` = what a plugin returns from `machineState` and `messages` | `Collect`, `Compare`, `Assign`, `Show`, `Check`, `Finish` = `updatePluginStates`, cut where it reads a plugin's state; `Choose`, `ChangeMachineState`, `DeliverCall`, `ResetPlugins` = requests; `Handle`, `Moves`, `Reports` = the plugin; `Ends` = the way out |
| `AlarmDatabase` | the messages the database knows and the rows it writes | `known` = `_messages`, `open` = rows | `UpdateMessages`, `EndAll` = the destructor; no actions of its own, `PluginsController` calls them |
| `AccessControl` | `EmployeeList`, `AccessControlSystem`, `DoorAccessControl`, and the plugin's part in making employees users | `list`, `file`, `cards` = `_employees` of each system, `pending` = notifications in the queue of a thread, `reading` = a reader that holds its own lock, `posted` = what the plugin sent to the host | `Answer`, `Save`, `Tell` = `updateListOfUsers` with its save and signal; `Reads` + `Filter` = `updateListOfEmployee`, `Reads` + `Collect` = the plugin's slot; `AddUsers`; `Access`, `Counts`, `ResetOutput` = the door |
| `CardReader` | `BSimaticIdent` above a serial line | `detected` = `_isCardDetected`, `inbox` = the receive buffer, `waiting`/`todo` = where `checkID` is | `Poll` = the start of `checkID`, `Read`/`TimesOut`/`WriteFails` = the three ways a command ends, each followed by what `checkID` does with that status |
| `Terminal` | the session in the host's thread together with the plugin in its own: who is told of logins, what is booked or shown, and what logs out again | `calls` = posted to the plugin's thread (`currentUser`, `setAccessLevelGuest`), `posts` = posted to the host's (`handleLog`, `setValue` of the level and of "updateUi"), `asked` = status requests, `message` = `_messageDurationTimer`, `standard`/`employee` = the plugin's `_showStandardView`/`_currentEmployeeID`, `pending` = where `setShowStandardView` is, `host` = where `mainWidget` is, `view` = what `ETRSWidget` has | host: `TellsUser` with `Tell` = the end of `setAccessLevel`; `TellsNobody` = the rest of `UserSession`; `HandleLog`, `GuestLevel`, `UpdateUi` = what is posted to it; `StateChanged` = `updateUi` for a machine state; `HideTimeEvent` = the message's timer; `MainWidget`, `OpenView` = `mainWidget`, cut between its two reads. Plugin: `NobodyThere`, `ShowsProjects`, then `SetEmployee` = `setShowStandardView`, cut between its two writes; `Books`, `NoEmployee` = the system on a card; `Answer` = the server's answer; `SetAccessLevelGuest` |
| `PlcTimers` | TON, TOF, TP and the edge trigger over the cycles of a program | `ton`, `tof`, `tp` = the start of each `QElapsedTimer`; `previous`, `current`, `initialized` | `Cycle` = one `update` of each |
| `IoValues` | a digital input and output of the three drivers | `logic` = the logic's variable, `last` = `_value`, `forced` = `_forced_value`, `stored` = `_data`, `wire`/`station` = what the other side has | `Compare`, `Take`, `Test`, `Note`, `Write` = `update` of an output, cut at its reads of the logic's variable; `SetOutput`, `ForceOutput`, `ForceInput`, `UpdateInput` |

`MC…` modules give constants their sets; `…_proofs` modules hold the theorems.
`PluginsController` and `AlarmDatabase` are composed: the host extends the
database and decides when it is told. `Terminal` composes `UserSession` with the
plugin: each of its steps is one of the session, with what is posted to the plugin,
or one of the message and the view in the host's thread, or one of the plugin's
thread. It implements `UserSession`. `BookingOutbox` is abstract;
`TimeRecording` implements it. `PlcTimers` and `IoValues` share nothing; `MCPlc`
only runs them together.

`TimeRecording` is the system of a device with the connection `UserManagement`,
which lives in the plugin's thread; one behind a card reader has no plugin and
dereferences a null pointer at its first swipe (`timerecordingsystem.cpp:49`).

Three decisions run through all of them.

* **What an action is.** In an event loop a handler is one action, with every
  save it makes. Where another thread can see it half-way, an action is what
  lies between two accesses to something shared: in `BPNSerialPort` (a region
  under `_readWriteLock` is one), in `updatePluginStates` (each look at a
  plugin's state), in the update of the list of employees, and in `Terminal`, where
  `ETRSPlugin` has a thread of its own (`etrsplugin.h:65`, `pluginscontroller.cpp:413`):
  each signal between it and `ETRSWidget` or `MainWindow` is a step that posts and,
  later, one that takes from the other thread's queue (`etrsplugin.cpp:78,274-276,403`,
  `etrswidget.cpp:186`, `pluginscontroller.cpp:470`). A modal dialog holds the operator
  and not the event loop, so that what is before its `exec()` and what is after are
  two actions (`OpenForm`, then `AddUser` or `Import`). Opening a file
  for writing truncates it, so a stop between opening and writing is a state of
  its own. `checkID` blocks the reader's thread while it waits: nothing of its
  system runs between its steps, but the reader and the card do.
* **What is environment.** The ERP server, the Profinet station, the card
  reader and the cards are outside the repository. They are modelled as the
  code uses them. The *station* accepts a telegram only if its number follows
  the last receipt and otherwise reports `0x81D7`; it refuses a record while it
  holds a telegram; its receipt changes before its status; it stores answers
  in its two records in turn; a loss of the connection drops what is under
  way. The *card reader* answers each command once; `VHL_Select` takes the card
  in the field and the other commands speak of that card. The *ERP server*
  keeps the bookings in the order in which they reach it and reports the action
  of a card's last one. *Plugins* report `Terminate` when they were asked to and
  are done, and otherwise any state. *Qt* delivers posted calls before it fires
  timers; the lists of Qt 5 compare their elements with the member operator.
* **What is undefined.** Reads of memory that may be gone, or is being written, are
  choices:
  `removeFirst` on an empty list stops the process (`TimeRecording`); a row that
  closes a dialog of before may end it (`UserSession`: `Restart`); a list that is
  assigned while it is read yields any entries (`AccessControl`: `Found`) or ends
  the process; the plugin's `_showStandardView` and `_currentEmployeeID` are read by
  the host while the plugin writes them (`Terminal`: the read yields what was there
  before or what is there after, in any order of the two reads and the two writes, or
  ends the process, which is `TerminalRestart`).
* **Ghosts** only record; no guard reads them, except to bound the instance:
  `accepted`, `shown`, `clear`, `intact` (TimeRecording; `intact`: no requests
  have overlapped, the process has not ended with the file behind, and no start has
  failed to read a file that holds bookings); `no`, `accepted`, `missed`
  (BPNSerialPort); `user`, `old` (CardReader); `stale`, `basis`, `idle`
  (UserSession: whether the base level is that of the users, how a session
  relates to them, how long nobody moved the mouse); `steady`, `behind`, `asked`
  (PluginsController: whether a plugin moved during an update, whether one had
  calls to handle when it began); `since`, `apart` (AccessControl: time since the
  last access, whether a restart came between list, file and users); `with`,
  `alone` (Terminal: the card of who is logged in, and whether at the login no
  message was on show, no call, post or answer under way in either thread that leads
  to one or to a logout, and no project view there or about to be); `log` (PlcTimers: inputs
  and results of every cycle); `raced`, `settled`, `seen` (IoValues: whether the
  logic set its output during an update, whether an update came through since
  anything changed, whether an input has been decoded before).

Data is abstracted to what the properties tell apart: a card is a model value,
a telegram the number of its command, an answer its command, status and card.
`CardReader` stands on a line that keeps the order and hands over everything
received at once, as `BPNSerialPort` does while answers come in time; there a wait
returns at once when something is in the buffer. (Several late answers could
overtake one another between the station's two records; one late answer, which is
the most the theorems on `CardReader` allow, cannot.)
The reader's commands are functions alike, which write, wait, read and confirm: one
`Sends`, `Read`, `TimesOut` and `WriteFails` stand for all of them, and the lines that
`PROJECT.json` names are those of one.

Operators introduced by a comment `\* Of X:` are seeded faults: a bug one could
make in the definition X that follows. No action uses them. They document what
the properties are able to see; `PROJECT.json` says which property rejects which.

## 3 Runs: what is checked, on which instances

Deadlock is checked in every run but `host`, where the program ends, and `plc`,
where the bounded clock and the last cycle end the timers' part: elsewhere there is
always a step left (a timer, a poll, an operator).

| Run | Instance | Shows |
|---|---|---|
| `booking_reliable` | 2 cards, 4 bookings, 2 days of 6 instants, bookings refused any number of times, timely, fair | `BookedOnceInOrder`, `ActionsAlternate`, `ShownIsBooked`, `EventuallyBooked` |
| `booking_any` | 2 cards, 2 requests, 2 swipes, 3 journal entries, every fault, overlapping requests, torn and failing saves | `QueueInOrder`, `NothingInvented`, `NothingLost`, and the refinement `ImplementsOutbox` |
| `booking_saved` | server unreachable for a while, overlapping requests | **violated**: `SavedStaysSaved` |
| `serial_exact` | numbers 1..3, 8 commands, 3 failing telegrams | `AnswerMatches`, `RecoversSoon`, `SuccessIsAccepted` |
| `serial_any` | numbers 1..2, 3 commands, one fault of any kind with any number of timeouts, lags and overtakings, fair | `TypeOK`, `WriteHandshake`, `WriteEnds` |
| `serial_unplugged` | one loss of the connection, fair | **violated**: `Reconnects` |
| `reader_faults` | 2 cards, 3 entries into the field, one fault of any kind, fair | `TypeOK`, `SerialIsFresh`, `CardLogsOut`, `CardLogsIn` |
| `reader_late` | one late answer, fair | **violated**: `CardIsFound` |
| `users` | 2 users, levels 2 and 9, logout after 2 ticks; without the plugin's part: 2 cards, all users and forms; with it: 3 cards, two of them employees', both users of level 2, queues of 3 calls and 2 posts, 2 requests | `TypeOK`, `LevelIsOfUser`, `LogoutWhenIdle`, `SessionIsTimed`, `DialogIsServed`, `BookerIsLoggedOut`, `OthersAreLeftAlone`, `ViewIsOfUser` |
| `host` | 3 plugins with the main window, one of them with a thread of its own, one with messages of two types; 3 requests, fair | `QuitIsWanted`, `QuitAllTerminated`, `ShownIsWorst`, `DiagIsWorst`, `AlarmsStored`, `EventuallyEnds` |
| `access` | 1 door, 3 lists of the server, doors open for 1 tick, 1 notification per thread, restarts, fair | `AccessIsListed`, `EmployeesAreUsers`, `DoorStaysOpen`, `EventuallyListed` |
| `plc` | timeout 2, 6 instants, 5 cycles; one input and one output of each driver | `TimersKeepTime`, `EdgesAreReal`, `OutputFollows`, `InputFollows` |

**Bounds.** Two requests are enough for every overlap of two callbacks: a third
can only repeat what the second does, since callbacks do not know of each
other. In `booking_reliable` nothing overlaps and one is enough. Four
bookings in two days give each card a first and a second booking on each side of
the night and of the shift to 6:00. In `booking_any` two bookings are a head and
one that a second confirmation would remove, three entries of the journal let
one of them be booked twice, and the clock moves as far as the refusal of a
second swipe (`Debounce`) needs. Numbers 1..3 instead of 1..255
make the wrap happen within four commands, and eight commands with three
failures fail before, at and after it. Two cards are needed for a late answer
to speak of the wrong one. Two users with two cards make every pair of rows,
sessions and owners; the levels are the lowest a user can have and that of an
administrator, so that the base level moves. Of the three cards two are employees'
and one is not, which are the plugin's cases and two employees who can follow one
another, and each can be anybody's at the host. Three calls are a login, a message
that was hidden and the next login; two posts are a logout and a message, or a view,
behind it; two requests are those of two bookings. With one more post the states are
1.6 million and the properties hold as well, and the theorems hold for any bound. The
run is one of two halves (`Split`, a `CONSTRAINT`): the variant `none`, in which the
plugin does nothing with a login, goes through all users, forms, imports and
enrolments; `time` and `projects` go through all interleavings of the two threads,
with users and levels as they are. What the halves leave out is covered by the
theorems: no step of host or plugin in `Terminal` changes a user, a row or a dialog but
by an action of `UserSession` (`SessionImplemented`).
Of the host's
plugins one stands before the main window in the list and one behind, one in
the host's thread and one not; three requests let a wish be revoked and renewed.
Reports of one plugin with one code show an alarm that comes, changes its type
and goes. The three lists of `access` are an employee the door knows, a card that
was given to another employee, and nobody the door knows; one entry found in
freed memory (`MaxFound`) is enough for a wrong list, since what was found is
replaced, never read again. One notification in a queue stands for any number:
they carry nothing. In `plc` six instants and a timeout of 2 put cycles before,
at and after the timeout, and five cycles are two after the third, from which
the edge trigger is right; an input and an output have two values, so that one
change and one back are every case.

**Fairness.** The timers of `TimeRecordingSystem` (1 s), `BSimaticIdent`
(100 ms) and the two polling threads (10 ms) are periodic, so their steps are
weakly fair. `CardReader`'s `Reopen` stands for the attempt to open the port that
succeeds: one that fails changes nothing and is made again at the next timer, and its
fairness says that a port that is tried again and again opens in the end. Requests
end: the client gives them up after 20 s (`ErpClient.cpp:32,55`). Two actions are
strongly fair. `ServerBooks`: a server that is offered a booking again and again is
reachable at one of these moments, which is what "eventually" can mean for a network.
`RecordConfirmed`: the model keeps a record from being confirmed inside a pass of
`checkSendStatus`, which is far shorter than a record, so it is enabled again and
again but not continuously. The host's event loop and the handling of calls in every
thread are weakly fair. A plugin's step to `Terminate` is strongly fair: it is the
promise of a plugin that was asked to terminate, and one in the host's thread can only
keep it between two updates. In `access` the threads and the time are weakly fair, and
`Answer` strongly: the list is asked for once an hour, and the server reachable at one
of these moments. Swipes, movements of cards, new commands, operators and every fault
are not fair: nobody owes them.

**What the assumptions are for.** `Timely` is the assumption that the server
answers within one timer period; without it `booking_saved` shows what is lost.
`NothingLost` and `ImplementsOutbox` need less: they speak of a history in which
no requests have overlapped and the process has not ended while the file was
behind the queue and no start has failed to read the file (`intact`: a start that
cannot read it begins with an empty queue, and the next save overwrites what was
there, `timerecordingsystem.cpp:148`), and hold with every other fault, failing saves
and lost answers included.
`AnswerMatches` needs answers in time, valid records, and passes of
`checkSendStatus` that no write overtakes: `saveNewData` can give the token after
`tryAcquire` has given up, an invalid record switches the record all the same, and
a pass that is overtaken answers a write with the status of the one before; the
next command then reads nothing, or an old answer. `SuccessIsAccepted` needs
inputs that show a busy station no later than its record is confirmed.
`SerialIsFresh` holds with one fault and with any number that are not late; two
late answers can line up so that an old serial number is accepted. A damaged or
missing answer is taken for a card that left: `CardLogsOut` is an obligation, that
only such a card is logged out is not so.

`LevelIsOfUser` and `LogoutWhenIdle` speak of a session while the users are those
of the login (`basis`): edits do not touch a session, and an import leaves the
base level stale until the next edit. `SessionIsTimed` needs only that the base
level was right at the login. `DialogIsServed` has no premise. It does not say
that the card goes to the row whose dialog is open: cancelling a dialog leaves its row
waiting (`userwidget.cpp:92`), and the next card is then the first row's, in the code
and in the model, where `EnrolCard` takes any row that asks. `QuitAllTerminated`
excepts a plugin of another thread that had calls to handle when the update began
(`behind`): the host reads states, not queues. `ShownIsWorst` speaks of updates during
which no plugin moved (`steady`). `AlarmsStored` supposes that the table refuses no
row. `AccessIsListed` excepts a list without anybody for the system, which the code
does not apply. `EmployeesAreUsers` excepts the time between a restart that came
before everybody had handled the last list and the next update (`apart`), and each
employee whose card a later employee of the list has too: `employees()` makes a table
of the list that is keyed by the card (`EmployeeList.cpp:101`), in which the last one
stays, so that the others do not become users. The second list of `access` has such a
pair.

`OthersAreLeftAlone` and, for the employee shown, `ViewIsOfUser` speak of a login at
which nothing of an earlier one was on show or to come (`alone`). The premise looks
into both queues, at requests whose answer is still out and at the plugin's flag: a
message can be in the host's queue or its logout in either, and a flag can be set that
the widget does not show yet. Who logs in while any of these is there may be logged out
with it (`etrswidget.cpp:101`), or see the view that is there (`etrswidget.cpp:151`).
`BookerIsLoggedOut` and "the clock when nobody is there" hold for every login.
`ViewIsOfUser` speaks of the moments at which both threads have done what was to be done
(`Settled`), and lets the view of an employee be nobody's: the host can read the flag
before the plugin has written the number that belongs to it, and the view that is then
opened is kept at the update that follows.
`OutputFollows` speaks of an output whose last update came through (`settled`)
and during which the logic did not set it (`raced`): an update reads the variable
up to four times, and what it writes and what it notes can differ.
`InputFollows` excepts an OPC-UA input before its first change, which stays as
it was constructed. `EdgesAreReal` begins with the third update: the trigger needs
two to know its input.

## 4 Proofs

| Theorem | States | For |
|---|---|---|
| `TimeRecording_proofs!TypeCorrect` | `[]TypeOK` | all constants, every fault, timely or not |
| `TimeRecording_proofs!NothingIsInvented` | `[]NothingInvented` | the same |
| `TimeRecording_proofs!QueueStaysInOrder` | `[]QueueInOrder` | the same |
| `TimeRecording_proofs!NothingIsLost` | `[]NothingLost` | the same; `intact` is part of the statement |
| `TimeRecording_proofs!OutboxImplemented` | `ImplementsOutbox` | the same |
| `TimeRecording_proofs!SavedMeansSaved` | `[]SavedStaysSaved` | all constants, timely answers, saves that the process does not end in, and that succeed, like reading the file, where it can end (`SavesSucceed`) |
| `TimeRecording_proofs!RetriesAreInOrder` | `[]RepeatsOrContinues`: each entry of the journal repeats the one before it or is of the next booking | all constants, timely answers, no end of the process, nothing recorded after the client gave up (`Answered`) |
| `TimeRecording_proofs!ActionsDoAlternate` | `[]ActionsAlternate` | the same, and the status can be asked |
| `TimeRecording_proofs!BooksOnceInOrder` | `[]BookedOnceInOrder` | `Answered`, and no booking that fails after it was recorded (`Confirmed`) |
| `TimeRecording_proofs!WhatIsShownIsBooked` | `[]ShownIsBooked` | the same, and the status can be asked |
| `BPNSerialPort_proofs!TypeCorrect` | `[]TypeOK` | every limit of the numbers, every bound, every fault |
| `BPNSerialPort_proofs!HandshakeKept` | `[]WriteHandshake` | the same |
| `BPNSerialPort_proofs!AnswersAreNoticed` | `[]AnswerIsNoticed`: no blocked wait has an answer in its buffer | the same |
| `BPNSerialPort_proofs!WritesAreAwaited` | `[]NeverForgotten`: no blocked write has lost its wake-up | every limit and bound, connection kept |
| `BPNSerialPort_proofs!RefusalsAreTrue` | `RefusedIsNotSent`: a write that fails was not sent on | every limit and bound, inputs without lag, no pass overtaken |
| `BPNSerialPort_proofs!AcknowledgedIsSent` | `[]SuccessIsAccepted` | every limit and bound, inputs without lag, connection kept |
| `BPNSerialPort_proofs!AnswersBelong` | `[]AnswerMatches` | every limit and bound, no fault but telegrams the station fails to send |
| `BPNSerialPort_proofs!NumbersRecover` | `[]RecoversSoon` | every limit and bound, inputs without lag, no pass overtaken, connection kept |
| `CardReader_proofs!TypeCorrect` | `[]TypeOK` | all cards, every bound, every fault |
| `CardReader_proofs!SerialsAreFresh` | `[]SerialIsFresh` | all cards, any number of faults if none is late, or one fault of any kind |
| `CardReader_proofs!UsersAreAtReader` | `[]UserIsAtReader`: who is logged in is the card the reader has selected, unless it has left | the same |
| `CardReader_proofs!LoginsDoAlternate` | `LoginsAlternate`: a logout between two logins | all cards, every bound, every fault |
| `UserSession_proofs!TypeCorrect` | `[]TypeOK` | all users, cards, levels and intervals |
| `UserSession_proofs!LevelsKept` | `[]LevelIsOfUser` | the same |
| `UserSession_proofs!LogsOutWhenIdle` | `[]LogoutWhenIdle` | the same |
| `UserSession_proofs!SessionsAreTimed` | `[]SessionIsTimed` | the same |
| `UserSession_proofs!DialogsAreServed` | `[]DialogIsServed` | the same |
| `Terminal_proofs!SessionImplemented` | `TerminalSpec => Spec`: the terminal implements `UserSession` | all employees, queues of any length, any number of requests, and the same |
| `Terminal_proofs!TerminalTypes` | `[]TerminalTypeOK` | the same |
| `Terminal_proofs!BookersAreLoggedOut` | `[]BookerIsLoggedOut` | the same |
| `Terminal_proofs!SessionsAreLeftAlone` | `[]OthersAreLeftAlone` | the same |
| `Terminal_proofs!ViewsAreOfUser` | `[]ViewIsOfUser` | the same |
| `PluginsController_proofs!TypeCorrect` | `[]TypeOK` | all plugins, threads, states and messages, any number of requests |
| `PluginsController_proofs!QuitsAreWanted` | `QuitIsWanted` | the same |
| `PluginsController_proofs!QuitsWhenAllHaveTerminated` | `QuitAllTerminated` | the same |
| `PluginsController_proofs!ShownStateIsWorst` | `ShownIsWorst` | the same |
| `PluginsController_proofs!DiagnosisIsWorst` | `DiagIsWorst` | the same |
| `PluginsController_proofs!AlarmsAreStored` | `[]AlarmsStored` | the same |
| `PluginsController_proofs!NobodyIsLeftBehind` | `[]OfOneMind`: who has handled his calls knows what is wanted | the same |
| `AccessControl_proofs!TypeCorrect` | `[]TypeOK` | all lists, systems, filters, queues and times |
| `AccessControl_proofs!AccessFollowsList` | `[]AccessIsListed` | the same |
| `AccessControl_proofs!EmployeesBecomeUsers` | `[]EmployeesAreUsers` | the same |
| `AccessControl_proofs!DoorsStayOpen` | `DoorStaysOpen` | the same |
| `AccessControl_proofs!RacedReadsAreRenewed` | `[]RacedIsRenewed`: an overtaken reading is followed by another | the same |
| `AccessControl_proofs!NoSystemIsForgotten` | `[]NobodyForgotten`: a table out of date is about to be renewed | the same |
| `Plc_proofs!TimersAreExact` | `[]TimersKeepTime` | every timeout, any cycles at any times |
| `Plc_proofs!EdgesAreExact` | `[]EdgesAreReal` | the same |
| `Plc_proofs!OutputFollowsLogic` | `[]OutputFollows` | the three drivers, every interleaving |
| `Plc_proofs!InputFollowsStation` | `InputFollows` | the same |

Only the named assumptions on constants (`ConstantsAssumption`,
`TerminalAssumption`, `TimersAssumption`, `NoneAssumption`) are used. Two of them
are more than types: users from the server get a level that users can have
(`User \in Levels`), and a list has one entry per person, as the server's
identities do.

*Time booking.* `TypeOK` is inductive with help for each request's phase
(`RequestPhases`, `RequestMade`, `RequestMoved`). `NothingInvented` says that
queue, file, requests and journal hold copies of accepted events; a step either
moves such a copy or makes a new event, and `accepted` only grows
(`AcceptedStays`). For `QueueInOrder` the induction needs that an appended
event is not earlier than all before it, although swipes before 6:00 are moved
*into the future*: `AcceptedUpToNow` says that every accepted time is at most
`BookingTime(now)`, and `BookingTimeMonotone` that rounding keeps the order,
for which `NextInDay` and `RemainderUnique` do the arithmetic of days.

For `NothingLost` the danger is a confirmation that removes an event other than
its own. `OneForHead` says that at most one request is under way, that it is for
the head, and that a confirmed one is in the journal; with it the event removed
is with the server, and `Kept` (every accepted event is in the journal or in the
queue, or the file while there is no process) survives every step, a failed save
included. A restart
that can read the file has it for its queue, which is what the queue was while the
history is `intact`. The same invariant
carries the refinement: of the steps of `TimeRecording` a swipe that counts is
*accept*, a booking that reaches the server is *record*, an answer that removes
the head is *discharge*, and everything else is a stutter (`OutboxStep`), with
`ClockBounded` and `BookingTimeBound` for the times the outbox allows.

`SavedMeansSaved` is the property that `booking_saved` finds violated, with what it
takes to make it true. Under `SavesSucceed` the history is always `intact`:
between two handlers the file is the queue whenever the process may end
(`UpToDate`), so that nothing but an overlap of requests is left to lose a saved
booking. `AnswersFollowBookings` (one answer per accepted booking) ties the message
to the booking it is about. No fault of the server is excluded: bookings that it
refuses, records late or records without an answer do not lose anything.

What the journal looks like needs more, in two stages. `Answered` excludes a
journal entry made after the client gave up, and an end of the process. Then
`InLine` holds: the queue's numbers follow those that have left it, and the
journal ends with the last of these, or with the head of the queue. A lost answer
makes the head's entry repeat and no more, which is `RetriesAreInOrder`. A
request that was posted is the only one (`PostIsFirst`), so that the action
asked for is still right when it is recorded: `PostedRight` says that it is the
opposite of the card's last action, and `ActionsInv` is inductive with it, lost
answers included. `Confirmed` excludes these too; then `InStep` says that the
journal is exactly what has left the queue, and at most one booking whose
confirmation is to come, once each. The display needs it: `ToldRight` says that
what the employee was told of a booking the server does not have is the opposite
of the card's last action. The server's next entry is the first missing number,
so that it is of another card than any later booking told without an older one
under way (`OtherCards`); this is where order of bookings and truth of the
display meet. TLC shows that the hypotheses are needed: with a lost answer
`ShownIsBooked` is violated, and with a status that cannot be asked
`ActionsAlternate`. `booking_reliable` is an instance of all of them.

*Transport.* `Types` is `TypeOK` in parts, strengthened by: the receipt is
never 0, and a command has its number before its record is written (`Numbered`).
`WriteHandshake` is inductive with it: the token is in one of three places, and
only the write that is blocked brings it in or takes it out.
`AcknowledgedIsSent` rests on `Underway`: from the confirmed record on, the
station is busy with this very telegram, or has sent it, or shows an error.
When the copied status is `0` only "has sent it" is left. The receipt
comparison in `writeData` is not needed for this; it matters when inputs lag.
`RefusalsAreTrue` is the other direction: `InTime` says that as long as the station has
the telegram every input and every copy of it shows a busy station, so that
`checkSendStatus` answers neither with an old status nor too early, and that once
the station has sent it no error is shown.

`NeverForgotten` is the safety half of `WriteEnds`: whatever happens to the inputs,
something that will wake a blocked write is there. The loss of the connection
takes it away, which is finding 2. `AnswerIsNoticed` says the same of
`waitForReadyRead`; it needs no hypothesis, since late answers leave tokens
behind but take none.

`NumbersRecover` rests on the write side alone (`WriteInv`), which answers that are
late or invalid do not touch. `InWrite` says for each place of the caller what
station and inputs show of its telegram, `FinalStatus` that the status that ends a
write is that of this very write, with the number set back before if the
station refused it, and `NumbersAgree` that the numbers agree unless exactly one
write has failed since. `AnswersBelong` adds the read side (`TurnInv`): `InTurn` says
where the one answer to the command is, with the reader, in the record not yet
read, or received, and `ReadySems` that whoever waits is woken by that answer
and nothing else. The hypotheses are as weak as they can be: TLC finds
`AnswerMatches` violated with any other fault, and `RefusedIsNotSent` with inputs
that lag or a pass that is overtaken.

*Card reader.* `LineInv` names what is on the line and in the buffer together, oldest
first: what the host waits for, and before it at most one command or answer it no
longer waits for (`One`, `Two`). Without a late answer nothing of the kind exists;
one late answer leaves exactly one, which shifts what follows by one place, and no
more (`OneLeft`). Where the host asks for the serial number, what was overtaken is
from a search, and so its code is not that of the question. While a card is logged
in no search is on the line (`NoSearchInSession`), so that the reader selects no
other card under the session, and the answer that logs in is of the card selected
(`AnswerIsSelected`); with `UserIsAtReader` these are `ReaderInv`. `LoginsAlternate`
needs none of this: that what was detected is who is logged in (`SessionInv`)
holds whatever is late, lost or damaged.

*Users.* `IInv` adds to the properties that the base level is that of the users
unless it is stale (`BaseIsOfUsers`), that an "exact" session was set on a right
base level for a user who is still there (`ExactIsFresh`), and that timer and
idle time never exceed the interval (`TimerCounts`). `BaseBelow` is the lemma on
the data: the base level is below the level of each user, by the least element
of a set of naturals. From it a login sets a level above the base (`LevelAboveBase`),
and so starts the timer. `DialogIsServed` is inductive with the types (`DialogKept`): a
row's dialog keeps the operator from deleting the row or opening a form, so that only
a card or the operator closes it; what it does not keep from happening are the
plugin's changes of the users, which leave the page alone, and the logout, which
leaves the dialog or form open for whoever is there.

*Terminal.* Every step is a step of the session or leaves it alone
(`StepIsOfSession`), so that `IInv` and the theorems of `UserSession` hold of the
terminal as well. What the two threads add (`TerminalInv`) is passed on hand to hand,
for which three lemmas say what a queue contains after something was added to it or
taken from it (`QueueAdded`, `QueueTaken`, `QueueEmpty`). `BookerIsLoggedOut` is
inductive with `AboveGuest` (a session is never at the guest's level, so that the post
that arrives does log out) and `OnlyTimeHasMessages`: a login becomes a call, a
message posted, a message on show, a call again, a post and the logout.
`OthersAreLeftAlone` is inductive as well, since a session that begins with nothing
under way and does not book adds nothing. For the view, `LastCall` says that the newest
call is of who is logged in, or, with none queued, that the flag is set back if nobody
is; `NumberOfFlag` that the number belongs to the flag but for what is yet to be
written; and `ChangeIsShown` that flag and view agree unless a number to be written, a
post or a look that the host is about to take will make them. This is where it matters
that the post comes after both writes. `Undisturbed` follows a login that began
`alone` through both threads: first its call, then the flag, its own number and at
last its own view, or nobody's.

*Host.* Quitting needs what is in the queues: for each plugin, either all that is
left to handle is `reset` and it was last asked for what is wanted, or the last
request in its queue is what is wanted (`Settled`). During an update nothing is
posted, and the plugins of the host's thread have handled all (`Quiet`). While the
check goes on, each plugin is still to be looked at, or terminated, or one of another
thread that is excepted (`Counted`); the main window in particular is terminated only
if it was asked to be (`MainFollows`), which is what ties "all have terminated" to
"that is what was wanted". The same invariant shows that nobody is left behind
(`OfOneMind`): an empty queue leaves its plugin in agreement with the last request,
which is where `EventuallyEnds` begins. For the worst state `FoundIsWorst` says that
what was found is at most every state looked at, and one of them. For alarms
`AlarmInv` says that `open` is 1 for exactly the messages known; the comparison of
lists turns out to be that of sets (`DifferIsUnequal`).

*Access.* A reader that was overtaken has a notification to come (`Renewed`), since
the host tells after it assigns; with it `Listed` is inductive. Two facts follow that
make the missing lock harmless while the process goes on: what an overtaken reading
found is replaced (`RacedIsRenewed`), and no table stays out of date with nothing on
its way to it (`NobodyForgotten`). For the users the last thing the plugin posted is
the list (`Told`). For the door `left + since = Open` while it is open (`Timed`).

*PLC helpers and driver values.* What each timer keeps is an instant of the log, or
none: the beginning of the present TRUE for TON, the last TRUE for TOF, the first for
TP (`TonKept`, `TofKept`, `TpKept`); entries of the log never change (`CycleOld`), so
that a result is a statement about the log alone. For outputs `Steps` says what an
update under way has found, and `Outside` that a value other than the one noted means
a write is still owed.

Only model-checked: liveness (`EventuallyBooked`, `WriteEnds`, `CardLogsOut`,
`CardLogsIn`, `EventuallyEnds`, `EventuallyListed`), which the prover cannot do.
Their safety halves are proved where they are more than a guard: that no wake-up of a
write is lost (`NeverForgotten`), that no plugin is left with an old wish
(`OfOneMind`), that no system is forgotten (`NobodyForgotten`); what TLC adds is that
fair steps then arrive. The type invariants of `TimeRecording`, `PluginsController`,
`AccessControl` and `Terminal` are proved, and so no run repeats them.

## 5 Where the code and its comments and messages disagree

1. `booking_saved`. The timer offers the head of the queue every second, also
   while a request for it is under way. Two confirmations of one booking remove
   two; the second was announced to its employee as saved
   (`timerecordingsystem.cpp:90,137`).
2. `serial_unplugged`. When the station loses a telegram with the connection,
   `writeData` waits for ever on `_sem_write` (`BPNSerialPort.cpp:182`), and with
   it the reader's thread, with its system and door; the comment in
   `lib/BSimaticident.cpp:8` promises a reconnection.
3. `reader_late`. A late answer is not discarded. Every later answer is read by
   the command after its own and refused, so that a card in the field is not
   logged in (`lib/BSimaticident.cpp:5-6,422`).

## 6 Not modelled

* **Image processing and drawing** (`lib/vision*`, `bottle*`, the widgets that
  draw): numerical code on images, without protocol and with no state a checker
  could exhaust. Translations, tables of error codes and the crash handler have
  no state. The vendored libraries under `cmake/`, the Profinet stack among
  them, are nearly all of the repository's lines; they appear as the environment
  of `lib/pn*` and `BPNSerialPort`, modelled as the code uses them.
* **Devices** (`devicemanagement.cpp`) and the settings page: one list, edited on
  one page and written as a whole. Nothing interleaves, and a property would
  restate the list.
* **Set-up that is repeated** (`etrsplugin.cpp:410`): each value of
  `PNIOControllerConfig` creates further systems over the same file
  `EmployeeTimeEvents`. Two `TimeRecording` systems over one file overwrite each
  other's events, so that no property of one of them holds; `TimeRecording` is
  one system, and its `intact` history the one in which this has not happened.
* **Messages of devices with a card reader** in `Terminal`: they are shown in the same
  `ETRSWidget`, and when one is hidden whoever is at the host is logged out, because
  somebody has booked at a door. `Terminal` has one device, that with the connection
  `UserManagement`; with a reader besides, `OthersAreLeftAlone` would need that no card
  was held to it either. Of the program's start it leaves out the first
  `setAccessLevel` (`mainwindow.cpp:372`), which tells the plugin that nobody is there.
  The timers of the host do not fire while it is in `mainWidget`, which is one call;
  several calls for one `updateUi` are several of `StateChanged`.
* **Preferences** are read once, when the main window is made (`mainwindow.cpp:49`), so
  that `Interval` is a constant; a new value takes effect at the next start.
* **Requests of the project view and the job descriptions** (`projectWidget.cpp`,
  `JobDescriptionWidget.cpp`, list queries of `ErpClient.cpp`): their answers only
  fill a table. Whose view is open is in `Terminal`.
* **The second message window and the warning mask** (`etrsplugin.cpp:114`): bits
  set and cleared by several threads without a lock. The bit
  that `TimeRecording` sets and clears is modelled as its own; that another
  thread's change can undo it is not.
* **Station counters over a restart of the program** (`BPNSerialPort.h:56`): what a
  station does with its counters when its controller starts again is not in the
  code; `BPNSerialPort` starts with both at their first values.
* **Text of serial numbers** (`lib/BSimaticident.cpp:170`), encoding and decoding of
  numbers: a card is a model value. That two cards can have the same text is a
  fact about the conversion and not about steps.
* **Users that have left** (`mainwindow.cpp:261`) stay users: nothing in the
  code or its documents says that they should not.
* **Threads that run logic programs**, loading of plugins, broadcast of values and
  images: what they carry is opaque to this code.

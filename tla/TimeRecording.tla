---------------------------- MODULE TimeRecording ----------------------------
(***************************************************************************)
(* The booking path of the time-recording plugin: a card swipe becomes an  *)
(* EmployeeTimeEvent, the event waits in a queue that is mirrored in the   *)
(* file "EmployeeTimeEvents", and a one-second timer offers the head of    *)
(* the queue to the ERP server with a GET (the employee's clock status)    *)
(* followed by a POST (the booking).  Source: TimeRecordingSystem and      *)
(* ErpClient; the server is external.                                      *)
(*                                                                         *)
(* This is the system of a device with the connection "UserManagement",    *)
(* which lives in the plugin's thread.  All its handlers run to completion *)
(* in one event loop, so each is one action; the only place inside a       *)
(* handler where the process can be seen half-way is                       *)
(* saveEmployeeTimeEvents, which truncates the file before it writes it.   *)
(* A status request is answered at the moment the server is asked; what    *)
(* can pass between the answer and the booking is the delay of the POST.   *)
(*                                                                         *)
(* Ghosts: an event's "no" is its rank of acceptance, "accepted" keeps all *)
(* events ever accepted, "shown" what the employee was told about each,    *)
(* "clear" the answers given when no older booking of that card was still  *)
(* under way, and "intact" says that so far no tick found a request still  *)
(* under way, the process never ended while the file lagged behind, and    *)
(* what there was in the file was read when the process started.           *)
(***************************************************************************)
EXTENDS Integers, Sequences

CONSTANTS
  Cards,         \* card ids of the employees this terminal knows
  NoCard,        \* the empty card id of a default-constructed event
  Requests,      \* slots for requests to the server that can be open at once
  Timely,        \* TRUE: every request is over before the timer fires again
  Faults,        \* which of FaultKinds happen
  DayLength,     \* length of a day in the model's time unit
  EarlyFrom,     \* 5:30, from where a swipe counts as Opening
  Opening,       \* 6:00
  Closing,       \* 20:00, still allowed
  Debounce,      \* the 5 seconds in which the last card is refused
  MaxNow,        \* bound: last instant of the model's clock
  MaxAccepted,   \* bound: number of bookings accepted
  MaxBooked      \* bound: number of entries in the server's journal

FaultKinds == {
  "get",     \* a status request fails
  "refuse",  \* a booking fails without having been recorded
  "ack",     \* a booking was recorded, but its answer is lost
  "late",    \* a booking is recorded after the client has given it up
  "open",    \* the event file cannot be opened for writing
  "full",    \* the event file is opened, but nothing can be written
  "load",    \* the event file cannot be opened for reading
  "stop",    \* the process ends between two handlers
  "torn" }   \* the process ends inside saveEmployeeTimeEvents

ASSUME ConstantsAssumption ==
  /\ NoCard \notin Cards
  /\ Timely \in BOOLEAN
  /\ Faults \subseteq FaultKinds
  /\ {DayLength, EarlyFrom, Opening, Closing, Debounce} \subseteq Nat
  /\ EarlyFrom <= Opening /\ Opening <= Closing /\ Closing < DayLength
  /\ {MaxNow, MaxAccepted, MaxBooked} \subseteq Nat

VARIABLES
  now,       \* QDateTime::currentDateTime()
  pc,        \* "run", "saving", "down", or "undefined" after undefined behaviour
  queue,     \* _employeeTimeEvents
  file,      \* contents of the file "EmployeeTimeEvents"
  waiting,   \* _timeBookingWaitingList, the last event accepted
  warning,   \* warnServerRequestError is set in the plugin's warning mask
  req,       \* the requests that bookNextTimeEvent has under way
  booked,    \* the server's journal
  accepted,  \* ghost: all events accepted, in order
  shown,     \* ghost: what the employee was told about each of them
  clear,     \* ghost: answers given without an older booking under way
  intact     \* ghost: requests never overlapped, the file was up to date at each end and was read

vars ==
  <<now, pc, queue, file, waiting, warning, req, booked, accepted, shown, clear, intact>>

-----------------------------------------------------------------------------
TimeEvent == [no : Nat \ {0}, card : Cards, time : Nat]
NoEvent == [no |-> 0, card |-> NoCard, time |-> 0]
Actions == {"in", "out"}

Idle == [phase |-> "idle", ev |-> NoEvent, action |-> "none"]
OpenRequest ==
  [phase : {"status"}, ev : TimeEvent, action : {"none"}]
    \cup [phase : {"post", "acked", "orphan"}, ev : TimeEvent, action : Actions]

\* The requests the client still waits for; an orphan it has given up.
Active == {r \in Requests : req[r].phase \in {"status", "post", "acked"}}

Bookings == [no : Nat \ {0}, card : Cards, time : Nat, action : Actions]
BookedNos == {booked[i].no : i \in DOMAIN booked}
NosIn(events) == {events[i].no : i \in DOMAIN events}

\* The status the server reports: the action of the card's last booking.
IsClockedIn(card) ==
  \E i \in DOMAIN booked :
    /\ booked[i].card = card /\ booked[i].action = "in"
    /\ \A j \in DOMAIN booked : j > i => booked[j].card # card

-----------------------------------------------------------------------------
\* Seeded faults: some of the definitions below with a bug one could make, for
\* the mutation runs only.

\* Of ActionFor: everybody is clocked in; swapped.
ActionForIn(clockedIn) == IF clockedIn THEN "in" ELSE "in"
ActionForSame(clockedIn) == IF clockedIn THEN "in" ELSE "out"

\* Of Booking: the time is that of sending.
BookingNow(q) ==
  [no |-> q.ev.no, card |-> q.ev.card, time |-> now, action |-> q.action]

\* Of RemoveFirst: the other end.
RemoveLast(events) == SubSeq(events, 1, Len(events) - 1)

\* Of Enqueue: in front.
EnqueueFirst(ev) == <<ev>> \o queue

\* Of Loaded: the file is not read.
LoadedNothing == <<>>

-----------------------------------------------------------------------------
\* So that employees who are there shortly before six do not have to wait.
BookingTime(t) ==
  IF t % DayLength \in EarlyFrom..(Opening - 1) THEN (t - (t % DayLength)) + Opening ELSE t

Bookable(t) == t % DayLength >= Opening /\ t % DayLength <= Closing

\* bookTimeRequest's append.
Enqueue(ev) == Append(queue, ev)

\* loadEmployeeTimeEvents.
Loaded == file

\* The journal entry for the POST of a request (setBookTime's JSON object).
Booking(q) ==
  [no |-> q.ev.no, card |-> q.ev.card, time |-> q.ev.time, action |-> q.action]

\* QList::removeFirst on a list that is not empty.
RemoveFirst(events) == Tail(events)

\* The environment's promise when Timely: nothing is under way when the timer
\* fires.
Prompt == Active = {} /\ \A n \in DOMAIN shown : shown[n] # "asked"

\* bookTime: ask for the status of the event's card, in a free slot.
Offer(ev) ==
  /\ \E r \in Requests :
       /\ req[r] = Idle
       /\ req' = [req EXCEPT ![r] = [phase |-> "status", ev |-> ev, action |-> "none"]]
  /\ intact' = (intact /\ Active = {})
  /\ UNCHANGED <<now, pc, queue, file, waiting, warning, booked, accepted, shown, clear>>

\* saveEmployeeTimeEvents: opening the file truncates it; when it cannot be
\* opened the old contents stay and nobody is told.
StartSave ==
  \/ pc' = "saving" /\ file' = <<>>
  \/ "open" \in Faults /\ pc' = "run" /\ file' = file

\* handleTimeEvent: the last card is refused until Debounce has passed.
NotFinished(card) == waiting.card = card /\ waiting.time + Debounce > now

\* setBookTime: the action posted after the server reported that status.
ActionFor(clockedIn) == IF clockedIn THEN "out" ELSE "in"

Init ==
  /\ now = 0
  /\ pc = "run"
  /\ queue = <<>> /\ file = <<>>
  /\ waiting = NoEvent
  /\ warning = FALSE
  /\ req = [r \in Requests |-> Idle]
  /\ booked = <<>>
  /\ accepted = <<>> /\ shown = <<>> /\ clear = {} /\ intact = TRUE

FinishSave ==
  /\ pc = "saving"
  /\ pc' = "run"
  /\ \/ file' = queue
     \/ "full" \in Faults /\ file' = <<>>
  /\ UNCHANGED <<now, queue, waiting, warning, req, booked, accepted, shown, clear, intact>>

\* handleTimeEvent and bookTimeRequest for a verified card.  A swipe that is
\* refused (not finished yet, or outside the opening hours) changes nothing.
Swipe(card) ==
  /\ pc = "run"
  /\ Len(accepted) < MaxAccepted
  /\ ~NotFinished(card)
  /\ Bookable(BookingTime(now))
  /\ LET ev == [no |-> Len(accepted) + 1, card |-> card, time |-> BookingTime(now)]
     IN  /\ accepted' = Append(accepted, ev)
         /\ waiting' = ev
         /\ queue' = Enqueue(ev)
  /\ shown' = Append(shown, "asked")
  /\ StartSave
  /\ UNCHANGED <<now, warning, req, booked, clear, intact>>

\* No booking of that card older than n, nor n itself, is with the server.
NoneUnderWay(n) ==
  /\ n \notin BookedNos
  /\ \A m \in 1..(n - 1) : accepted[m].card = accepted[n].card => m \in BookedNos

\* The answer to bookTimeRequest's own getUserStatus.
ShowAnswer(n) ==
  /\ pc = "run"
  /\ n \in DOMAIN shown /\ shown[n] = "asked"
  /\ shown' = [shown EXCEPT ![n] =
                 IF IsClockedIn(accepted[n].card) THEN "logout" ELSE "login"]
  /\ clear' = IF NoneUnderWay(n) THEN clear \cup {n} ELSE clear
  /\ UNCHANGED <<now, pc, queue, file, waiting, warning, req, booked, accepted, intact>>

ShowOffline(n) ==
  /\ "get" \in Faults
  /\ pc = "run"
  /\ n \in DOMAIN shown /\ shown[n] = "asked"
  /\ shown' = [shown EXCEPT ![n] = "saved"]
  /\ warning' = TRUE
  /\ UNCHANGED <<now, pc, queue, file, waiting, req, booked, accepted, clear, intact>>

-----------------------------------------------------------------------------
\* Seeded faults.
\* Of Tick: it offers the newest event; it pauses after a warning.
TickNewest ==
  pc = "run" /\ queue # <<>> /\ (Timely => Prompt) /\ Offer(queue[Len(queue)])
TickPaused ==
  pc = "run" /\ queue # <<>> /\ (Timely => Prompt) /\ ~warning /\ Offer(Head(queue))

\* bookNextTimeEvent: the timer offers the head of the queue, whatever is
\* already under way for it.
Tick ==
  /\ pc = "run" /\ queue # <<>>
  /\ Timely => Prompt
  /\ Offer(Head(queue))

\* The timer fires and finds nothing to book.
IdleTick == pc = "run" /\ queue = <<>> /\ UNCHANGED vars

\* bookTime's status callback posts the opposite of the status ...
StatusAnswer(r) ==
  /\ pc = "run"
  /\ req[r].phase = "status"
  /\ req' = [req EXCEPT ![r].phase = "post",
                        ![r].action = ActionFor(IsClockedIn(req[r].ev.card))]
  /\ UNCHANGED <<now, pc, queue, file, waiting, warning, booked, accepted, shown, clear, intact>>

\* ... and after an error it posts all the same, as for NoClockStatus.
StatusFails(r) ==
  /\ "get" \in Faults
  /\ pc = "run"
  /\ req[r].phase = "status"
  /\ req' = [req EXCEPT ![r].phase = "post", ![r].action = ActionFor(FALSE)]
  /\ UNCHANGED <<now, pc, queue, file, waiting, warning, booked, accepted, shown, clear, intact>>

\* The server records a POST, also one the client no longer waits for.
ServerBooks(r) ==
  /\ req[r].phase \in {"post", "orphan"}
  /\ Len(booked) < MaxBooked
  /\ booked' = Append(booked, Booking(req[r]))
  /\ req' = [req EXCEPT ![r] =
               IF req[r].phase = "post" THEN [@ EXCEPT !.phase = "acked"] ELSE Idle]
  /\ UNCHANGED <<now, pc, queue, file, waiting, warning, accepted, shown, clear, intact>>

\* bookNextTimeEvent's callback after success: removeFirst and save.  On an
\* empty list QList::removeFirst is undefined.
BookingConfirmed(r) ==
  /\ pc = "run"
  /\ req[r].phase = "acked"
  /\ req' = [req EXCEPT ![r] = Idle]
  /\ \/ queue # <<>> /\ queue' = RemoveFirst(queue) /\ StartSave
     \/ queue = <<>> /\ pc' = "undefined" /\ UNCHANGED <<queue, file>>
  /\ UNCHANGED <<now, waiting, warning, booked, accepted, shown, clear, intact>>

\* The callback after an error; the event stays at the head of the queue.
BookingFails(r) ==
  /\ pc = "run"
  /\ \/ "refuse" \in Faults /\ req[r].phase = "post"  /\ req' = [req EXCEPT ![r] = Idle]
     \/ "ack" \in Faults    /\ req[r].phase = "acked" /\ req' = [req EXCEPT ![r] = Idle]
     \/ /\ "late" \in Faults /\ req[r].phase = "post"
        /\ req' = [req EXCEPT ![r].phase = "orphan"]
  /\ warning' = TRUE
  /\ UNCHANGED <<now, pc, queue, file, waiting, booked, accepted, shown, clear, intact>>

OrphanLost(r) ==
  /\ req[r].phase = "orphan"
  /\ req' = [req EXCEPT ![r] = Idle]
  /\ UNCHANGED <<now, pc, queue, file, waiting, warning, booked, accepted, shown, clear, intact>>

-----------------------------------------------------------------------------
\* The process ends.  Memory is gone, the file stays as it is, and a POST on
\* its way may still reach the server.
Stop ==
  /\ \/ pc = "run" /\ "stop" \in Faults
     \/ pc = "saving" /\ "torn" \in Faults
     \/ pc = "undefined"
  /\ pc' = "down"
  /\ queue' = <<>> /\ waiting' = NoEvent /\ warning' = FALSE
  /\ req' = [r \in Requests |->
               IF req[r].phase \in {"post", "orphan"} THEN [req[r] EXCEPT !.phase = "orphan"]
                                                      ELSE Idle]
  /\ shown' = [n \in DOMAIN shown |-> IF shown[n] = "asked" THEN "lost" ELSE shown[n]]
  /\ intact' = (intact /\ file = queue)
  /\ UNCHANGED <<now, file, booked, accepted, clear>>

\* The constructor: setUpTimer and loadEmployeeTimeEvents, which begins with an
\* empty list when the file cannot be opened.
Restart ==
  /\ pc = "down" /\ pc' = "run"
  /\ \/ queue' = Loaded /\ UNCHANGED intact
     \/ "load" \in Faults /\ queue' = <<>> /\ intact' = (intact /\ file = <<>>)
  /\ UNCHANGED <<now, file, waiting, warning, req, booked, accepted, shown, clear>>

\* ETRSPlugin::reset, pressed by the operator.
Reset ==
  /\ pc = "run" /\ warning
  /\ warning' = FALSE
  /\ UNCHANGED <<now, pc, queue, file, waiting, req, booked, accepted, shown, clear, intact>>

ClockAdvances ==
  /\ now < MaxNow
  /\ now' = now + 1
  /\ UNCHANGED <<pc, queue, file, waiting, warning, req, booked, accepted, shown, clear, intact>>

Next ==
  \/ FinishSave \/ Tick \/ IdleTick \/ Stop \/ Restart \/ Reset \/ ClockAdvances
  \/ \E card \in Cards : Swipe(card)
  \/ \E n \in 1..MaxAccepted : ShowAnswer(n) \/ ShowOffline(n)
  \/ \E r \in Requests :
       \/ StatusAnswer(r) \/ StatusFails(r) \/ ServerBooks(r)
       \/ BookingConfirmed(r) \/ BookingFails(r) \/ OrphanLost(r)

Spec == Init /\ [][Next]_vars
-----------------------------------------------------------------------------
\* The network answers within a timer period; each request, the employee's
\* status display included, is eventually answered; a server that is offered
\* the same booking again and again records it in the end.  Employees and the
\* operator owe nothing.
Fairness ==
  /\ WF_vars(FinishSave) /\ WF_vars(Tick) /\ WF_vars(Restart)
  /\ \A n \in 1..MaxAccepted : WF_vars(ShowAnswer(n) \/ ShowOffline(n))
  /\ \A r \in Requests :
       /\ WF_vars(StatusAnswer(r) \/ StatusFails(r))
       /\ SF_vars(ServerBooks(r))
       /\ WF_vars(BookingConfirmed(r))
       /\ WF_vars(OrphanLost(r))

FairSpec == Spec /\ Fairness

-----------------------------------------------------------------------------
\* Type invariant: the queue, the file and the requests hold events, the
\* server's journal holds bookings of events.
TypeOK ==
  /\ now \in Nat
  /\ pc \in {"run", "saving", "down", "undefined"}
  /\ queue \in Seq(TimeEvent) /\ file \in Seq(TimeEvent)
  /\ waiting \in TimeEvent \cup {NoEvent}
  /\ warning \in BOOLEAN
  /\ req \in [Requests -> OpenRequest \cup {Idle}]
  /\ booked \in Seq(Bookings)
  /\ accepted \in Seq(TimeEvent)
  /\ shown \in Seq({"asked", "login", "logout", "saved", "lost"})
  /\ clear \subseteq Nat /\ intact \in BOOLEAN

InOrder(events) ==
  \A i, j \in DOMAIN events :
    i < j => events[i].no < events[j].no /\ events[i].time <= events[j].time

\* Whatever the network does and whenever the process dies, the queue and the
\* file hold bookings in the order in which they were accepted, none of them
\* twice, with booking times that never go backwards (bookTimeRequest's
\* append, removeFirst and loadEmployeeTimeEvents).
QueueInOrder == InOrder(queue) /\ InOrder(file)

\* e carries the card and the time of the accepted event of its number.
IsAccepted(e) ==
  /\ e.no \in DOMAIN accepted
  /\ accepted[e.no].card = e.card /\ accepted[e.no].time = e.time

\* The server is never told a booking nobody made: whatever is queued, saved,
\* under way or recorded is an accepted event, with its card and its time
\* (bookTime captures the event by value, setBookTime sends its bookingTime).
NothingInvented ==
  /\ \A i \in DOMAIN queue : IsAccepted(queue[i])
  /\ \A i \in DOMAIN file : IsAccepted(file[i])
  /\ \A r \in Requests : req[r] # Idle => IsAccepted(req[r].ev)
  /\ \A i \in DOMAIN booked : IsAccepted(booked[i])

\* What the queue is, also while only the file of it is left.
Pending == IF pc = "down" THEN file ELSE queue

\* As long as answers come before the next tick, the process ends only when the
\* file is up to date, and a start can read the file, no accepted booking is
\* lost, whatever else fails: it is in the queue (in the file while the process
\* is down) or with the server, and removeFirst is never called on an empty list.
NothingLost ==
  intact =>
    /\ pc # "undefined"
    /\ \A n \in DOMAIN accepted :
         n \in BookedNos \cup NosIn(Pending)

\* When a booking that fails was not recorded, the server records every
\* booking once and in the order of acceptance.
BookedOnceInOrder == \A i \in DOMAIN booked : booked[i].no = i

\* When, besides, the status can be read, a card's bookings alternate,
\* beginning with "in".
ActionsAlternate ==
  \A i \in DOMAIN booked :
    booked[i].action = "out"
      <=> \E j \in 1..(i - 1) :
            /\ booked[j].card = booked[i].card /\ booked[j].action = "in"
            /\ \A k \in (j + 1)..(i - 1) : booked[k].card # booked[i].card

\* What the employee is told is what the server then records, provided that
\* no older booking of the card was still under way when it was said.
ShownIsBooked ==
  \A i \in DOMAIN booked :
    LET n == booked[i].no
    IN  n \in clear => booked[i].action = IF shown[n] = "logout" THEN "out" ELSE "in"

\* "Buchung gespeichert", the employee is told when the server cannot be
\* reached (bookTimeRequest): the booking is saved.  It stays in the queue
\* or the file until the server has it.
SavedStaysSaved ==
  \A n \in DOMAIN shown :
    shown[n] = "saved" => n \in BookedNos \cup NosIn(queue) \cup NosIn(file)

\* Every accepted booking reaches the server in the end, whatever status
\* requests and bookings fail before.
EventuallyBooked ==
  \A n \in 1..MaxAccepted : n \in DOMAIN accepted ~> n \in BookedNos

\* Under the same conditions the booking path is a BookingOutbox: the server
\* gets the events in order, and each leaves the queue only after the server
\* has recorded it.
Recorded ==
  {[no |-> booked[i].no, card |-> booked[i].card, time |-> booked[i].time] : i \in DOMAIN booked}

OutboxEvents == [no : 1..MaxAccepted, card : Cards, time : 0..(MaxNow + Opening)]

Outbox == INSTANCE BookingOutbox WITH
  Event <- OutboxEvents, pending <- Pending, recorded <- Recorded

ImplementsOutbox == Outbox!Spec
=============================================================================

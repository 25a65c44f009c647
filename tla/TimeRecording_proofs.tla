------------------------ MODULE TimeRecording_proofs ------------------------
(***************************************************************************)
(* Proofs about TimeRecording, for every set of cards and requests, every  *)
(* choice of faults, and a network that is timely or not.                  *)
(***************************************************************************)
EXTENDS TimeRecording, TLAPS

\* An early swipe is booked later than it was made, never earlier.
LEMMA BookingTimeForward ==
  ASSUME NEW t \in Nat
  PROVE  BookingTime(t) \in Nat /\ BookingTime(t) >= t
<1>1. DayLength \in Nat \ {0} /\ Opening \in Nat /\ EarlyFrom \in Nat
  BY ConstantsAssumption
<1>2. t % DayLength \in Int
  BY <1>1
<1>3. CASE t % DayLength \in EarlyFrom..(Opening - 1)
  BY <1>1, <1>2, <1>3 DEF BookingTime
<1>4. CASE t % DayLength \notin EarlyFrom..(Opening - 1)
  BY <1>4 DEF BookingTime
<1> QED BY <1>3, <1>4

\* Division leaves one remainder.
LEMMA RemainderUnique ==
  ASSUME NEW q \in Int, NEW p \in Int, NEW r \in Int, NEW s \in Int, NEW d \in Nat \ {0},
         d * q + r = d * p + s, 0 <= r, r < d, 0 <= s, s < d
  PROVE  r = s
<1>1. d * (q - p) = s - r
  OBVIOUS
<1>2. CASE q - p >= 1
  <2>1. d * (q - p) >= d
    BY <1>2
  <2> QED BY <1>1, <2>1
<1>3. CASE q - p <= -1
  <2>1. d * (q - p) <= -d
    BY <1>3
  <2> QED BY <1>1, <2>1
<1>4. CASE q - p = 0
  BY <1>1, <1>4
<1> QED BY <1>2, <1>3, <1>4

LEMMA DivisionWithRemainder ==
  ASSUME NEW t \in Nat, NEW d \in Nat \ {0}
  PROVE  t = d * (t \div d) + (t % d)
  OBVIOUS

\* Within a day the time of day advances with the clock.
LEMMA NextInDay ==
  ASSUME NEW t \in Nat, NEW d \in Nat \ {0}, (t % d) + 1 < d
  PROVE  (t + 1) % d = (t % d) + 1
<1>1. /\ {t \div d, (t + 1) \div d, t % d, (t + 1) % d} \subseteq Int
      /\ 0 <= t % d /\ 0 <= (t + 1) % d /\ (t + 1) % d < d
  OBVIOUS
<1>2. t + 1 = d * ((t + 1) \div d) + ((t + 1) % d)
  BY DivisionWithRemainder
<1>3. t + 1 = d * (t \div d) + ((t % d) + 1)
  BY <1>1, DivisionWithRemainder
<1> QED BY <1>1, <1>2, <1>3, RemainderUnique

\* A later swipe is not booked earlier.
LEMMA BookingTimeMonotone ==
  ASSUME NEW t \in Nat
  PROVE  BookingTime(t) <= BookingTime(t + 1)
<1>1. /\ DayLength \in Nat \ {0} /\ {Opening, EarlyFrom, Closing} \subseteq Nat
      /\ Opening <= Closing /\ Closing < DayLength
  BY ConstantsAssumption
<1>2. t % DayLength \in Int /\ (t + 1) % DayLength \in Int
  BY <1>1
<1>3. CASE t % DayLength \in EarlyFrom..(Opening - 1)
  <2>1. (t % DayLength) + 1 < DayLength
    BY <1>1, <1>2, <1>3
  <2>2. (t + 1) % DayLength = (t % DayLength) + 1
    BY <1>1, <2>1, NextInDay
  <2> QED BY <1>1, <1>2, <1>3, <2>2 DEF BookingTime
<1>4. CASE t % DayLength \notin EarlyFrom..(Opening - 1)
  BY <1>4, BookingTimeForward DEF BookingTime
<1> QED BY <1>3, <1>4

-----------------------------------------------------------------------------
\* The requests under way, by phase.
LEMMA RequestPhases ==
  /\ \A q \in OpenRequest :
       /\ q.ev \in TimeEvent
       /\ q.phase \in {"status", "post", "acked", "orphan"}
       /\ q.phase = "status" => q.action = "none"
       /\ q.phase # "status" => q.action \in Actions
       /\ q = [phase |-> q.phase, ev |-> q.ev, action |-> q.action]
  /\ Idle \notin OpenRequest /\ Idle.phase = "idle"
<1>1. ASSUME NEW q \in [phase : {"status"}, ev : TimeEvent, action : {"none"}]
      PROVE  q.ev \in TimeEvent /\ q.phase = "status" /\ q.action = "none"
             /\ q = [phase |-> q.phase, ev |-> q.ev, action |-> q.action]
  OBVIOUS
<1>2. ASSUME NEW q \in [phase : {"post", "acked", "orphan"}, ev : TimeEvent, action : Actions]
      PROVE  q.ev \in TimeEvent /\ q.phase \in {"post", "acked", "orphan"} /\ q.action \in Actions
             /\ q = [phase |-> q.phase, ev |-> q.ev, action |-> q.action]
  OBVIOUS
<1>3. Idle.phase = "idle"
  BY DEF Idle
<1> QED BY <1>1, <1>2, <1>3 DEF OpenRequest

LEMMA EmptySequence == \A S : <<>> \in Seq(S)
OBVIOUS

LEMMA SequenceExcept ==
  ASSUME NEW S, NEW s \in Seq(S), NEW i, NEW x \in S
  PROVE  /\ [s EXCEPT ![i] = x] \in Seq(S)
         /\ DOMAIN [s EXCEPT ![i] = x] = DOMAIN s
<1>1. [s EXCEPT ![i] = x] = [j \in 1..Len(s) |-> IF j = i THEN x ELSE s[j]]
  OBVIOUS
<1>2. [s EXCEPT ![i] = x] \in Seq(S)
  <2>1. Len(s) \in Nat /\ \A j \in 1..Len(s) : s[j] \in S
    OBVIOUS
  <2>2. [s EXCEPT ![i] = x] \in [1..Len(s) -> S]
    BY <1>1, <2>1
  <2> QED BY <2>1, <2>2
<1>3. DOMAIN [s EXCEPT ![i] = x] = DOMAIN s
  OBVIOUS
<1> QED BY <1>2, <1>3

LEMMA SequenceTail ==
  ASSUME NEW S, NEW s \in Seq(S), s # <<>>
  PROVE  /\ Tail(s) \in Seq(S) /\ DOMAIN Tail(s) = 1..(Len(s) - 1)
         /\ \A i \in DOMAIN Tail(s) : i + 1 \in DOMAIN s /\ Tail(s)[i] = s[i + 1]
OBVIOUS

LEMMA RequestMade ==
  /\ \A e \in TimeEvent : [phase |-> "status", ev |-> e, action |-> "none"] \in OpenRequest
  /\ \A e \in TimeEvent, a \in Actions, p \in {"post", "acked", "orphan"} :
       [phase |-> p, ev |-> e, action |-> a] \in OpenRequest
BY DEF OpenRequest

\* Giving up a POST, or recording it, leaves its event and its action.
LEMMA RequestMoved ==
  ASSUME NEW q \in OpenRequest, q.phase # "status", NEW p \in {"post", "acked", "orphan"}
  PROVE  /\ [q EXCEPT !.phase = p] = [phase |-> p, ev |-> q.ev, action |-> q.action]
         /\ [q EXCEPT !.phase = p] \in OpenRequest
<1>1. q = [phase |-> q.phase, ev |-> q.ev, action |-> q.action]
  BY RequestPhases
<1>2. [q EXCEPT !.phase = p] = [phase |-> p, ev |-> q.ev, action |-> q.action]
  BY <1>1
<1>3. q.ev \in TimeEvent /\ q.action \in Actions
  BY RequestPhases
<1>4. [phase |-> p, ev |-> q.ev, action |-> q.action] \in OpenRequest
  BY <1>3, RequestMade
<1> QED BY <1>2, <1>4

-----------------------------------------------------------------------------
\* The type invariant.
THEOREM TypeCorrect == Spec => []TypeOK
<1>1. Init => TypeOK
  <2> SUFFICES ASSUME Init PROVE TypeOK
    OBVIOUS
  <2>1. now \in Nat /\ pc = "run" /\ warning \in BOOLEAN
    BY DEF Init
  <2>2. queue \in Seq(TimeEvent) /\ file \in Seq(TimeEvent)
    BY DEF Init
  <2>3. req \in [Requests -> OpenRequest \cup {Idle}]
    BY DEF Init
  <2>4. booked \in Seq(Bookings) /\ accepted \in Seq(TimeEvent) /\ clear \subseteq Nat
    BY DEF Init
  <2>5. shown \in Seq({"asked", "login", "logout", "saved", "lost"})
    BY DEF Init
  <2> QED BY <2>1, <2>2, <2>3, <2>4, <2>5 DEF Init, TypeOK
<1>2. TypeOK /\ [Next]_vars => TypeOK'
  <2> SUFFICES ASSUME TypeOK, [Next]_vars
               PROVE  TypeOK'
    OBVIOUS
  <2> USE DEF TypeOK
  <2>1. CASE FinishSave
    BY <2>1, EmptySequence DEF FinishSave
  <2>2. CASE Tick
    <3>1. Head(queue) \in TimeEvent
      BY <2>2 DEF Tick
    <3> QED BY <2>2, <3>1, RequestMade DEF Tick, Offer
  <2>3. CASE IdleTick
    BY <2>3 DEF IdleTick, vars
  <2>4. CASE Stop
    <3>1. req' \in [Requests -> OpenRequest \cup {Idle}]
      BY <2>4, RequestPhases, RequestMoved DEF Stop
    <3>2. shown' \in Seq({"asked", "login", "logout", "saved", "lost"})
      <4>1. shown' = [n \in 1..Len(shown) |-> IF shown[n] = "asked" THEN "lost" ELSE shown[n]]
        BY <2>4 DEF Stop
      <4> QED BY <4>1
    <3> QED BY <2>4, <3>1, <3>2, EmptySequence DEF Stop
  <2>5. CASE Restart
    BY <2>5, EmptySequence DEF Restart, Loaded
  <2>6. CASE Reset
    BY <2>6 DEF Reset
  <2>7. CASE ClockAdvances
    BY <2>7 DEF ClockAdvances
  <2>8. ASSUME NEW card \in Cards, Swipe(card)
        PROVE  TypeOK'
    <3> DEFINE ev == [no |-> Len(accepted) + 1, card |-> card, time |-> BookingTime(now)]
    <3>1. ev \in TimeEvent
      <4>1. Len(accepted) + 1 \in Nat \ {0}
        OBVIOUS
      <4>2. BookingTime(now) \in Nat
        BY BookingTimeForward
      <4> QED BY <4>1, <4>2 DEF TimeEvent
    <3>2. accepted' = Append(accepted, ev) /\ waiting' = ev /\ queue' = Append(queue, ev)
      BY <2>8 DEF Swipe, Enqueue
    <3>3. shown' = Append(shown, "asked")
      BY <2>8 DEF Swipe
    <3>4. pc' \in {"run", "saving"} /\ file' \in Seq(TimeEvent)
      BY <2>8, EmptySequence DEF Swipe, StartSave
    <3> HIDE DEF ev
    <3>5. accepted' \in Seq(TimeEvent) /\ queue' \in Seq(TimeEvent)
      BY <3>1, <3>2
    <3>6. shown' \in Seq({"asked", "login", "logout", "saved", "lost"})
      BY <3>3
    <3> QED BY <2>8, <3>1, <3>2, <3>4, <3>5, <3>6 DEF Swipe
  <2>9. ASSUME NEW n \in 1..MaxAccepted, ShowAnswer(n) \/ ShowOffline(n)
        PROVE  TypeOK'
    <3>1. PICK told \in {"login", "logout", "saved"} : shown' = [shown EXCEPT ![n] = told]
      BY <2>9 DEF ShowAnswer, ShowOffline
    <3>2. shown' \in Seq({"asked", "login", "logout", "saved", "lost"})
      BY <3>1, SequenceExcept
    <3> n \in Nat
      BY ConstantsAssumption
    <3>3. clear' \subseteq Nat /\ warning' \in BOOLEAN
      BY <2>9 DEF ShowAnswer, ShowOffline
    <3> QED BY <2>9, <3>2, <3>3 DEF ShowAnswer, ShowOffline
  <2>10. ASSUME NEW r \in Requests, StatusAnswer(r) \/ StatusFails(r)
         PROVE  TypeOK'
    <3>1. req[r] \in OpenRequest /\ req[r].phase = "status" /\ req[r].ev \in TimeEvent
      BY <2>10, RequestPhases DEF StatusAnswer, StatusFails
    <3>2. PICK a \in Actions : req' = [req EXCEPT ![r].phase = "post", ![r].action = a]
      BY <2>10 DEF StatusAnswer, StatusFails, ActionFor, Actions
    <3>3. req'[r] = [phase |-> "post", ev |-> req[r].ev, action |-> a]
      <4>1. req[r] = [phase |-> "status", ev |-> req[r].ev, action |-> req[r].action]
        BY <3>1, RequestPhases
      <4> QED BY <3>2, <4>1
    <3>4. req' = [req EXCEPT ![r] = [phase |-> "post", ev |-> req[r].ev, action |-> a]]
      BY <3>2, <3>3
    <3>5. req' \in [Requests -> OpenRequest \cup {Idle}]
      BY <3>1, <3>4, RequestMade
    <3> QED BY <2>10, <3>5 DEF StatusAnswer, StatusFails
  <2>11. ASSUME NEW r \in Requests, ServerBooks(r)
         PROVE  TypeOK'
    <3>1. req[r] \in OpenRequest /\ req[r].ev \in TimeEvent /\ req[r].action \in Actions
      BY <2>11, RequestPhases DEF ServerBooks
    <3>2. Booking(req[r]) \in Bookings
      BY <3>1 DEF Booking, Bookings, TimeEvent
    <3>3. [req[r] EXCEPT !.phase = "acked"] \in OpenRequest
      BY <2>11, <3>1, RequestMoved DEF ServerBooks
    <3> QED BY <2>11, <3>2, <3>3 DEF ServerBooks
  <2>12. ASSUME NEW r \in Requests, BookingConfirmed(r)
         PROVE  TypeOK'
    <3>1. queue' \in Seq(TimeEvent)
      BY <2>12, SequenceTail DEF BookingConfirmed, RemoveFirst
    <3>2. file' \in Seq(TimeEvent) /\ pc' \in {"saving", "run", "undefined"}
      BY <2>12, EmptySequence DEF BookingConfirmed, StartSave
    <3> QED BY <2>12, <3>1, <3>2 DEF BookingConfirmed
  <2>13. ASSUME NEW r \in Requests, BookingFails(r)
         PROVE  TypeOK'
    <3>1. req[r].phase = "post" => [req[r] EXCEPT !.phase = "orphan"] \in OpenRequest
      BY RequestPhases, RequestMoved
    <3> QED BY <2>13, <3>1 DEF BookingFails
  <2>14. ASSUME NEW r \in Requests, OrphanLost(r)
         PROVE  TypeOK'
    BY <2>14 DEF OrphanLost
  <2>15. CASE UNCHANGED vars
    BY <2>15 DEF vars
  <2> QED BY <2>1, <2>2, <2>3, <2>4, <2>5, <2>6, <2>7, <2>8, <2>9, <2>10, <2>11, <2>12,
             <2>13, <2>14, <2>15 DEF Next
<1> QED BY <1>1, <1>2, PTL DEF Spec

-----------------------------------------------------------------------------
\* What was accepted stays accepted: no handler rewrites the past.
LEMMA AcceptedStays ==
  ASSUME TypeOK, [Next]_vars
  PROVE  \A e : IsAccepted(e) => /\ e.no \in DOMAIN accepted'
                                 /\ accepted'[e.no].card = e.card
                                 /\ accepted'[e.no].time = e.time
<1>1. ASSUME NEW card \in Cards, Swipe(card)
      PROVE  \E ev : accepted' = Append(accepted, ev)
  BY <1>1 DEF Swipe
<1>2. CASE \E ev : accepted' = Append(accepted, ev)
  <2>1. PICK ev : accepted' = Append(accepted, ev)
    BY <1>2
  <2>2. \A i \in DOMAIN accepted : i \in DOMAIN accepted' /\ accepted'[i] = accepted[i]
    BY <2>1 DEF TypeOK
  <2> QED BY <2>2 DEF IsAccepted
<1>3. CASE accepted' = accepted
  BY <1>3 DEF IsAccepted
<1>4. (\E card \in Cards : Swipe(card)) \/ accepted' = accepted
  BY DEF Next, vars, FinishSave, Tick, Offer, IdleTick, Stop, Restart, Reset, ClockAdvances,
         ShowAnswer, ShowOffline, StatusAnswer, StatusFails, ServerBooks, BookingConfirmed,
         BookingFails, OrphanLost
<1> QED BY <1>1, <1>2, <1>3, <1>4

\* Whatever is queued, saved, under way or recorded was accepted, in every
\* regime of the network and with every fault.
THEOREM NothingIsInvented == Spec => []NothingInvented
<1>1. Init => NothingInvented
  BY DEF Init, NothingInvented
<1>2. TypeOK /\ NothingInvented /\ [Next]_vars => NothingInvented'
  <2> SUFFICES ASSUME TypeOK, NothingInvented, [Next]_vars
               PROVE  NothingInvented'
    OBVIOUS
  <2> DEFINE Stays(e) == /\ e.no \in DOMAIN accepted' /\ accepted'[e.no].card = e.card
                         /\ accepted'[e.no].time = e.time
  <2>a. \A e : IsAccepted(e) => Stays(e)
    BY AcceptedStays
  <2>b. \A i \in DOMAIN queue : Stays(queue[i])
    BY <2>a DEF NothingInvented
  <2>c. \A i \in DOMAIN file : Stays(file[i])
    BY <2>a DEF NothingInvented
  <2>d. \A r \in Requests : req[r] # Idle => Stays(req[r].ev)
    BY <2>a DEF NothingInvented
  <2>e. \A i \in DOMAIN booked : Stays(booked[i])
    BY <2>a DEF NothingInvented
  <2> DEFINE AllStay == /\ \A i \in DOMAIN queue' : Stays(queue'[i])
                        /\ \A i \in DOMAIN file' : Stays(file'[i])
                        /\ \A r \in Requests : req'[r] # Idle => Stays(req'[r].ev)
                        /\ \A i \in DOMAIN booked' : Stays(booked'[i])
  <2>f. AllStay
    <3> HIDE DEF Stays
    <3>1. CASE FinishSave
      BY <3>1, <2>b, <2>c, <2>d, <2>e DEF FinishSave
    <3>2. CASE Tick
      <4>1. Stays(Head(queue))
        BY <3>2, <2>b DEF Tick, TypeOK
      <4>2. \A r \in Requests : req'[r] # Idle => Stays(req'[r].ev)
        BY <3>2, <4>1, <2>d DEF Tick, Offer, TypeOK
      <4> QED BY <3>2, <4>2, <2>b, <2>c, <2>e DEF Tick, Offer
    <3>3. CASE Stop
      <4>1. \A r \in Requests : req'[r] # Idle => req[r] # Idle /\ req'[r].ev = req[r].ev
        BY <3>3, RequestPhases DEF Stop, TypeOK
      <4> QED BY <3>3, <4>1, <2>c, <2>d, <2>e DEF Stop
    <3>4. CASE Restart
      BY <3>4, <2>c, <2>d, <2>e DEF Restart, Loaded
    <3>5. ASSUME NEW card \in Cards, Swipe(card)
          PROVE  AllStay
      <4> DEFINE ev == [no |-> Len(accepted) + 1, card |-> card, time |-> BookingTime(now)]
      <4>1. accepted' = Append(accepted, ev) /\ queue' = Append(queue, ev)
            /\ (file' = <<>> \/ file' = file) /\ UNCHANGED <<req, booked>>
        BY <3>5 DEF Swipe, StartSave, Enqueue
      <4>2. Stays(ev)
        BY <4>1 DEF Stays, TypeOK
      <4> HIDE DEF ev
      <4>3. \A i \in DOMAIN queue' : Stays(queue'[i])
        BY <4>1, <4>2, <2>b DEF TypeOK
      <4> QED BY <4>1, <4>3, <2>c, <2>d, <2>e
    <3>6. ASSUME NEW r \in Requests, StatusAnswer(r) \/ StatusFails(r)
          PROVE  AllStay
      <4>1. req[r] # Idle /\ req[r] \in OpenRequest
        BY <3>6, RequestPhases DEF StatusAnswer, StatusFails, TypeOK
      <4>2. PICK a : req' = [req EXCEPT ![r].phase = "post", ![r].action = a]
        BY <3>6 DEF StatusAnswer, StatusFails
      <4>3. req'[r].ev = req[r].ev
        <5>1. req[r] = [phase |-> req[r].phase, ev |-> req[r].ev, action |-> req[r].action]
          BY <4>1, RequestPhases
        <5> QED BY <4>2, <5>1 DEF TypeOK
      <4>4. \A s \in Requests \ {r} : req'[s] = req[s]
        BY <4>2 DEF TypeOK
      <4> QED BY <3>6, <4>1, <4>3, <4>4, <2>b, <2>c, <2>d, <2>e DEF StatusAnswer, StatusFails
    <3>7. ASSUME NEW r \in Requests, ServerBooks(r)
          PROVE  AllStay
      <4>1. \A s \in Requests : req'[s] # Idle => req[s] # Idle /\ req'[s].ev = req[s].ev
        BY <3>7, RequestPhases DEF ServerBooks, TypeOK
      <4>2. req[r] # Idle /\ booked' = Append(booked, Booking(req[r]))
        BY <3>7, RequestPhases DEF ServerBooks
      <4>3. Stays(Booking(req[r]))
        BY <4>2, <2>d DEF Stays, Booking
      <4>4. \A i \in DOMAIN booked' : Stays(booked'[i])
        BY <4>2, <4>3, <2>e DEF TypeOK
      <4> QED BY <3>7, <4>1, <4>4, <2>b, <2>c, <2>d DEF ServerBooks
    <3>8. ASSUME NEW r \in Requests, BookingConfirmed(r)
          PROVE  AllStay
      <4>1. \A i \in DOMAIN queue' : Stays(queue'[i])
        <5>1. CASE queue # <<>> /\ queue' = Tail(queue)
          BY <5>1, <2>b, SequenceTail DEF TypeOK
        <5>2. CASE queue' = queue
          BY <5>2, <2>b
        <5> QED BY <3>8, <5>1, <5>2 DEF BookingConfirmed, RemoveFirst
      <4>2. \A i \in DOMAIN file' : Stays(file'[i])
        BY <3>8, <2>c DEF BookingConfirmed, StartSave
      <4>3. \A s \in Requests : req'[s] # Idle => req'[s] = req[s]
        BY <3>8 DEF BookingConfirmed, TypeOK
      <4> QED BY <3>8, <4>1, <4>2, <4>3, <2>d, <2>e DEF BookingConfirmed
    <3>9. ASSUME NEW r \in Requests, BookingFails(r) \/ OrphanLost(r)
          PROVE  AllStay
      <4>1. \/ req' = [req EXCEPT ![r] = Idle]
            \/ req[r].phase = "post" /\ req' = [req EXCEPT ![r].phase = "orphan"]
        BY <3>9 DEF BookingFails, OrphanLost
      <4>2. req[r].phase = "post" => /\ req[r] # Idle
                                     /\ [req[r] EXCEPT !.phase = "orphan"].ev = req[r].ev
        <5> SUFFICES ASSUME req[r].phase = "post"
                     PROVE  /\ req[r] # Idle
                            /\ [req[r] EXCEPT !.phase = "orphan"].ev = req[r].ev
          OBVIOUS
        <5>1. req[r] # Idle /\ req[r] \in OpenRequest
          BY RequestPhases DEF TypeOK
        <5>2. [req[r] EXCEPT !.phase = "orphan"]
                = [phase |-> "orphan", ev |-> req[r].ev, action |-> req[r].action]
          BY <5>1, RequestMoved
        <5> QED BY <5>1, <5>2
      <4>3. \A s \in Requests : req'[s] # Idle => req[s] # Idle /\ req'[s].ev = req[s].ev
        BY <4>1, <4>2 DEF TypeOK
      <4> QED BY <3>9, <4>3, <2>b, <2>c, <2>d, <2>e DEF BookingFails, OrphanLost
    <3>10. CASE UNCHANGED <<queue, file, req, booked>>
      BY <3>10, <2>b, <2>c, <2>d, <2>e
    <3> QED BY <3>1, <3>2, <3>3, <3>4, <3>5, <3>6, <3>7, <3>8, <3>9, <3>10
            DEF Next, vars, IdleTick, Reset, ClockAdvances, ShowAnswer, ShowOffline
  <2> QED BY <2>f DEF NothingInvented, IsAccepted
<1> QED BY <1>1, <1>2, TypeCorrect, PTL DEF Spec

-----------------------------------------------------------------------------
\* Nothing accepted so far is booked later than a swipe made now would be.
AcceptedUpToNow == \A i \in DOMAIN accepted : accepted[i].time <= BookingTime(now)

LEMMA AcceptedTimes == Spec => []AcceptedUpToNow
<1>1. Init => AcceptedUpToNow
  BY DEF Init, AcceptedUpToNow
<1>2. TypeOK /\ AcceptedUpToNow /\ [Next]_vars => AcceptedUpToNow'
  <2> SUFFICES ASSUME TypeOK, AcceptedUpToNow, [Next]_vars
               PROVE  AcceptedUpToNow'
    OBVIOUS
  <2> now \in Nat
    BY DEF TypeOK
  <2>1. ASSUME NEW card \in Cards, Swipe(card)
        PROVE  AcceptedUpToNow'
    <3> DEFINE ev == [no |-> Len(accepted) + 1, card |-> card, time |-> BookingTime(now)]
    <3>1. accepted' = Append(accepted, ev) /\ now' = now
      BY <2>1 DEF Swipe
    <3>2. ev.time = BookingTime(now) /\ BookingTime(now) \in Nat
      BY BookingTimeForward
    <3> HIDE DEF ev
    <3>3. accepted \in Seq(TimeEvent)
      BY DEF TypeOK
    <3>4. \A i \in DOMAIN accepted' : accepted'[i].time <= BookingTime(now)
      BY <3>1, <3>2, <3>3 DEF AcceptedUpToNow
    <3> QED BY <3>1, <3>4 DEF AcceptedUpToNow
  <2>2. CASE ClockAdvances
    <3>1. BookingTime(now) <= BookingTime(now') /\ BookingTime(now) \in Nat /\ BookingTime(now') \in Nat
      BY <2>2, BookingTimeMonotone, BookingTimeForward DEF ClockAdvances
    <3>2. accepted' = accepted /\ \A i \in DOMAIN accepted : accepted[i].time \in Nat
      <4>1. \A i \in DOMAIN accepted : accepted[i] \in TimeEvent
        BY DEF TypeOK
      <4>2. \A e \in TimeEvent : e.time \in Nat
        BY DEF TimeEvent
      <4> QED BY <2>2, <4>1, <4>2 DEF ClockAdvances
    <3>3. \A i \in DOMAIN accepted' : accepted'[i].time <= BookingTime(now')
      BY <3>1, <3>2 DEF AcceptedUpToNow
    <3> QED BY <3>3 DEF AcceptedUpToNow, BookingTime
  <2>3. CASE UNCHANGED <<accepted, now>>
    BY <2>3 DEF AcceptedUpToNow
  <2> QED BY <2>1, <2>2, <2>3
          DEF Next, vars, FinishSave, Tick, Offer, IdleTick, Stop, Restart, Reset, ShowAnswer,
              ShowOffline, StatusAnswer, StatusFails, ServerBooks, BookingConfirmed,
              BookingFails, OrphanLost
<1> QED BY <1>1, <1>2, TypeCorrect, PTL DEF Spec

\* Taking the first event away, and adding a newer one, keep the order.
LEMMA TailInOrder ==
  ASSUME NEW s \in Seq(TimeEvent), s # <<>>, InOrder(s)
  PROVE  InOrder(Tail(s))
<1>1. \A i \in DOMAIN Tail(s) : i \in Nat /\ i + 1 \in DOMAIN s /\ Tail(s)[i] = s[i + 1]
  BY SequenceTail
<1> QED BY <1>1 DEF InOrder

LEMMA AppendInOrder ==
  ASSUME NEW s \in Seq(TimeEvent), NEW e \in TimeEvent, InOrder(s),
         \A i \in DOMAIN s : s[i].no < e.no /\ s[i].time <= e.time
  PROVE  InOrder(Append(s, e))
<1>1. /\ DOMAIN Append(s, e) = 1..(Len(s) + 1) /\ Len(s) \in Nat
      /\ \A i \in 1..Len(s) : Append(s, e)[i] = s[i]
      /\ Append(s, e)[Len(s) + 1] = e
  OBVIOUS
<1>2. ASSUME NEW i \in 1..(Len(s) + 1), NEW j \in 1..(Len(s) + 1), i < j
      PROVE  Append(s, e)[i].no < Append(s, e)[j].no /\ Append(s, e)[i].time <= Append(s, e)[j].time
  <2>1. i \in DOMAIN s /\ Append(s, e)[i] = s[i]
    BY <1>1, <1>2
  <2>2. CASE j = Len(s) + 1
    BY <1>1, <2>1, <2>2
  <2>3. CASE j \in 1..Len(s)
    BY <1>1, <1>2, <2>1, <2>3 DEF InOrder
  <2> QED BY <1>1, <2>2, <2>3
<1> QED BY <1>1, <1>2 DEF InOrder

\* The queue and the file keep the order of acceptance and of booking times,
\* with every fault and however slow the network is.
THEOREM QueueStaysInOrder == Spec => []QueueInOrder
<1>1. Init => QueueInOrder
  BY DEF Init, QueueInOrder, InOrder
<1>2. TypeOK /\ NothingInvented /\ AcceptedUpToNow /\ QueueInOrder /\ [Next]_vars
        => QueueInOrder'
  <2> SUFFICES ASSUME TypeOK, NothingInvented, AcceptedUpToNow, InOrder(queue), InOrder(file),
                      [Next]_vars
               PROVE  InOrder(queue') /\ InOrder(file')
    BY DEF QueueInOrder, InOrder
  <2>1. InOrder(<<>>)
    BY DEF InOrder
  <2>2. CASE FinishSave
    BY <2>1, <2>2 DEF FinishSave
  <2>3. CASE Stop
    BY <2>1, <2>3 DEF Stop
  <2>4. CASE Restart
    BY <2>1, <2>4 DEF Restart, Loaded
  <2>5. ASSUME NEW card \in Cards, Swipe(card)
        PROVE  InOrder(queue') /\ InOrder(file')
    <3> DEFINE ev == [no |-> Len(accepted) + 1, card |-> card, time |-> BookingTime(now)]
    <3>1. queue' = Append(queue, ev) /\ (file' = <<>> \/ file' = file)
      BY <2>5 DEF Swipe, StartSave, Enqueue
    <3>2. BookingTime(now) \in Nat /\ Len(accepted) \in Nat
      <4>1. now \in Nat /\ accepted \in Seq(TimeEvent)
        BY DEF TypeOK
      <4> QED BY <4>1, BookingTimeForward
    <3>3. ev \in TimeEvent
      BY <3>2 DEF TimeEvent
    <3>4. \A i \in DOMAIN queue : queue[i].no < ev.no /\ queue[i].time <= ev.time
      <4> SUFFICES ASSUME NEW i \in DOMAIN queue
                   PROVE  queue[i].no < ev.no /\ queue[i].time <= ev.time
        OBVIOUS
      <4>1. queue[i].no \in 1..Len(accepted) /\ accepted[queue[i].no].time = queue[i].time
        BY DEF NothingInvented, IsAccepted, TypeOK
      <4> QED BY <3>2, <4>1 DEF AcceptedUpToNow, TypeOK
    <3> HIDE DEF ev
    <3> QED BY <2>1, <3>1, <3>3, <3>4, AppendInOrder DEF TypeOK
  <2>6. ASSUME NEW r \in Requests, BookingConfirmed(r)
        PROVE  InOrder(queue') /\ InOrder(file')
    BY <2>1, <2>6, TailInOrder DEF BookingConfirmed, RemoveFirst, StartSave, TypeOK
  <2>7. CASE UNCHANGED <<queue, file>>
    BY <2>7
  <2> QED BY <2>2, <2>3, <2>4, <2>5, <2>6, <2>7
          DEF Next, vars, Tick, Offer, IdleTick, Reset, ClockAdvances, ShowAnswer, ShowOffline,
              StatusAnswer, StatusFails, ServerBooks, BookingFails, OrphanLost
<1> QED BY <1>1, <1>2, TypeCorrect, NothingIsInvented, AcceptedTimes, PTL DEF Spec
-----------------------------------------------------------------------------
\* At most one request is under way, and it is for the first event of the
\* queue; what has been acknowledged is in the journal; a POST that was given
\* up is for the first event, or for one in the journal.
OneForHead ==
  /\ pc # "undefined"
  /\ \A r, q \in Active : r = q
  /\ \A r \in Active : pc # "down" /\ queue # <<>> /\ req[r].ev = Head(queue)
  /\ \A r \in Requests : req[r].phase = "acked" => req[r].ev.no \in BookedNos
  /\ \A r \in Requests :
       req[r].phase = "orphan" =>
         \/ req[r].ev.no \in BookedNos
         \/ Pending # <<>> /\ req[r].ev = Head(Pending)

\* Every accepted event is in the queue or in the journal.
Kept == \A n \in DOMAIN accepted : n \in BookedNos \cup NosIn(Pending)

IntactInv == intact => OneForHead /\ Kept

\* Whether an event is in the journal is never taken back.
LEMMA JournalGrows ==
  ASSUME TypeOK, [Next]_vars
  PROVE  /\ BookedNos \subseteq BookedNos'
         /\ \A r \in Requests : ServerBooks(r) => req[r].ev.no \in BookedNos'
<1>1. ASSUME NEW r \in Requests, ServerBooks(r)
      PROVE  BookedNos \subseteq BookedNos' /\ req[r].ev.no \in BookedNos'
  <2>1. booked' = Append(booked, Booking(req[r])) /\ booked \in Seq(Bookings)
    BY <1>1 DEF ServerBooks, TypeOK
  <2>2. /\ \A i \in DOMAIN booked : i \in DOMAIN booked' /\ booked'[i] = booked[i]
        /\ Len(booked) + 1 \in DOMAIN booked' /\ booked'[Len(booked) + 1] = Booking(req[r])
    BY <2>1
  <2>3. Booking(req[r]).no = req[r].ev.no
    BY DEF Booking
  <2> QED BY <2>2, <2>3 DEF BookedNos
<1>2. ASSUME booked' = booked
      PROVE  BookedNos \subseteq BookedNos'
  BY <1>2 DEF BookedNos
<1>3. (\E r \in Requests : ServerBooks(r)) \/ booked' = booked
  BY DEF Next, vars, FinishSave, Tick, Offer, IdleTick, Stop, Restart, Reset, ClockAdvances,
         ShowAnswer, ShowOffline, StatusAnswer, StatusFails, Swipe, BookingConfirmed,
         BookingFails, OrphanLost
<1>4. \A r \in Requests : ServerBooks(r) => req[r].ev.no \in BookedNos'
  BY <1>1
<1>5. BookedNos \subseteq BookedNos'
  BY <1>1, <1>2, <1>3
<1> QED BY <1>4, <1>5
\* How the requests change, one at a time.
LEMMA RequestSteps ==
  ASSUME TypeOK, NEW r \in Requests
  PROVE  /\ StatusAnswer(r) \/ StatusFails(r) =>
              /\ req[r].phase = "status" /\ req'[r].phase = "post" /\ req'[r].ev = req[r].ev
              /\ \A q \in Requests \ {r} : req'[q] = req[q]
         /\ ServerBooks(r) =>
              /\ \/ req[r].phase = "post" /\ req'[r].phase = "acked" /\ req'[r].ev = req[r].ev
                 \/ req[r].phase = "orphan" /\ req'[r] = Idle
              /\ \A q \in Requests \ {r} : req'[q] = req[q]
         /\ BookingFails(r) =>
              /\ \/ req[r].phase \in {"post", "acked"} /\ req'[r] = Idle
                 \/ req[r].phase = "post" /\ req'[r].phase = "orphan" /\ req'[r].ev = req[r].ev
              /\ \A q \in Requests \ {r} : req'[q] = req[q]
         /\ BookingConfirmed(r) \/ OrphanLost(r) =>
              req'[r] = Idle /\ \A q \in Requests \ {r} : req'[q] = req[q]
<1>1. req \in [Requests -> OpenRequest \cup {Idle}]
  BY DEF TypeOK
<1>2. req[r].phase # "idle" => req[r] \in OpenRequest
  BY <1>1, RequestPhases
<1>3. ASSUME StatusAnswer(r) \/ StatusFails(r)
      PROVE  /\ req[r].phase = "status" /\ req'[r].phase = "post" /\ req'[r].ev = req[r].ev
             /\ \A q \in Requests \ {r} : req'[q] = req[q]
  <2>1. req[r].phase = "status" /\ req[r] = [phase |-> "status", ev |-> req[r].ev, action |-> req[r].action]
    BY <1>2, <1>3, RequestPhases DEF StatusAnswer, StatusFails
  <2>2. PICK a : req' = [req EXCEPT ![r].phase = "post", ![r].action = a]
    BY <1>3 DEF StatusAnswer, StatusFails
  <2>3. req'[r] = [phase |-> "post", ev |-> req[r].ev, action |-> a]
    BY <1>1, <2>1, <2>2
  <2> QED BY <1>1, <2>1, <2>2, <2>3
<1>4. ASSUME NEW p \in {"acked", "orphan"}, req[r].phase = "post"
      PROVE  [req[r] EXCEPT !.phase = p].phase = p /\ [req[r] EXCEPT !.phase = p].ev = req[r].ev
  BY <1>2, <1>4, RequestMoved
<1>5. ASSUME ServerBooks(r)
      PROVE  /\ \/ req[r].phase = "post" /\ req'[r].phase = "acked" /\ req'[r].ev = req[r].ev
                \/ req[r].phase = "orphan" /\ req'[r] = Idle
             /\ \A q \in Requests \ {r} : req'[q] = req[q]
  BY <1>1, <1>4, <1>5 DEF ServerBooks
<1>6. ASSUME BookingFails(r)
      PROVE  /\ \/ req[r].phase \in {"post", "acked"} /\ req'[r] = Idle
                \/ req[r].phase = "post" /\ req'[r].phase = "orphan" /\ req'[r].ev = req[r].ev
             /\ \A q \in Requests \ {r} : req'[q] = req[q]
  BY <1>1, <1>4, <1>6 DEF BookingFails
<1>7. ASSUME BookingConfirmed(r) \/ OrphanLost(r)
      PROVE  req'[r] = Idle /\ \A q \in Requests \ {r} : req'[q] = req[q]
  BY <1>1, <1>7 DEF BookingConfirmed, OrphanLost
<1> QED BY <1>3, <1>5, <1>6, <1>7

\* Adding an event to a list, and taking away the first one.
LEMMA NosAfterAppend ==
  ASSUME NEW S, NEW s \in Seq(S), NEW e
  PROVE  NosIn(s) \cup {e.no} \subseteq NosIn(Append(s, e)) /\ Append(s, e) # <<>>
         /\ (s # <<>> => Head(Append(s, e)) = Head(s))
<1>1. /\ DOMAIN Append(s, e) = 1..(Len(s) + 1) /\ Len(s) \in Nat /\ DOMAIN s = 1..Len(s)
      /\ \A i \in 1..Len(s) : Append(s, e)[i] = s[i]
      /\ Append(s, e)[Len(s) + 1] = e
  OBVIOUS
<1>2. s # <<>> => Head(Append(s, e)) = Head(s)
  OBVIOUS
<1>3. Append(s, e) # <<>>
  <2>1. Len(s) + 1 \in DOMAIN Append(s, e) /\ DOMAIN <<>> = {}
    BY <1>1
  <2> QED BY <2>1
<1>4. NosIn(s) \subseteq NosIn(Append(s, e))
  <2>1. ASSUME NEW i \in DOMAIN s
        PROVE  s[i].no \in NosIn(Append(s, e))
    <3>1. i \in DOMAIN Append(s, e) /\ Append(s, e)[i] = s[i]
      BY <1>1
    <3> QED BY <3>1 DEF NosIn
  <2>2. \A n \in NosIn(s) : \E i \in DOMAIN s : n = s[i].no
    BY DEF NosIn
  <2> QED BY <2>1, <2>2
<1>5. e.no \in NosIn(Append(s, e))
  <2>1. Len(s) + 1 \in DOMAIN Append(s, e)
    BY <1>1
  <2> QED BY <1>1, <2>1 DEF NosIn
<1> QED BY <1>2, <1>3, <1>4, <1>5

LEMMA NosAfterTail ==
  ASSUME NEW S, NEW s \in Seq(S), s # <<>>
  PROVE  NosIn(s) \subseteq NosIn(Tail(s)) \cup {Head(s).no}
<1>1. Head(s) = s[1]
  OBVIOUS
<1>2. ASSUME NEW i \in DOMAIN s, i # 1
      PROVE  s[i].no \in NosIn(Tail(s))
  <2>1. i - 1 \in DOMAIN Tail(s) /\ Tail(s)[i - 1] = s[i]
    BY <1>2
  <2> QED BY <2>1 DEF NosIn
<1> QED BY <1>1, <1>2 DEF NosIn
\* No step ends the promise's premise and keeps it broken only for itself.
LEMMA IntactSteps ==
  ASSUME [Next]_vars, intact'
  PROVE  intact
BY DEF Next, vars, FinishSave, Tick, Offer, IdleTick, Stop, Restart, Reset, ClockAdvances, Swipe,
       ShowAnswer, ShowOffline, StatusAnswer, StatusFails, ServerBooks, BookingConfirmed,
       BookingFails, OrphanLost

LEMMA IntactStep ==
  ASSUME TypeOK, OneForHead, Kept, [Next]_vars, intact'
  PROVE  OneForHead' /\ Kept'
<1> USE DEF Active, Pending
<1>a. /\ BookedNos \subseteq BookedNos'
      /\ \A r \in Requests : ServerBooks(r) => req[r].ev.no \in BookedNos'
  BY JournalGrows
<1>b. /\ req \in [Requests -> OpenRequest \cup {Idle}]
      /\ queue \in Seq(TimeEvent) /\ file \in Seq(TimeEvent)
      /\ Idle.phase = "idle"
  BY RequestPhases DEF TypeOK
<1>1. CASE FinishSave
  BY <1>1, <1>a DEF FinishSave, OneForHead, Kept
<1>2. CASE Tick
  <2>1. PICK r \in Requests :
          req' = [req EXCEPT ![r] = [phase |-> "status", ev |-> Head(queue), action |-> "none"]]
    BY <1>2 DEF Tick, Offer
  <2>2. /\ pc = "run" /\ queue # <<>> /\ Active = {}
        /\ UNCHANGED <<pc, queue, file, booked, accepted>>
    BY <1>2 DEF Tick, Offer
  <2>3. /\ req'[r].phase = "status" /\ req'[r].ev = Head(queue)
        /\ \A q \in Requests \ {r} : req'[q] = req[q]
    BY <1>b, <2>1
  <2>4. Kept'
    BY <1>a, <2>2 DEF Kept, BookedNos
  <2> QED BY <1>a, <2>2, <2>3, <2>4 DEF OneForHead
<1>3. CASE Stop
  <2>1. /\ pc' = "down" /\ file = queue /\ UNCHANGED <<file, accepted, booked>>
        /\ pc # "down"
    BY <1>3 DEF Stop
  <2>2. \A r \in Requests :
          \/ req'[r].phase = "idle"
          \/ /\ req[r].phase \in {"post", "orphan"} /\ req'[r].phase = "orphan"
             /\ req'[r].ev = req[r].ev
    BY <1>3, <1>b, RequestMoved DEF Stop
  <2>3. Kept'
    BY <1>a, <2>1 DEF Kept
  <2> QED BY <1>a, <2>1, <2>2, <2>3 DEF OneForHead
<1>4. CASE Restart
  BY <1>4, <1>a DEF Restart, Loaded, OneForHead, Kept
<1>5. ASSUME NEW card \in Cards, Swipe(card)
      PROVE  OneForHead' /\ Kept'
  <2> DEFINE ev == [no |-> Len(accepted) + 1, card |-> card, time |-> BookingTime(now)]
  <2>1. /\ pc = "run" /\ pc' \in {"run", "saving"} /\ UNCHANGED <<req, booked>>
        /\ accepted' = Append(accepted, ev) /\ queue' = Append(queue, ev)
    BY <1>5 DEF Swipe, StartSave, Enqueue
  <2>2. ev.no = Len(accepted) + 1
    OBVIOUS
  <2> HIDE DEF ev
  <2>3. /\ NosIn(queue) \cup {ev.no} \subseteq NosIn(queue') /\ queue' # <<>>
        /\ (queue # <<>> => Head(queue') = Head(queue))
    BY <1>b, <2>1, NosAfterAppend
  <2>4. \A n \in DOMAIN accepted' : n \in DOMAIN accepted \/ n = ev.no
    <3>1. accepted \in Seq(TimeEvent)
      BY DEF TypeOK
    <3> QED BY <2>1, <2>2, <3>1
  <2>5. Kept'
    BY <1>a, <2>1, <2>3, <2>4 DEF Kept
  <2> QED BY <1>a, <2>1, <2>3, <2>5 DEF OneForHead
<1>6. ASSUME NEW r \in Requests, StatusAnswer(r) \/ StatusFails(r)
      PROVE  OneForHead' /\ Kept'
  <2>1. UNCHANGED <<pc, queue, file, booked, accepted>>
    BY <1>6 DEF StatusAnswer, StatusFails
  <2>2. /\ req[r].phase = "status" /\ req'[r].phase = "post" /\ req'[r].ev = req[r].ev
        /\ \A q \in Requests \ {r} : req'[q] = req[q]
    BY <1>6, RequestSteps
  <2>3. Kept'
    BY <1>a, <2>1 DEF Kept
  <2> QED BY <1>a, <2>1, <2>2, <2>3 DEF OneForHead
<1>7. ASSUME NEW r \in Requests, ServerBooks(r)
      PROVE  OneForHead' /\ Kept'
  <2>1. UNCHANGED <<pc, queue, file, accepted>>
    BY <1>7 DEF ServerBooks
  <2>2. /\ \/ req[r].phase = "post" /\ req'[r].phase = "acked" /\ req'[r].ev = req[r].ev
           \/ req[r].phase = "orphan" /\ req'[r] = Idle
        /\ \A q \in Requests \ {r} : req'[q] = req[q]
        /\ req[r].ev.no \in BookedNos'
    BY <1>a, <1>7, RequestSteps
  <2>3. Kept'
    BY <1>a, <2>1 DEF Kept
  <2> QED BY <1>a, <1>b, <2>1, <2>2, <2>3 DEF OneForHead
<1>8. ASSUME NEW r \in Requests, BookingConfirmed(r)
      PROVE  OneForHead' /\ Kept'
  <2>1. /\ pc = "run" /\ req[r].phase = "acked" /\ UNCHANGED <<booked, accepted>>
        /\ queue # <<>> /\ req[r].ev = Head(queue) /\ Head(queue).no \in BookedNos
    BY <1>8 DEF BookingConfirmed, OneForHead
  <2>2. pc' \in {"run", "saving"} /\ queue' = Tail(queue)
    BY <1>8, <2>1 DEF BookingConfirmed, RemoveFirst, StartSave
  <2>3. NosIn(queue) \subseteq NosIn(queue') \cup {Head(queue).no}
    BY <1>b, <2>1, <2>2, NosAfterTail
  <2>4. Kept'
    BY <1>a, <2>1, <2>2, <2>3 DEF Kept
  <2>5. req'[r] = Idle /\ \A q \in Requests \ {r} : req'[q] = req[q]
    BY <1>8, RequestSteps
  <2>6. \A q \in Requests : req'[q].phase = "orphan" => req'[q].ev.no \in BookedNos'
    <3>1. \A q \in Requests :
            req[q].phase = "orphan" => req[q].ev.no \in BookedNos \/ req[q].ev = Head(queue)
      BY <2>1 DEF OneForHead
    <3> QED BY <1>a, <1>b, <2>1, <2>5, <3>1
  <2>7. \A q \in Requests : req'[q].phase \notin {"status", "post", "acked"}
    <3>1. r \in Active /\ \A q \in Active : q = r
      BY <2>1 DEF OneForHead
    <3> QED BY <1>b, <2>5, <3>1
  <2> QED BY <2>2, <2>4, <2>6, <2>7 DEF OneForHead
<1>9. ASSUME NEW r \in Requests, BookingFails(r)
      PROVE  OneForHead' /\ Kept'
  <2>1. pc = "run" /\ UNCHANGED <<pc, queue, file, booked, accepted>>
    BY <1>9 DEF BookingFails
  <2>2. /\ \/ req[r].phase \in {"post", "acked"} /\ req'[r] = Idle
           \/ req[r].phase = "post" /\ req'[r].phase = "orphan" /\ req'[r].ev = req[r].ev
        /\ \A q \in Requests \ {r} : req'[q] = req[q]
    BY <1>9, RequestSteps
  <2>3. Kept'
    BY <1>a, <2>1 DEF Kept
  <2> QED BY <1>a, <1>b, <2>1, <2>2, <2>3 DEF OneForHead
<1>10. ASSUME NEW r \in Requests, OrphanLost(r)
       PROVE  OneForHead' /\ Kept'
  <2>1. UNCHANGED <<pc, queue, file, booked, accepted>>
    BY <1>10 DEF OrphanLost
  <2>2. req'[r] = Idle /\ \A q \in Requests \ {r} : req'[q] = req[q]
    BY <1>10, RequestSteps
  <2>3. Kept'
    BY <1>a, <2>1 DEF Kept
  <2> QED BY <1>a, <1>b, <2>1, <2>2, <2>3 DEF OneForHead
<1>11. CASE UNCHANGED <<pc, queue, file, req, booked, accepted>>
  BY <1>11 DEF OneForHead, Kept, BookedNos
<1> QED BY <1>1, <1>2, <1>3, <1>4, <1>5, <1>6, <1>7, <1>8, <1>9, <1>10, <1>11
        DEF Next, vars, IdleTick, Reset, ClockAdvances, ShowAnswer, ShowOffline

LEMMA IntactInvariant == Spec => []IntactInv
<1>1. Init => IntactInv
  BY DEF Init, IntactInv, OneForHead, Kept, Active, Idle, BookedNos, Pending
<1>2. TypeOK /\ IntactInv /\ [Next]_vars => IntactInv'
  BY IntactSteps, IntactStep DEF IntactInv
<1> QED BY <1>1, <1>2, TypeCorrect, PTL DEF Spec

\* Nothing accepted is lost, for any number of cards, requests and bookings and
\* any mix of the other faults, until requests overlap, the process ends with the
\* file behind, or a start cannot read the file.
THEOREM NothingIsLost == Spec => []NothingLost
<1>1. IntactInv => NothingLost
  BY DEF IntactInv, OneForHead, Kept, NothingLost, Pending
<1> QED BY <1>1, IntactInvariant, PTL
-----------------------------------------------------------------------------
\* What keeps the promise "Buchung gespeichert" whatever else fails: answers
\* come before the next tick, the process does not end inside a save, and when
\* it may end between two handlers every save succeeds.
SavesSucceed ==
  /\ Timely
  /\ "torn" \notin Faults
  /\ "stop" \in Faults => Faults \cap {"open", "full", "load"} = {}

\* Between two handlers the file is the queue, when that matters, and the process
\* only ends there.
UpToDate ==
  /\ "stop" \in Faults /\ pc = "run" => file = queue
  /\ pc = "down" => "stop" \in Faults

UpToDateInv == intact /\ UpToDate

LEMMA UpToDateStep ==
  ASSUME SavesSucceed, TypeOK, IntactInv, UpToDateInv, [Next]_vars
  PROVE  UpToDateInv'
<1>1. CASE FinishSave
  BY <1>1 DEF FinishSave, UpToDateInv, UpToDate, SavesSucceed
<1>2. CASE Tick
  <2>1. Active = {}
    BY <1>2 DEF Tick, Prompt, SavesSucceed
  <2> QED BY <1>2, <2>1 DEF Tick, Offer, UpToDateInv, UpToDate
<1>3. CASE Stop
  <2>1. pc # "undefined"
    BY DEF IntactInv, UpToDateInv, OneForHead
  <2>2. "stop" \in Faults /\ pc = "run"
    BY <1>3, <2>1 DEF Stop, SavesSucceed
  <2>3. file = queue
    BY <2>2 DEF UpToDateInv, UpToDate
  <2> QED BY <1>3, <2>2, <2>3 DEF Stop, UpToDateInv, UpToDate
<1>4. CASE Restart
  <2>1. "load" \notin Faults
    BY <1>4 DEF Restart, SavesSucceed, UpToDateInv, UpToDate
  <2> QED BY <1>4, <2>1 DEF Restart, Loaded, UpToDateInv, UpToDate
<1>5. ASSUME NEW card \in Cards, Swipe(card)
      PROVE  UpToDateInv'
  BY <1>5 DEF Swipe, StartSave, UpToDateInv, UpToDate, SavesSucceed
<1>6. ASSUME NEW r \in Requests, BookingConfirmed(r)
      PROVE  UpToDateInv'
  BY <1>6 DEF BookingConfirmed, StartSave, UpToDateInv, UpToDate, SavesSucceed
<1>7. CASE UNCHANGED <<pc, queue, file, intact>>
  BY <1>7 DEF UpToDateInv, UpToDate
<1> QED BY <1>1, <1>2, <1>3, <1>4, <1>5, <1>6, <1>7
        DEF Next, vars, IdleTick, Reset, ClockAdvances, ShowAnswer, ShowOffline, StatusAnswer,
            StatusFails, ServerBooks, BookingFails, OrphanLost

\* There is one answer, given or due, for each accepted booking.
OneAnswerEach == DOMAIN shown = DOMAIN accepted

LEMMA AnswersFollowBookings == Spec => []OneAnswerEach
<1>1. Init => OneAnswerEach
  BY DEF Init, OneAnswerEach
<1>2. TypeOK /\ OneAnswerEach /\ [Next]_vars => OneAnswerEach'
  <2> SUFFICES ASSUME TypeOK, OneAnswerEach, [Next]_vars PROVE OneAnswerEach'
    OBVIOUS
  <2>1. /\ shown \in Seq({"asked", "login", "logout", "saved", "lost"})
        /\ accepted \in Seq(TimeEvent)
    BY DEF TypeOK
  <2>2. ASSUME NEW card \in Cards, Swipe(card)
        PROVE  OneAnswerEach'
    <3>1. PICK e : accepted' = Append(accepted, e)
      BY <2>2 DEF Swipe
    <3>2. shown' = Append(shown, "asked")
      BY <2>2 DEF Swipe
    <3>3. DOMAIN shown' = 1..(Len(shown) + 1) /\ DOMAIN accepted' = 1..(Len(accepted) + 1)
      BY <2>1, <3>1, <3>2
    <3>4. Len(shown) = Len(accepted)
      BY <2>1 DEF OneAnswerEach
    <3> QED BY <3>3, <3>4 DEF OneAnswerEach
  <2>3. ASSUME NEW n \in 1..MaxAccepted, ShowAnswer(n) \/ ShowOffline(n)
        PROVE  OneAnswerEach'
    BY <2>3 DEF ShowAnswer, ShowOffline, OneAnswerEach
  <2>4. CASE Stop
    BY <2>4 DEF Stop, OneAnswerEach
  <2>5. CASE UNCHANGED <<shown, accepted>>
    BY <2>5 DEF OneAnswerEach
  <2> QED BY <2>2, <2>3, <2>4, <2>5
          DEF Next, vars, FinishSave, Tick, Offer, IdleTick, Restart, Reset, ClockAdvances,
              StatusAnswer, StatusFails, ServerBooks, BookingConfirmed, BookingFails, OrphanLost
<1> QED BY <1>1, <1>2, TypeCorrect, PTL DEF Spec

\* What the employee is told, "Buchung gespeichert", is true, and stays true,
\* whatever requests fail, are recorded late or twice, and however often the
\* process ends and starts again: the requests that overlap are the only way
\* to lose a saved booking, short of a file that cannot be written or read.
THEOREM SavedMeansSaved ==
  ASSUME SavesSucceed
  PROVE  Spec => []SavedStaysSaved
<1>1. Init => UpToDateInv
  BY DEF Init, UpToDateInv, UpToDate
<1>2. TypeOK /\ IntactInv /\ UpToDateInv /\ [Next]_vars => UpToDateInv'
  BY UpToDateStep
<1>3. IntactInv /\ UpToDateInv /\ OneAnswerEach => SavedStaysSaved
  <2> SUFFICES ASSUME IntactInv, UpToDateInv, OneAnswerEach, NEW n \in DOMAIN shown
               PROVE  n \in BookedNos \cup NosIn(queue) \cup NosIn(file)
    BY DEF SavedStaysSaved
  <2>1. Kept
    BY DEF IntactInv, UpToDateInv
  <2>2. n \in DOMAIN accepted
    BY DEF OneAnswerEach
  <2> QED BY <2>1, <2>2 DEF Kept, Pending
<1> QED BY <1>1, <1>2, <1>3, TypeCorrect, IntactInvariant, AnswersFollowBookings, PTL DEF Spec
-----------------------------------------------------------------------------
\* What the server is owed when answers come before the next tick, the process
\* does not end, and the server records nothing the client has given up.
Answered == Timely /\ Faults \cap {"late", "stop", "torn"} = {}

\* When besides a booking that fails was not recorded.
Confirmed == Answered /\ "ack" \notin Faults

Gone == Len(accepted) - Len(queue)
Acked == \E r \in Requests : req[r].phase = "acked"
LastBooked == IF booked = <<>> THEN 0 ELSE booked[Len(booked)].no

\* Each entry of the journal repeats the one before it, or is of the next booking.
RepeatsOrContinues ==
  \A i \in DOMAIN booked :
    booked[i].no \in IF i = 1 THEN {1} ELSE {booked[i - 1].no, booked[i - 1].no + 1}

\* The queue is what has not left it yet, and the journal ends with the last that
\* has left it, or with the first of the queue, as it does while its confirmation
\* is to come.
InLine ==
  /\ intact
  /\ pc \in {"run", "saving"}
  /\ Len(queue) <= Len(accepted)
  /\ \A i \in DOMAIN queue : queue[i].no = Gone + i
  /\ \A r \in Requests : req[r].phase # "orphan"
  /\ LastBooked \in {Gone, Gone + 1}
  /\ Acked => LastBooked = Gone + 1
  /\ RepeatsOrContinues

\* Taking the first event away, and adding one, keeps the rest in place.
LEMMA QueuePlaces ==
  ASSUME NEW S, NEW s \in Seq(S), NEW e
  PROVE  /\ Len(Append(s, e)) = Len(s) + 1
         /\ \A i \in DOMAIN Append(s, e) :
              \/ i \in DOMAIN s /\ Append(s, e)[i] = s[i]
              \/ i = Len(s) + 1 /\ Append(s, e)[i] = e
         /\ \A i \in DOMAIN s : i \in DOMAIN Append(s, e) /\ Append(s, e)[i] = s[i]
         /\ Len(s) + 1 \in DOMAIN Append(s, e) /\ Append(s, e)[Len(s) + 1] = e
         /\ s # <<>> =>
              /\ Len(s) > 0 /\ Head(s) = s[1] /\ 1 \in DOMAIN s
              /\ Len(Tail(s)) = Len(s) - 1
              /\ \A i \in DOMAIN Tail(s) :
                   i \in Nat /\ i + 1 \in DOMAIN s /\ Tail(s)[i] = s[i + 1]
OBVIOUS

\* A request that was posted is the only one, for the first booking of the queue.
LEMMA PostIsFirst ==
  ASSUME TypeOK, OneForHead, InLine, NEW r \in Requests, req[r].phase = "post"
  PROVE  /\ \A q \in Requests \ {r} : req[q].phase = "idle"
         /\ ~Acked /\ req[r].ev.no = Gone + 1
<1>1. r \in Active /\ \A q \in Active : q = r
  BY DEF Active, OneForHead
<1>2. \A q \in Requests : req[q].phase \in {"idle", "status", "post", "acked", "orphan"}
  BY RequestPhases DEF TypeOK
<1>3. \A q \in Requests \ {r} : req[q].phase = "idle"
  BY <1>1, <1>2 DEF Active, InLine
<1>4. ~Acked
  BY <1>3 DEF Acked
<1>5. queue # <<>> /\ req[r].ev = Head(queue)
  BY <1>1 DEF OneForHead
<1>6. queue \in Seq(TimeEvent)
  BY DEF TypeOK
<1>7. Head(queue) = queue[1] /\ 1 \in DOMAIN queue
  BY <1>5, <1>6, QueuePlaces
<1> QED BY <1>3, <1>4, <1>5, <1>7 DEF InLine

LEMMA InLineKept ==
  ASSUME Answered, TypeOK, OneForHead, InLine, [Next]_vars
  PROVE  InLine'
<1>a. /\ queue \in Seq(TimeEvent) /\ accepted \in Seq(TimeEvent) /\ booked \in Seq(Bookings)
      /\ Len(queue) \in Nat /\ Len(accepted) \in Nat /\ Len(booked) \in Nat /\ Gone \in Int
      /\ req \in [Requests -> OpenRequest \cup {Idle}]
  BY DEF TypeOK, Gone
<1>b. Idle.phase = "idle"
  BY DEF Idle
<1>1. CASE UNCHANGED <<intact, queue, accepted, booked, req>> /\ pc' \in {"run", "saving"}
  BY <1>1 DEF InLine, Gone, Acked, LastBooked, RepeatsOrContinues
<1>2. CASE Tick
  <2>1. /\ Active = {} /\ UNCHANGED <<pc, queue, accepted, booked>>
        /\ intact' = (intact /\ Active = {})
    BY <1>2 DEF Tick, Offer, Prompt, Answered
  <2>2. PICK r \in Requests : req[r] = Idle /\
          req' = [req EXCEPT ![r] = [phase |-> "status", ev |-> Head(queue), action |-> "none"]]
    BY <1>2 DEF Tick, Offer
  <2>3. req'[r].phase = "status" /\ \A q \in Requests \ {r} : req'[q] = req[q]
    BY <1>a, <2>2
  <2>4. ~Acked'
    BY <2>1, <2>3 DEF Active, Acked
  <2> QED BY <2>1, <2>3, <2>4 DEF InLine, Gone, LastBooked, RepeatsOrContinues
<1>3. ~Stop /\ ~Restart
  BY DEF Stop, Restart, Answered, InLine
<1>4. ASSUME NEW card \in Cards, Swipe(card)
      PROVE  InLine'
  <2> DEFINE ev == [no |-> Len(accepted) + 1, card |-> card, time |-> BookingTime(now)]
  <2>1. /\ pc' \in {"run", "saving"} /\ UNCHANGED <<req, booked, intact>>
        /\ accepted' = Append(accepted, ev) /\ queue' = Append(queue, ev)
    BY <1>4 DEF Swipe, StartSave, Enqueue
  <2>2. ev.no = Len(accepted) + 1
    OBVIOUS
  <2> HIDE DEF ev
  <2>3. /\ Len(queue') = Len(queue) + 1
        /\ \A i \in DOMAIN queue' :
             \/ i \in DOMAIN queue /\ queue'[i] = queue[i]
             \/ i = Len(queue) + 1 /\ queue'[i] = ev
    BY <1>a, <2>1, QueuePlaces
  <2>4. Len(accepted') = Len(accepted) + 1
    BY <1>a, <2>1
  <2>5. Gone' = Gone /\ (Acked' <=> Acked) /\ LastBooked' = LastBooked
    BY <1>a, <2>1, <2>3, <2>4 DEF Gone, Acked, LastBooked
  <2>6. \A i \in DOMAIN queue' : queue'[i].no = Gone' + i
    <3>1. \A i \in DOMAIN queue : queue[i].no = Gone + i
      BY DEF InLine
    <3>2. Gone + (Len(queue) + 1) = ev.no
      BY <1>a, <2>2 DEF Gone
    <3> QED BY <2>3, <2>5, <3>1, <3>2
  <2>7. Len(queue') <= Len(accepted') /\ (RepeatsOrContinues' <=> RepeatsOrContinues)
    BY <1>a, <2>1, <2>3, <2>4 DEF InLine, RepeatsOrContinues
  <2> QED BY <2>1, <2>5, <2>6, <2>7 DEF InLine
<1>5. ASSUME NEW r \in Requests, StatusAnswer(r) \/ StatusFails(r)
      PROVE  InLine'
  <2>1. UNCHANGED <<pc, queue, accepted, booked, intact>>
    BY <1>5 DEF StatusAnswer, StatusFails
  <2>2. /\ req[r].phase = "status" /\ req'[r].phase = "post"
        /\ \A q \in Requests \ {r} : req'[q] = req[q]
    BY <1>5, RequestSteps
  <2>3. Acked' <=> Acked
    BY <2>2 DEF Acked
  <2> QED BY <2>1, <2>2, <2>3 DEF InLine, Gone, LastBooked, RepeatsOrContinues
<1>6. ASSUME NEW r \in Requests, ServerBooks(r)
      PROVE  InLine'
  <2> DEFINE b == Booking(req[r])
             N == Len(booked)
  <2>1. UNCHANGED <<pc, queue, accepted, intact>> /\ booked' = Append(booked, b)
    BY <1>6 DEF ServerBooks
  <2>2. /\ req[r].phase = "post" /\ req'[r].phase = "acked"
        /\ \A q \in Requests \ {r} : req'[q] = req[q]
    BY <1>6, RequestSteps DEF InLine
  <2>3. b.no = Gone + 1
    BY <2>2, PostIsFirst DEF Booking
  <2> HIDE DEF b
  <2>4. /\ Len(booked') = N + 1 /\ booked'[N + 1] = b /\ booked' # <<>>
        /\ \A i \in DOMAIN booked : booked'[i] = booked[i]
        /\ \A i \in DOMAIN booked' : i \in DOMAIN booked \/ i = N + 1
    <3>1. /\ Len(booked') = N + 1 /\ booked'[N + 1] = b
          /\ \A i \in DOMAIN booked : booked'[i] = booked[i]
          /\ \A i \in DOMAIN booked' : i \in DOMAIN booked \/ i = N + 1
      BY <1>a, <2>1, QueuePlaces
    <3>2. Len(booked') # 0
      BY <1>a, <3>1
    <3> QED BY <3>1, <3>2
  <2>5. LastBooked' = Gone + 1 /\ Gone' = Gone
    BY <2>1, <2>3, <2>4 DEF LastBooked, Gone
  <2>6. RepeatsOrContinues'
    <3> SUFFICES ASSUME NEW i \in DOMAIN booked'
                 PROVE  booked'[i].no \in
                          IF i = 1 THEN {1} ELSE {booked'[i - 1].no, booked'[i - 1].no + 1}
      BY DEF RepeatsOrContinues
    <3>1. CASE i \in DOMAIN booked
      <4>1. i # 1 => i - 1 \in DOMAIN booked
        BY <1>a, <3>1
      <4> QED BY <2>4, <3>1, <4>1 DEF InLine, RepeatsOrContinues
    <3>2. CASE i = N + 1 /\ N = 0
      <4>1. LastBooked = 0
        BY <1>a, <3>2 DEF LastBooked
      <4>2. Gone = 0
        BY <1>a, <4>1 DEF InLine, Gone
      <4> QED BY <2>3, <2>4, <3>2, <4>2
    <3>3. CASE i = N + 1 /\ N # 0
      <4>1. N \in DOMAIN booked /\ booked # <<>> /\ i # 1 /\ i - 1 = N
        BY <1>a, <3>3
      <4>2. booked[N].no \in {Gone, Gone + 1}
        BY <4>1 DEF InLine, LastBooked
      <4> QED BY <1>a, <2>3, <2>4, <3>3, <4>1, <4>2
    <3> QED BY <2>4, <3>1, <3>2, <3>3
  <2> QED BY <2>1, <2>2, <2>5, <2>6 DEF InLine, Gone
<1>7. ASSUME NEW r \in Requests, BookingConfirmed(r)
      PROVE  InLine'
  <2>1. /\ req[r].phase = "acked" /\ queue # <<>> /\ UNCHANGED <<booked, accepted, intact>>
        /\ \A q \in Active : q = r
    BY <1>7 DEF BookingConfirmed, OneForHead, Active
  <2>2. pc' \in {"run", "saving"} /\ queue' = Tail(queue)
    BY <1>7, <2>1 DEF BookingConfirmed, RemoveFirst, StartSave, InLine
  <2>3. req'[r] = Idle /\ \A q \in Requests \ {r} : req'[q] = req[q]
    BY <1>7, RequestSteps
  <2>4. Acked /\ ~Acked'
    BY <1>b, <2>1, <2>3 DEF Acked, Active
  <2>5. /\ Len(queue) > 0 /\ Len(queue') = Len(queue) - 1
        /\ \A i \in DOMAIN queue' :
             i \in Nat /\ i + 1 \in DOMAIN queue /\ queue'[i] = queue[i + 1]
    BY <1>a, <2>1, <2>2, QueuePlaces
  <2>6. Gone' = Gone + 1 /\ LastBooked' = Gone + 1
    BY <1>a, <2>1, <2>4, <2>5 DEF Gone, InLine, LastBooked
  <2>7. \A i \in DOMAIN queue' : queue'[i].no = Gone' + i
    <3>1. \A i \in DOMAIN queue : queue[i].no = Gone + i
      BY DEF InLine
    <3>2. \A i \in Nat : Gone + (i + 1) = (Gone + 1) + i
      BY <1>a
    <3> QED BY <2>5, <2>6, <3>1, <3>2
  <2>8. Len(queue') <= Len(accepted') /\ (RepeatsOrContinues' <=> RepeatsOrContinues)
    BY <1>a, <2>1, <2>5 DEF InLine, RepeatsOrContinues
  <2>9. intact' /\ \A q \in Requests : req'[q].phase # "orphan"
    BY <1>b, <2>1, <2>3 DEF InLine
  <2>10. LastBooked' \in {Gone', Gone' + 1}
    BY <2>6
  <2> QED BY <2>2, <2>4, <2>7, <2>8, <2>9, <2>10 DEF InLine
<1>8. ASSUME NEW r \in Requests, BookingFails(r)
      PROVE  InLine'
  <2>1. /\ UNCHANGED <<pc, queue, accepted, booked, intact>>
        /\ req' = [req EXCEPT ![r] = Idle]
    BY <1>8 DEF BookingFails, Answered
  <2>2. req'[r] = Idle /\ \A q \in Requests \ {r} : req'[q] = req[q]
    BY <1>a, <2>1
  <2>3. Acked' => Acked
    BY <1>b, <2>2 DEF Acked
  <2> QED BY <1>b, <2>1, <2>2, <2>3 DEF InLine, Gone, LastBooked, RepeatsOrContinues
<1>9. \A r \in Requests : ~OrphanLost(r)
  BY DEF OrphanLost, InLine
<1>10. FinishSave \/ IdleTick \/ Reset \/ ClockAdvances \/ UNCHANGED vars
         \/ (\E n \in 1..MaxAccepted : ShowAnswer(n) \/ ShowOffline(n))
       => UNCHANGED <<intact, queue, accepted, booked, req>> /\ pc' \in {"run", "saving"}
  BY DEF FinishSave, IdleTick, Reset, ClockAdvances, vars, ShowAnswer, ShowOffline, InLine
<1> QED BY <1>1, <1>2, <1>3, <1>4, <1>5, <1>6, <1>7, <1>8, <1>9, <1>10 DEF Next

LEMMA StaysInLine ==
  ASSUME Answered
  PROVE  Spec => []InLine
<1>1. Init => InLine
  BY DEF Init, InLine, Gone, Acked, Idle, LastBooked, RepeatsOrContinues
<1>2. TypeOK /\ IntactInv /\ InLine /\ [Next]_vars => InLine'
  <2>1. IntactInv /\ InLine => OneForHead
    BY DEF IntactInv, InLine
  <2> QED BY <2>1, InLineKept
<1> QED BY <1>1, <1>2, TypeCorrect, IntactInvariant, PTL DEF Spec

\* A booking that is sent again because its answer was lost is recorded next to
\* itself: the server records the bookings in the order in which the cards were
\* swiped, and misses none, for any number of cards, bookings and lost answers.
THEOREM RetriesAreInOrder ==
  ASSUME Answered
  PROVE  Spec => []RepeatsOrContinues
<1>1. InLine => RepeatsOrContinues
  BY DEF InLine
<1> QED BY <1>1, StaysInLine, PTL

\* When no answer of a booking that was recorded is lost, the journal is what has
\* left the queue, and besides a booking whose confirmation is to come.
InStep ==
  /\ Len(booked) = Gone + (IF Acked THEN 1 ELSE 0)
  /\ BookedOnceInOrder

LEMMA InStepKept ==
  ASSUME Confirmed, TypeOK, OneForHead, InLine, InLine', InStep, [Next]_vars
  PROVE  InStep'
<1>a. /\ booked \in Seq(Bookings) /\ queue \in Seq(TimeEvent) /\ accepted \in Seq(TimeEvent)
      /\ Len(booked) \in Nat /\ Len(queue) \in Nat /\ Len(accepted) \in Nat /\ Gone \in Int
      /\ req \in [Requests -> OpenRequest \cup {Idle}]
      /\ Idle.phase = "idle"
  BY DEF TypeOK, Gone, Idle
<1>1. CASE UNCHANGED booked /\ Gone' = Gone /\ (Acked' <=> Acked)
  BY <1>1 DEF InStep, BookedOnceInOrder
<1>2. ~Stop /\ ~Restart /\ \A r \in Requests : ~OrphanLost(r)
  BY DEF Stop, Restart, OrphanLost, Confirmed, Answered, InLine
<1>3. CASE Tick
  <2>1. Active = {} /\ UNCHANGED <<queue, accepted, booked>>
    BY <1>3 DEF Tick, Offer, Prompt, Confirmed, Answered
  <2>2. PICK r \in Requests :
          req' = [req EXCEPT ![r] = [phase |-> "status", ev |-> Head(queue), action |-> "none"]]
    BY <1>3 DEF Tick, Offer
  <2>3. ~Acked /\ ~Acked'
    BY <1>a, <2>1, <2>2 DEF Active, Acked
  <2> QED BY <1>1, <2>1, <2>3 DEF Gone
<1>4. ASSUME NEW card \in Cards, Swipe(card)
      PROVE  InStep'
  <2>1. UNCHANGED <<req, booked>> /\ Len(accepted') = Len(accepted) + 1 /\ Len(queue') = Len(queue) + 1
    BY <1>a, <1>4, QueuePlaces DEF Swipe, Enqueue
  <2> QED BY <1>1, <1>a, <2>1 DEF Gone, Acked
<1>5. ASSUME NEW r \in Requests, StatusAnswer(r) \/ StatusFails(r)
      PROVE  InStep'
  <2>1. UNCHANGED <<queue, accepted, booked>>
    BY <1>5 DEF StatusAnswer, StatusFails
  <2>2. /\ req[r].phase = "status" /\ req'[r].phase = "post"
        /\ \A q \in Requests \ {r} : req'[q] = req[q]
    BY <1>5, RequestSteps
  <2> QED BY <1>1, <2>1, <2>2 DEF Acked, Gone
<1>6. ASSUME NEW r \in Requests, ServerBooks(r)
      PROVE  InStep'
  <2>1. UNCHANGED <<queue, accepted>> /\ booked' = Append(booked, Booking(req[r]))
    BY <1>6 DEF ServerBooks
  <2>2. req[r].phase = "post" /\ req'[r].phase = "acked"
    BY <1>6, RequestSteps DEF InLine
  <2>3. ~Acked /\ Acked' /\ Booking(req[r]).no = Len(booked) + 1
    <3>1. ~Acked /\ req[r].ev.no = Gone + 1
      BY <2>2, PostIsFirst
    <3>2. Acked'
      BY <2>2 DEF Acked
    <3>3. Len(booked) = Gone
      BY <1>a, <3>1 DEF InStep
    <3> QED BY <3>1, <3>2, <3>3 DEF Booking
  <2>4. /\ Len(booked') = Len(booked) + 1
        /\ \A i \in DOMAIN booked' :
             \/ i \in DOMAIN booked /\ booked'[i] = booked[i]
             \/ i = Len(booked) + 1 /\ booked'[i] = Booking(req[r])
    BY <1>a, <2>1, QueuePlaces
  <2> QED BY <1>a, <2>1, <2>3, <2>4 DEF InStep, Gone, BookedOnceInOrder
<1>7. ASSUME NEW r \in Requests, BookingConfirmed(r)
      PROVE  InStep'
  <2>1. /\ req[r].phase = "acked" /\ queue # <<>> /\ UNCHANGED <<booked, accepted>>
        /\ queue' = Tail(queue) /\ \A q \in Active : q = r
    BY <1>7 DEF BookingConfirmed, OneForHead, Active, RemoveFirst
  <2>2. req'[r] = Idle /\ \A q \in Requests \ {r} : req'[q] = req[q]
    BY <1>7, RequestSteps
  <2>3. Acked /\ ~Acked'
    BY <1>a, <2>1, <2>2 DEF Acked, Active
  <2>4. Gone' = Gone + 1
    BY <1>a, <2>1, QueuePlaces DEF Gone
  <2> QED BY <1>a, <2>1, <2>3, <2>4 DEF InStep, BookedOnceInOrder
<1>8. ASSUME NEW r \in Requests, BookingFails(r)
      PROVE  InStep'
  <2>1. /\ UNCHANGED <<queue, accepted, booked>>
        /\ req[r].phase = "post" /\ req' = [req EXCEPT ![r] = Idle]
    BY <1>8 DEF BookingFails, Confirmed, Answered
  <2>2. req'[r] = Idle /\ \A q \in Requests \ {r} : req'[q] = req[q]
    BY <1>a, <2>1
  <2>3. Acked' <=> Acked
    BY <1>a, <2>1, <2>2 DEF Acked
  <2> QED BY <1>1, <2>1, <2>3 DEF Gone
<1>9. FinishSave \/ IdleTick \/ Reset \/ ClockAdvances \/ UNCHANGED vars
        \/ (\E n \in 1..MaxAccepted : ShowAnswer(n) \/ ShowOffline(n))
      => UNCHANGED <<queue, accepted, booked, req>>
  BY DEF FinishSave, IdleTick, Reset, ClockAdvances, vars, ShowAnswer, ShowOffline
<1>10. CASE UNCHANGED <<queue, accepted, booked, req>>
  BY <1>1, <1>10 DEF Gone, Acked
<1> QED BY <1>2, <1>3, <1>4, <1>5, <1>6, <1>7, <1>8, <1>9, <1>10 DEF Next

LEMMA StaysInStep ==
  ASSUME Confirmed
  PROVE  Spec => []InStep
<1>0. Answered
  BY DEF Confirmed
<1>1. Init => InStep
  BY DEF Init, InStep, Gone, Acked, Idle, BookedOnceInOrder
<1>2. TypeOK /\ IntactInv /\ InLine /\ InLine' /\ InStep /\ [Next]_vars => InStep'
  <2>1. IntactInv /\ InLine => OneForHead
    BY DEF IntactInv, InLine
  <2> QED BY <2>1, InStepKept
<1> QED BY <1>0, <1>1, <1>2, TypeCorrect, IntactInvariant, StaysInLine, PTL DEF Spec

\* Under these conditions the server records every booking once, in the order in
\* which the cards were swiped, whatever it refuses, whatever cannot be asked or
\* saved, for any number of cards and bookings.
THEOREM BooksOnceInOrder ==
  ASSUME Confirmed
  PROVE  Spec => []BookedOnceInOrder
<1>1. InStep => BookedOnceInOrder
  BY DEF InStep
<1> QED BY <1>1, StaysInStep, PTL

\* Which action is posted, and what the employee was told of a booking that the
\* server does not have yet: both are the opposite of the card's last action.
PostedRight ==
  \A r \in Requests :
    req[r].phase = "post" => (req[r].action = "out" <=> IsClockedIn(req[r].ev.card))

ToldRight ==
  /\ Len(shown) = Len(accepted)
  /\ \A n \in clear :
       /\ n \in DOMAIN shown /\ shown[n] \in {"login", "logout"}
       /\ n \notin BookedNos =>
            /\ shown[n] = "logout" <=> IsClockedIn(accepted[n].card)
            /\ \A m \in 1..(n - 1) : accepted[m].card = accepted[n].card => m \in BookedNos

ActionsInv == PostedRight /\ ActionsAlternate
ToldInv == ToldRight /\ ShownIsBooked

\* The server's next entry concerns its own card alone.
LEMMA OtherCards ==
  ASSUME NEW S, booked \in Seq(S), NEW b, booked' = Append(booked, b), NEW card, b.card # card
  PROVE  IsClockedIn(card)' <=> IsClockedIn(card)
<1>1. /\ \A i \in DOMAIN booked : i \in DOMAIN booked' /\ booked'[i] = booked[i]
      /\ Len(booked) + 1 \in DOMAIN booked' /\ booked'[Len(booked) + 1] = b
      /\ \A i \in DOMAIN booked' : i \in DOMAIN booked \/ i = Len(booked) + 1
  BY QueuePlaces
<1> QED BY <1>1 DEF IsClockedIn

\* The card's last entry decides, which is what ActionsAlternate looks for.
LEMMA AlternatesOn ==
  ASSUME NEW S, booked \in Seq(S), NEW b, booked' = Append(booked, b), ActionsAlternate,
         b.action = "out" <=> IsClockedIn(b.card)
  PROVE  ActionsAlternate'
<1>1. /\ \A i \in DOMAIN booked : i \in DOMAIN booked' /\ booked'[i] = booked[i]
      /\ DOMAIN booked = 1..Len(booked) /\ Len(booked) \in Nat
      /\ booked'[Len(booked) + 1] = b
      /\ \A i \in DOMAIN booked' : i \in DOMAIN booked \/ i = Len(booked) + 1
  BY QueuePlaces
<1> DEFINE From(s, i) == \E j \in 1..(i - 1) :
              /\ s[j].card = s[i].card /\ s[j].action = "in"
              /\ \A k \in (j + 1)..(i - 1) : s[k].card # s[i].card
<1>2. ASSUME NEW i \in DOMAIN booked
      PROVE  From(booked', i) <=> From(booked, i)
  <2>1. \A j \in 1..i : booked'[j] = booked[j]
    BY <1>1
  <2>2. i \in Nat /\ \A j \in 1..(i - 1) : j \in 1..i
    BY <1>1
  <2>3. \A j \in 1..(i - 1) : \A k \in (j + 1)..(i - 1) : k \in 1..i
    BY <2>2
  <2>4. i \in 1..i
    BY <1>1
  <2> QED BY <2>1, <2>2, <2>3, <2>4
<1>3. From(booked', Len(booked) + 1) <=> IsClockedIn(b.card)
  <2>1. (Len(booked) + 1) - 1 = Len(booked)
    BY <1>1
  <2>2. \A j \in 1..Len(booked) : booked'[j] = booked[j]
    BY <1>1
  <2>3. ASSUME NEW j \in 1..Len(booked)
        PROVE  /\ \A k \in (j + 1)..Len(booked) : k \in DOMAIN booked /\ k > j
               /\ \A k \in DOMAIN booked : k > j => k \in (j + 1)..Len(booked)
    BY <1>1
  <2>4. From(booked', Len(booked) + 1) <=>
          \E j \in 1..Len(booked) :
            /\ booked[j].card = b.card /\ booked[j].action = "in"
            /\ \A k \in (j + 1)..Len(booked) : booked[k].card # b.card
    <3>1. \A j \in 1..Len(booked) : \A k \in (j + 1)..Len(booked) : booked'[k] = booked[k]
      BY <1>1, <2>2, <2>3
    <3> QED BY <1>1, <2>1, <2>2, <3>1
  <2>5. IsClockedIn(b.card) <=>
          \E j \in 1..Len(booked) :
            /\ booked[j].card = b.card /\ booked[j].action = "in"
            /\ \A k \in (j + 1)..Len(booked) : booked[k].card # b.card
    BY <1>1, <2>3 DEF IsClockedIn
  <2> QED BY <2>4, <2>5
<1>4. ASSUME NEW i \in DOMAIN booked'
      PROVE  booked'[i].action = "out" <=> From(booked', i)
  <2>1. CASE i \in DOMAIN booked
    <3>1. booked[i].action = "out" <=> From(booked, i)
      BY <2>1 DEF ActionsAlternate
    <3> HIDE DEF From
    <3> QED BY <1>1, <1>2, <2>1, <3>1
  <2>2. CASE i = Len(booked) + 1
    <3> HIDE DEF From
    <3> QED BY <1>1, <1>3, <2>2
  <2> QED BY <1>1, <2>1, <2>2
<1> QED BY <1>4 DEF ActionsAlternate

\* Which bookings the server has, when it has them in order.
LEMMA BookedNosInOrder ==
  ASSUME TypeOK, BookedOnceInOrder
  PROVE  BookedNos = 1..Len(booked)
<1>1. DOMAIN booked = 1..Len(booked)
  BY DEF TypeOK
<1> QED BY <1>1 DEF BookedNos, BookedOnceInOrder

LEMMA ActionsStep ==
  ASSUME Answered, "get" \notin Faults, TypeOK, OneForHead, InLine, ActionsInv, [Next]_vars
  PROVE  ActionsInv'
<1>a. /\ booked \in Seq(Bookings) /\ req \in [Requests -> OpenRequest \cup {Idle}]
      /\ Idle.phase = "idle"
  BY DEF TypeOK, Idle
<1>1. CASE UNCHANGED booked /\ \A r \in Requests : req'[r].phase = "post" => req'[r] = req[r]
  BY <1>1 DEF ActionsInv, PostedRight, ActionsAlternate, IsClockedIn
<1>2. ASSUME NEW r \in Requests, StatusAnswer(r)
      PROVE  ActionsInv'
  <2>1. /\ UNCHANGED <<accepted, booked, shown, clear>> /\ req[r].phase = "status"
        /\ req' = [req EXCEPT ![r].phase = "post",
                              ![r].action = ActionFor(IsClockedIn(req[r].ev.card))]
    BY <1>2 DEF StatusAnswer
  <2>2. /\ req'[r].ev = req[r].ev /\ \A q \in Requests \ {r} : req'[q] = req[q]
    BY <1>2, RequestSteps
  <2>3. req'[r].action = ActionFor(IsClockedIn(req[r].ev.card))
    <3>1. req[r] \in OpenRequest
      BY <1>a, <2>1
    <3>2. req[r] = [phase |-> req[r].phase, ev |-> req[r].ev, action |-> req[r].action]
      BY <3>1 DEF OpenRequest
    <3> QED BY <1>a, <2>1, <3>2
  <2>4. req'[r].action = "out" <=> IsClockedIn(req'[r].ev.card)
    <3>1. CASE IsClockedIn(req[r].ev.card)
      <4>1. req'[r].action = "out"
        BY <2>3, <3>1 DEF ActionFor
      <4> QED BY <2>2, <3>1, <4>1
    <3>2. CASE ~IsClockedIn(req[r].ev.card)
      <4>1. req'[r].action = "in"
        BY <2>3, <3>2 DEF ActionFor
      <4> QED BY <2>2, <3>2, <4>1
    <3> QED BY <3>1, <3>2
  <2>5. PostedRight'
    <3> SUFFICES ASSUME NEW q \in Requests, req'[q].phase = "post"
                 PROVE  req'[q].action = "out" <=> IsClockedIn(req[q].ev.card)'
      BY DEF PostedRight
    <3>1. IsClockedIn(req[q].ev.card)' <=> IsClockedIn(req'[q].ev.card)
      BY <2>1 DEF IsClockedIn
    <3>2. CASE q = r
      BY <2>4, <3>1, <3>2
    <3>3. CASE q # r
      BY <2>2, <3>1, <3>3 DEF ActionsInv, PostedRight
    <3> QED BY <3>2, <3>3
  <2>6. ActionsAlternate'
    BY <2>1 DEF ActionsInv, ActionsAlternate
  <2> QED BY <2>5, <2>6 DEF ActionsInv
<1>3. ASSUME NEW r \in Requests, ServerBooks(r)
      PROVE  ActionsInv'
  <2> DEFINE b == Booking(req[r])
  <2>1. booked' = Append(booked, b)
    BY <1>3 DEF ServerBooks
  <2>2. /\ req[r].phase = "post" /\ req'[r].phase = "acked"
        /\ \A q \in Requests \ {r} : req'[q] = req[q]
    BY <1>3, RequestSteps DEF InLine
  <2>3. \A q \in Requests \ {r} : req[q].phase = "idle"
    BY <2>2, PostIsFirst
  <2>4. b.action = "out" <=> IsClockedIn(b.card)
    BY <2>2 DEF ActionsInv, PostedRight, Booking
  <2> HIDE DEF b
  <2>5. PostedRight'
    BY <2>2, <2>3 DEF PostedRight
  <2>6. ActionsAlternate'
    BY <1>a, <2>1, <2>4, AlternatesOn DEF ActionsInv
  <2> QED BY <2>5, <2>6 DEF ActionsInv
<1>4. CASE Tick
  <2>1. UNCHANGED booked
    BY <1>4 DEF Tick, Offer
  <2>2. PICK r \in Requests :
          req' = [req EXCEPT ![r] = [phase |-> "status", ev |-> Head(queue), action |-> "none"]]
    BY <1>4 DEF Tick, Offer
  <2>3. \A q \in Requests : req'[q].phase = "post" => req'[q] = req[q]
    BY <1>a, <2>2
  <2> QED BY <1>1, <2>1, <2>3
<1>5. ASSUME NEW r \in Requests, BookingConfirmed(r) \/ BookingFails(r) \/ OrphanLost(r)
      PROVE  ActionsInv'
  <2>1. UNCHANGED booked
    BY <1>5 DEF BookingConfirmed, BookingFails, OrphanLost
  <2>2. \A q \in Requests : req'[q].phase = "post" => req'[q] = req[q]
    BY <1>5, <1>a, RequestSteps
  <2> QED BY <1>1, <2>1, <2>2
<1>6. /\ \A r \in Requests : ~StatusFails(r)
      /\ ~Stop /\ ~Restart
  BY DEF StatusFails, Stop, Restart, InLine, Answered
<1>7. FinishSave \/ IdleTick \/ Reset \/ ClockAdvances \/ UNCHANGED vars
        \/ (\E card \in Cards : Swipe(card))
        \/ (\E n \in 1..MaxAccepted : ShowAnswer(n) \/ ShowOffline(n))
      => UNCHANGED <<booked, req>>
  BY DEF FinishSave, IdleTick, Reset, ClockAdvances, vars, Swipe, ShowAnswer, ShowOffline
<1> QED BY <1>1, <1>2, <1>3, <1>4, <1>5, <1>6, <1>7 DEF Next

LEMMA ActionsInvariant ==
  ASSUME Answered, "get" \notin Faults
  PROVE  Spec => []ActionsInv
<1>1. Init => ActionsInv
  BY DEF Init, ActionsInv, PostedRight, ActionsAlternate, Idle
<1>2. TypeOK /\ IntactInv /\ InLine /\ ActionsInv /\ [Next]_vars => ActionsInv'
  <2>1. IntactInv /\ InLine => OneForHead
    BY DEF IntactInv, InLine
  <2> QED BY <2>1, ActionsStep
<1> QED BY <1>1, <1>2, TypeCorrect, IntactInvariant, StaysInLine, PTL DEF Spec

\* When the status can be asked besides, every card's bookings alternate,
\* beginning with "in", for any number of cards and bookings.  A booking that is
\* recorded twice, since its answer was lost, is so with both actions.
THEOREM ActionsDoAlternate ==
  ASSUME Answered, "get" \notin Faults
  PROVE  Spec => []ActionsAlternate
<1>1. ActionsInv => ActionsAlternate
  BY DEF ActionsInv
<1> QED BY <1>1, ActionsInvariant, PTL

LEMMA ToldStep ==
  ASSUME Confirmed, "get" \notin Faults, TypeOK, TypeOK', NothingInvented, OneForHead,
         InLine, InStep, InStep', ActionsInv, ToldInv, [Next]_vars
  PROVE  ToldInv'
<1>a. /\ accepted \in Seq(TimeEvent) /\ booked \in Seq(Bookings)
      /\ shown \in Seq({"asked", "login", "logout", "saved", "lost"})
      /\ Len(accepted) \in Nat /\ Len(booked) \in Nat
      /\ req \in [Requests -> OpenRequest \cup {Idle}]
      /\ Idle.phase = "idle"
  BY DEF TypeOK, Idle
<1>b. BookedNos = 1..Len(booked) /\ BookedNos' = 1..Len(booked')
  <2>1. BookedOnceInOrder /\ BookedOnceInOrder'
    BY DEF InStep
  <2>2. BookedNos = 1..Len(booked)
    BY <2>1, BookedNosInOrder
  <2>3. DOMAIN booked' = 1..Len(booked')
    BY DEF TypeOK
  <2>4. BookedNos' = 1..Len(booked')
    BY <2>1, <2>3 DEF BookedNos, BookedOnceInOrder
  <2> QED BY <2>2, <2>4
<1>1. CASE UNCHANGED <<accepted, booked, shown, clear>>
  BY <1>1 DEF ToldInv, ToldRight, ShownIsBooked, IsClockedIn, BookedNos
<1>3. ASSUME NEW r \in Requests, ServerBooks(r)
      PROVE  ToldInv'
  <2> DEFINE b == Booking(req[r])
             N == Len(booked) + 1
  <2>1. UNCHANGED <<accepted, shown, clear>> /\ booked' = Append(booked, b)
    BY <1>3 DEF ServerBooks
  <2>2. /\ req[r].phase = "post" /\ req'[r].phase = "acked"
        /\ \A q \in Requests \ {r} : req'[q] = req[q]
    BY <1>3, RequestSteps DEF InLine
  <2>3. /\ \A q \in Requests \ {r} : req[q].phase = "idle"
        /\ req[r].ev.no = N
    <3>1. ~Acked /\ req[r].ev.no = Gone + 1 /\ \A q \in Requests \ {r} : req[q].phase = "idle"
      BY <2>2, PostIsFirst
    <3>2. Len(booked) = Gone
      <4>1. Gone \in Int
        BY DEF TypeOK, Gone
      <4> QED BY <3>1, <4>1 DEF InStep
    <3> QED BY <3>1, <3>2
  <2>4. b.no = N /\ b.card = req[r].ev.card /\ b.action = req[r].action
    BY <2>3 DEF Booking
  <2>5. accepted[N].card = b.card /\ N \in DOMAIN accepted
    BY <1>a, <2>2, <2>3, <2>4 DEF NothingInvented, IsAccepted
  <2>6. b.action = "out" <=> IsClockedIn(b.card)
    BY <2>2, <2>4 DEF ActionsInv, PostedRight
  <2>7. b.action \in {"in", "out"}
    <3>1. req[r] \in OpenRequest
      BY <1>a, <2>2
    <3> QED BY <2>2, <2>4, <3>1, RequestPhases DEF OpenRequest, Actions
  <2> HIDE DEF b
  <2>10. /\ \A i \in DOMAIN booked' :
              \/ i \in DOMAIN booked /\ booked'[i] = booked[i]
              \/ i = N /\ booked'[i] = b
         /\ Len(booked') = N
    BY <1>a, <2>1, QueuePlaces
  <2>11. ShownIsBooked'
    <3> SUFFICES ASSUME NEW i \in DOMAIN booked', booked'[i].no \in clear
                 PROVE  booked'[i].action
                          = IF shown[booked'[i].no] = "logout" THEN "out" ELSE "in"
      BY <2>1 DEF ShownIsBooked
    <3>1. CASE i \in DOMAIN booked /\ booked'[i] = booked[i]
      BY <3>1 DEF ToldInv, ShownIsBooked
    <3>2. CASE booked'[i] = b
      <4>1. N \in clear /\ N \notin BookedNos
        BY <1>a, <1>b, <2>4, <3>2
      <4>2. shown[N] = "logout" <=> IsClockedIn(b.card)
        BY <2>5, <4>1 DEF ToldInv, ToldRight
      <4> QED BY <2>4, <2>6, <2>7, <3>2, <4>2
    <3> QED BY <2>10, <3>1, <3>2
  <2>12. ToldRight'
    <3> SUFFICES ASSUME NEW n \in clear, n \notin BookedNos'
                 PROVE  /\ shown[n] = "logout" <=> IsClockedIn(accepted[n].card)'
                        /\ \A m \in 1..(n - 1) :
                             accepted[m].card = accepted[n].card => m \in BookedNos'
      BY <2>1 DEF ToldRight, ToldInv
    <3>1. n \in Nat /\ n \in DOMAIN shown /\ N \in Nat
      BY <1>a DEF ToldRight, ToldInv
    <3>2. n > N /\ BookedNos \subseteq BookedNos' /\ n \notin BookedNos /\ N \notin BookedNos
      BY <1>a, <1>b, <2>10, <3>1
    <3>3. /\ shown[n] = "logout" <=> IsClockedIn(accepted[n].card)
          /\ \A m \in 1..(n - 1) : accepted[m].card = accepted[n].card => m \in BookedNos
      BY <3>2 DEF ToldRight, ToldInv
    <3>4. N \in 1..(n - 1)
      BY <1>a, <3>1, <3>2
    <3>5. b.card # accepted[n].card
      BY <2>5, <3>2, <3>3, <3>4
    <3>6. IsClockedIn(accepted[n].card)' <=> IsClockedIn(accepted[n].card)
      <4>1. \A card : b.card # card => (IsClockedIn(card)' <=> IsClockedIn(card))
        BY <1>a, <2>1, OtherCards
      <4> QED BY <2>1, <3>5, <4>1
    <3> QED BY <3>2, <3>3, <3>6
  <2> QED BY <2>11, <2>12 DEF ToldInv
<1>4. ASSUME NEW n \in 1..MaxAccepted, ShowAnswer(n)
      PROVE  ToldInv'
  <2>1. /\ UNCHANGED <<accepted, booked, req>> /\ n \in DOMAIN shown /\ shown[n] = "asked"
        /\ shown' = [shown EXCEPT ![n] =
                       IF IsClockedIn(accepted[n].card) THEN "logout" ELSE "login"]
        /\ clear' \subseteq clear \cup {n} /\ (n \in clear' \ clear => NoneUnderWay(n))
    BY <1>4 DEF ShowAnswer
  <2>2. n \notin clear
    BY <2>1 DEF ToldInv, ToldRight
  <2>3. /\ DOMAIN shown' = DOMAIN shown /\ Len(shown') = Len(shown)
        /\ \A m \in DOMAIN shown \ {n} : shown'[m] = shown[m]
        /\ shown'[n] \in {"login", "logout"}
        /\ shown'[n] = "logout" <=> IsClockedIn(accepted[n].card)
    BY <1>a, <2>1
  <2>4. \A c : IsClockedIn(c)' <=> IsClockedIn(c)
    BY <2>1 DEF IsClockedIn
  <2>5. BookedNos' = BookedNos
    BY <2>1 DEF BookedNos
  <2>6. n \in clear' => n \notin BookedNos
    BY <2>1, <2>2 DEF NoneUnderWay
  <2>7. ToldRight'
    <3> SUFFICES ASSUME NEW k \in clear'
                 PROVE  /\ k \in DOMAIN shown' /\ shown'[k] \in {"login", "logout"}
                        /\ k \notin BookedNos =>
                             /\ shown'[k] = "logout" <=> IsClockedIn(accepted[k].card)'
                             /\ \A m \in 1..(k - 1) :
                                  accepted[m].card = accepted[k].card => m \in BookedNos
      BY <2>1, <2>3, <2>5 DEF ToldInv, ToldRight
    <3>1. IsClockedIn(accepted[k].card)' <=> IsClockedIn(accepted[k].card)
      BY <2>1 DEF IsClockedIn
    <3>2. CASE k = n
      BY <2>1, <2>2, <2>3, <3>1, <3>2 DEF NoneUnderWay
    <3>3. CASE k \in clear /\ k # n
      BY <2>3, <3>1, <3>3 DEF ToldInv, ToldRight
    <3> QED BY <2>1, <3>2, <3>3
  <2>8. ShownIsBooked'
    <3> SUFFICES ASSUME NEW i \in DOMAIN booked, booked[i].no \in clear'
                 PROVE  booked[i].action = IF shown'[booked[i].no] = "logout" THEN "out" ELSE "in"
      BY <2>1 DEF ShownIsBooked
    <3>1. booked[i].no # n /\ booked[i].no \in clear
      BY <2>1, <2>6 DEF BookedNos
    <3>2. booked[i].no \in DOMAIN shown
      BY <3>1 DEF ToldInv, ToldRight
    <3> QED BY <2>3, <3>1, <3>2 DEF ToldInv, ShownIsBooked
  <2> QED BY <2>7, <2>8 DEF ToldInv
<1>5. ASSUME NEW card \in Cards, Swipe(card)
      PROVE  ToldInv'
  <2>1. PICK ev : accepted' = Append(accepted, ev)
    BY <1>5 DEF Swipe
  <2>2. UNCHANGED <<req, booked, clear>> /\ shown' = Append(shown, "asked")
    BY <1>5 DEF Swipe
  <2>3. /\ \A i \in DOMAIN accepted : accepted'[i] = accepted[i]
        /\ Len(accepted') = Len(accepted) + 1
    BY <1>a, <2>1, QueuePlaces
  <2>4. /\ \A i \in DOMAIN shown : i \in DOMAIN shown' /\ shown'[i] = shown[i]
        /\ Len(shown') = Len(shown) + 1
    BY <1>a, <2>2, QueuePlaces
  <2>5. DOMAIN shown = DOMAIN accepted /\ DOMAIN shown = 1..Len(shown)
    BY <1>a DEF ToldInv, ToldRight
  <2>6. BookedNos' = BookedNos
    BY <2>2 DEF BookedNos
  <2>7. ToldRight'
    <3> SUFFICES ASSUME NEW n \in clear
                 PROVE  /\ n \in DOMAIN shown' /\ shown'[n] \in {"login", "logout"}
                        /\ n \notin BookedNos =>
                             /\ shown'[n] = "logout" <=> IsClockedIn(accepted'[n].card)
                             /\ \A m \in 1..(n - 1) :
                                  accepted'[m].card = accepted'[n].card => m \in BookedNos
      BY <2>2, <2>3, <2>4, <2>6 DEF ToldInv, ToldRight, IsClockedIn
    <3>1. n \in DOMAIN shown /\ accepted'[n] = accepted[n]
      BY <2>3, <2>5 DEF ToldInv, ToldRight
    <3>2. \A m \in 1..(n - 1) : accepted'[m] = accepted[m]
      <4>1. \A m \in 1..(n - 1) : m \in DOMAIN accepted
        BY <1>a, <2>5, <3>1
      <4> QED BY <2>3, <4>1
    <3> QED BY <2>4, <3>1, <3>2 DEF ToldInv, ToldRight
  <2>8. ShownIsBooked'
    BY <2>2, <2>4 DEF ToldInv, ShownIsBooked, ToldRight
  <2> QED BY <2>7, <2>8 DEF ToldInv
<1>6. /\ \A n \in 1..MaxAccepted : ~ShowOffline(n)
      /\ ~Stop /\ ~Restart
  BY DEF ShowOffline, Stop, Restart, InLine, Confirmed, Answered
<1>7. FinishSave \/ Tick \/ IdleTick \/ Reset \/ ClockAdvances \/ UNCHANGED vars
        \/ (\E r \in Requests : \/ StatusAnswer(r) \/ StatusFails(r)
                                \/ BookingConfirmed(r) \/ BookingFails(r) \/ OrphanLost(r))
      => UNCHANGED <<accepted, booked, shown, clear>>
  BY DEF FinishSave, Tick, Offer, IdleTick, Reset, ClockAdvances, vars, StatusAnswer, StatusFails,
         BookingConfirmed, BookingFails, OrphanLost
<1> QED BY <1>1, <1>3, <1>4, <1>5, <1>6, <1>7 DEF Next

LEMMA ToldInvariant ==
  ASSUME Confirmed, "get" \notin Faults
  PROVE  Spec => []ToldInv
<1>0. Answered
  BY DEF Confirmed
<1>1. Init => ToldInv
  BY DEF Init, ToldInv, ToldRight, ShownIsBooked
<1>2. /\ TypeOK /\ TypeOK' /\ NothingInvented /\ IntactInv /\ InLine /\ InStep /\ InStep'
      /\ ActionsInv /\ ToldInv /\ [Next]_vars
      => ToldInv'
  <2>1. IntactInv /\ InLine => OneForHead
    BY DEF IntactInv, InLine
  <2> QED BY <2>1, ToldStep
<1> QED BY <1>0, <1>1, <1>2, TypeCorrect, NothingIsInvented, IntactInvariant, StaysInLine,
           StaysInStep, ActionsInvariant, PTL DEF Spec

\* And what the employee was told is what the server recorded, for all that were
\* told when no older booking of their card was under way.
THEOREM WhatIsShownIsBooked ==
  ASSUME Confirmed, "get" \notin Faults
  PROVE  Spec => []ShownIsBooked
<1>1. ToldInv => ShownIsBooked
  BY DEF ToldInv
<1> QED BY <1>1, ToldInvariant, PTL
-----------------------------------------------------------------------------
\* The refinement of the outbox.
ClockBounded == now <= MaxNow

LEMMA ClockStaysBounded == Spec => []ClockBounded
<1>1. Init => ClockBounded
  BY ConstantsAssumption DEF Init, ClockBounded
<1>2. TypeOK /\ ClockBounded /\ [Next]_vars => ClockBounded'
  <2> SUFFICES ASSUME TypeOK, ClockBounded, [Next]_vars PROVE ClockBounded'
    OBVIOUS
  <2>1. CASE ClockAdvances
    BY <2>1, ConstantsAssumption DEF ClockAdvances, ClockBounded, TypeOK
  <2>2. CASE now' = now
    BY <2>2 DEF ClockBounded
  <2> QED BY <2>1, <2>2
          DEF Next, vars, FinishSave, Tick, Offer, IdleTick, Stop, Restart, Reset, Swipe,
              ShowAnswer, ShowOffline, StatusAnswer, StatusFails, ServerBooks, BookingConfirmed,
              BookingFails, OrphanLost
<1> QED BY <1>1, <1>2, TypeCorrect, PTL DEF Spec

\* An early swipe is moved by no more than Opening.
LEMMA BookingTimeBound ==
  ASSUME NEW t \in Nat
  PROVE  BookingTime(t) <= t + Opening
<1>1. DayLength \in Nat \ {0} /\ Opening \in Nat /\ EarlyFrom \in Nat
  BY ConstantsAssumption
<1>2. t % DayLength \in Nat
  BY <1>1
<1>3. CASE t % DayLength \in EarlyFrom..(Opening - 1)
  BY <1>1, <1>2, <1>3 DEF BookingTime
<1>4. CASE t % DayLength \notin EarlyFrom..(Opening - 1)
  BY <1>1, <1>4 DEF BookingTime
<1> QED BY <1>3, <1>4

\* An accepted event whose number is in the journal is recorded as it is.
LEMMA RecordedByNo ==
  ASSUME TypeOK, NothingInvented, NEW e \in TimeEvent, IsAccepted(e), e.no \in BookedNos
  PROVE  e \in Recorded
<1>1. PICK i \in DOMAIN booked : booked[i].no = e.no
  BY DEF BookedNos
<1>2. booked[i].card = e.card /\ booked[i].time = e.time
  BY <1>1 DEF NothingInvented, IsAccepted
<1>3. e = [no |-> e.no, card |-> e.card, time |-> e.time]
  BY DEF TimeEvent
<1> QED BY <1>1, <1>2, <1>3 DEF Recorded

\* The journal's next entry, as an event.
LEMMA RecordedAppend ==
  ASSUME TypeOK, NEW r \in Requests, ServerBooks(r), req[r].ev \in TimeEvent
  PROVE  Recorded' = Recorded \cup {req[r].ev}
<1>1. booked' = Append(booked, Booking(req[r])) /\ booked \in Seq(Bookings)
  BY DEF ServerBooks, TypeOK
<1>2. /\ DOMAIN booked' = DOMAIN booked \cup {Len(booked) + 1}
      /\ \A i \in DOMAIN booked : booked'[i] = booked[i]
      /\ booked'[Len(booked) + 1] = Booking(req[r])
  BY <1>1
<1>3. [no |-> Booking(req[r]).no, card |-> Booking(req[r]).card, time |-> Booking(req[r]).time]
        = req[r].ev
  BY DEF Booking, TimeEvent
<1> QED BY <1>2, <1>3 DEF Recorded
\* While the promise's premise lasts, a step of the booking path is one of the
\* outbox or changes nothing there.
LEMMA OutboxStep ==
  ASSUME TypeOK, NothingInvented, ClockBounded, OneForHead, [Next]_vars, intact'
  PROVE  \/ \E e \in OutboxEvents : Outbox!Accept(e)
         \/ Outbox!Record
         \/ Outbox!Discharge
         \/ UNCHANGED <<Pending, Recorded>>
<1>a. /\ req \in [Requests -> OpenRequest \cup {Idle}]
      /\ queue \in Seq(TimeEvent) /\ file \in Seq(TimeEvent)
      /\ Idle.phase = "idle"
      /\ \A r \in Requests : req[r].phase # "idle" => req[r] # Idle /\ req[r].ev \in TimeEvent
  BY RequestPhases DEF TypeOK
<1>1. CASE FinishSave
  <2>1. UNCHANGED Pending
    BY <1>1 DEF FinishSave, Pending
  <2>2. UNCHANGED Recorded
    BY <1>1 DEF FinishSave, Recorded
  <2> QED BY <2>1, <2>2
<1>2. CASE Stop
  <2>1. UNCHANGED Pending
    BY <1>2 DEF Stop, Pending
  <2>2. UNCHANGED Recorded
    BY <1>2 DEF Stop, Recorded
  <2> QED BY <2>1, <2>2
<1>3. CASE Restart
  <2>1. UNCHANGED Pending
    BY <1>3 DEF Restart, Loaded, Pending
  <2>2. UNCHANGED Recorded
    BY <1>3 DEF Restart, Recorded
  <2> QED BY <2>1, <2>2
<1>4. ASSUME NEW card \in Cards, Swipe(card)
      PROVE  \E e \in OutboxEvents : Outbox!Accept(e)
  <2> DEFINE ev == [no |-> Len(accepted) + 1, card |-> card, time |-> BookingTime(now)]
  <2>1. /\ pc = "run" /\ pc' \in {"run", "saving"} /\ UNCHANGED booked
        /\ queue' = Append(queue, ev) /\ Len(accepted) < MaxAccepted
    BY <1>4 DEF Swipe, StartSave, Enqueue
  <2>2. /\ accepted \in Seq(TimeEvent) /\ Len(accepted) \in Nat
        /\ DOMAIN accepted = 1..Len(accepted) /\ now \in Nat
    BY DEF TypeOK
  <2>3. BookingTime(now) \in 0..(MaxNow + Opening)
    <3>1. BookingTime(now) \in Nat /\ BookingTime(now) <= now + Opening
      BY <2>2, BookingTimeForward, BookingTimeBound
    <3>2. now <= MaxNow /\ MaxNow \in Nat /\ Opening \in Nat
      BY ConstantsAssumption DEF ClockBounded
    <3> QED BY <2>2, <3>1, <3>2
  <2>4. Len(accepted) + 1 \in 1..MaxAccepted
    BY <2>1, <2>2, ConstantsAssumption
  <2>5. ev \in OutboxEvents
    BY <2>3, <2>4 DEF OutboxEvents
  <2>6. ev.no \notin DOMAIN accepted
    BY <2>2
  <2> HIDE DEF ev
  <2>7. ev \notin Recorded
    <3>1. \A i \in DOMAIN booked : booked[i].no \in DOMAIN accepted
      BY DEF NothingInvented, IsAccepted
    <3> QED BY <2>6, <3>1 DEF Recorded
  <2>8. \A i \in DOMAIN queue : queue[i] # ev
    BY <2>6 DEF NothingInvented, IsAccepted
  <2>9. Pending = queue /\ Pending' = Append(Pending, ev)
    BY <2>1 DEF Pending
  <2>10. UNCHANGED Recorded
    BY <2>1 DEF Recorded
  <2>11. Outbox!Accept(ev)
    BY <2>7, <2>8, <2>9, <2>10 DEF Outbox!Accept
  <2> QED BY <2>5, <2>11
<1>5. ASSUME NEW r \in Requests, ServerBooks(r)
      PROVE  Outbox!Record \/ UNCHANGED <<Pending, Recorded>>
  <2>1. UNCHANGED Pending
    BY <1>5 DEF ServerBooks, Pending
  <2>2. req[r].ev \in TimeEvent /\ IsAccepted(req[r].ev)
    BY <1>5, <1>a DEF ServerBooks, NothingInvented
  <2>3. Recorded' = Recorded \cup {req[r].ev}
    BY <1>5, <2>2, RecordedAppend
  <2>4. CASE req[r].ev.no \in BookedNos
    BY <2>1, <2>2, <2>3, <2>4, RecordedByNo
  <2>5. CASE Pending # <<>> /\ req[r].ev = Head(Pending)
    BY <2>1, <2>3, <2>5 DEF Outbox!Record
  <2> QED BY <1>5, <2>4, <2>5 DEF ServerBooks, OneForHead, Active, Pending
<1>6. ASSUME NEW r \in Requests, BookingConfirmed(r)
      PROVE  Outbox!Discharge
  <2>1. /\ pc = "run" /\ queue # <<>> /\ req[r].ev = Head(queue) /\ Head(queue).no \in BookedNos
        /\ req[r].phase = "acked" /\ UNCHANGED booked
    BY <1>6 DEF BookingConfirmed, OneForHead, Active
  <2>2. pc' \in {"run", "saving"} /\ queue' = Tail(queue)
    BY <1>6, <2>1 DEF BookingConfirmed, RemoveFirst, StartSave
  <2>3. Head(queue) \in Recorded
    BY <1>a, <2>1, RecordedByNo DEF NothingInvented
  <2>4. Pending = queue /\ Pending' = Tail(queue)
    BY <2>1, <2>2 DEF Pending
  <2>5. UNCHANGED Recorded
    BY <2>1 DEF Recorded
  <2> QED BY <2>1, <2>3, <2>4, <2>5 DEF Outbox!Discharge
<1>7. CASE UNCHANGED <<pc, queue, file, booked>>
  <2>1. UNCHANGED Pending
    BY <1>7 DEF Pending
  <2>2. UNCHANGED Recorded
    BY <1>7 DEF Recorded
  <2> QED BY <2>1, <2>2
<1> QED BY <1>1, <1>2, <1>3, <1>4, <1>5, <1>6, <1>7
        DEF Next, vars, Tick, Offer, IdleTick, Reset, ClockAdvances, ShowAnswer, ShowOffline,
            StatusAnswer, StatusFails, BookingFails, OrphanLost

\* The booking path implements the outbox for every value of the constants.
THEOREM OutboxImplemented == Spec => ImplementsOutbox
<1>1. Init => Outbox!Init
  BY DEF Init, Outbox!Init, Pending, Recorded
<1>2. /\ TypeOK /\ TypeOK' /\ NothingInvented /\ ClockBounded /\ IntactInv /\ [Next]_vars
      => [Outbox!Next]_<<Pending, Recorded, intact>>
  <2> SUFFICES ASSUME TypeOK, TypeOK', NothingInvented, ClockBounded, IntactInv, [Next]_vars
               PROVE  [Outbox!Next]_<<Pending, Recorded, intact>>
    OBVIOUS
  <2>1. intact \in BOOLEAN /\ intact' \in BOOLEAN
    BY DEF TypeOK
  <2>2. CASE intact'
    <3>1. intact /\ OneForHead
      BY <2>2, IntactSteps DEF IntactInv
    <3>2. \/ \E e \in OutboxEvents : Outbox!Accept(e)
          \/ Outbox!Record
          \/ Outbox!Discharge
          \/ UNCHANGED <<Pending, Recorded>>
      BY <2>2, <3>1, OutboxStep
    <3>3. intact' = intact
      BY <2>1, <2>2, <3>1
    <3> QED BY <2>2, <3>1, <3>2, <3>3 DEF Outbox!Next
  <2>3. CASE ~intact'
    <3>1. Outbox!Fail
      BY <2>1, <2>3 DEF Outbox!Fail
    <3> QED BY <3>1 DEF Outbox!Next
  <2> QED BY <2>2, <2>3
<1> QED BY <1>1, <1>2, TypeCorrect, NothingIsInvented, ClockStaysBounded, IntactInvariant, PTL
        DEF Spec, ImplementsOutbox, Outbox!Spec
=============================================================================

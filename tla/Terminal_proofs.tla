--------------------------- MODULE Terminal_proofs ---------------------------
(***************************************************************************)
(* Theorems about the host and the plugin together, for all users, cards   *)
(* and employees, and queues of any length.  A step of the terminal is one *)
(* of UserSession or leaves the session alone, so what holds of sessions   *)
(* holds here.  For the rest each step of either thread hands on what is   *)
(* still to come: a login that books becomes a message, a call, a post and *)
(* the logout (BookerIsLoggedOut is inductive), and a flag that the widget *)
(* does not show yet is a number to be written, a post or a look that the  *)
(* host is about to take (ChangeIsShown).                                  *)
(***************************************************************************)
EXTENDS Terminal, UserSession_proofs

CallSet == Cards \cup {NoCard, "closed"}
PostSet == {"message", "updateUi", "guest"}

\* Only the last call of the queue may be in S.
OnlyLast(queue, S) == \A i \in 1 .. (Len(queue) - 1) : queue[i] \notin S

NobodyHasNoCard == name = NoUser => with = NoCard

\* A session has more than the guest's level, so that the plugin can end it.
AboveGuest == name # NoUser => current # Guest

SessionPart == NobodyHasNoCard /\ AboveGuest

OnlyTimeHasMessages ==
  variant # "time" => ~message /\ asked = 0 /\ ~InQueue(posts, {"message"})

MessagePart == OnlyTimeHasMessages /\ BookerIsLoggedOut /\ OthersAreLeftAlone

\* The widget has the standard view, and is not about to leave it.
ShowsClock == view = "clock" /\ host # "open"

UpdateComing == pending # "done" \/ host = "look" \/ InQueue(posts, {"updateUi"})

OnlyProjectsHaveViews ==
  variant # "projects" => standard /\ pending \notin Employees /\ ShowsClock

\* The employee's number belongs to the flag, but for what is yet to be written.
NumberOfFlag == standard => pending \notin Employees /\ (pending = "done" => employee = NoCard)

\* The last call is that of the present session, and decides about the flag.
LastCall ==
  variant = "projects" =>
    IF calls # <<>> THEN calls[Len(calls)] = with ELSE with = NoCard => standard

ChangeIsShown == UpdateComing \/ (standard <=> ShowsClock)

\* What the plugin and its view are for who logged in with nothing of another.
Undisturbed ==
  variant = "projects" /\ alone =>
    /\ OnlyLast(calls, Employees)
    /\ IF calls # <<>> \/ with \notin Employees THEN standard /\ ShowsClock
       ELSE /\ ~standard /\ pending \in {with, "done"} /\ employee \in {with, NoCard}
            /\ view \in {"clock", with, NoCard}

ViewPart == OnlyProjectsHaveViews /\ NumberOfFlag /\ LastCall /\ ChangeIsShown /\ Undisturbed

TerminalInv == TerminalTypeOK /\ SessionPart /\ MessagePart /\ ViewPart
-----------------------------------------------------------------------------
LEMMA CardBounds ==
  /\ Employees \subseteq Cards /\ NoCard \notin Cards /\ NoCard \notin Employees
  /\ {"closed", "clock", "done"} \cap (Cards \cup {NoCard}) = {}
BY TerminalAssumption, ConstantsAssumption

LEMMA StepIsOfSession == TerminalNext => [Next]_vars
<1> SUFFICES ASSUME TerminalNext PROVE Next \/ UNCHANGED vars
  OBVIOUS
<1>1. CASE TellsUser
  BY <1>1 DEF TellsUser, Next, Operator, Reader
<1>2. CASE TellsNobody
  BY <1>2 DEF TellsNobody, Next, Operator, Reader
<1>3. CASE HostStep
  BY <1>3 DEF HostStep, HandleLog, GuestLevel, UpdateUi, StateChanged, HideTimeEvent, MainWidget, OpenView, Next
<1>4. CASE PluginStep
  BY <1>4 DEF PluginStep
<1>5. CASE TerminalRestart
  BY <1>5 DEF TerminalRestart, Next
<1> QED
  BY <1>1, <1>2, <1>3, <1>4, <1>5 DEF TerminalNext

\* The host's session goes on as it would without the plugin: the terminal
\* implements UserSession.
THEOREM SessionImplemented == TerminalSpec => Spec
<1>1. TerminalInit => Init
  BY DEF TerminalInit
<1>2. [TerminalNext]_terminalVars => [Next]_vars
  BY StepIsOfSession DEF terminalVars
<1> QED
  BY <1>1, <1>2, PTL DEF TerminalSpec, Spec
-----------------------------------------------------------------------------
(* The queues. *)

LEMMA QueueAdded ==
  ASSUME NEW T, NEW q \in Seq(T), NEW e \in T
  PROVE  /\ Append(q, e) \in Seq(T) /\ Append(q, e) # <<>> /\ Append(q, e)[Len(Append(q, e))] = e
         /\ \A S : OnlyLast(Append(q, e), S) <=> ~InQueue(q, S)
         /\ \A S : InQueue(Append(q, e), S) <=> InQueue(q, S) \/ e \in S
<1> DEFINE r == Append(q, e)
<1>1. Len(r) = Len(q) + 1 /\ Len(q) \in Nat /\ r \in Seq(T)
  OBVIOUS
<1>2. DOMAIN r = 1 .. Len(r) /\ DOMAIN q = 1 .. Len(q)
  BY <1>1
<1>3. \A i \in 1 .. Len(q) : r[i] = q[i]
  OBVIOUS
<1>4. r[Len(r)] = e
  BY <1>1
<1>5. ASSUME NEW S PROVE InQueue(r, S) <=> InQueue(q, S) \/ e \in S
  BY <1>1, <1>2, <1>3, <1>4 DEF InQueue
<1>6. ASSUME NEW S PROVE OnlyLast(r, S) <=> ~InQueue(q, S)
  BY <1>1, <1>2, <1>3 DEF InQueue, OnlyLast
<1>7. r # <<>>
  BY <1>1
<1> QED
  BY <1>1, <1>4, <1>5, <1>6, <1>7

LEMMA QueueTaken ==
  ASSUME NEW T, NEW q \in Seq(T), q # <<>>
  PROVE  /\ Tail(q) \in Seq(T) /\ Head(q) \in T
         /\ IF Tail(q) = <<>> THEN q[Len(q)] = Head(q) ELSE Tail(q)[Len(Tail(q))] = q[Len(q)]
         /\ \A S : OnlyLast(q, S) => OnlyLast(Tail(q), S) /\ (Head(q) \in S => Tail(q) = <<>>)
         /\ \A S : InQueue(q, S) <=> InQueue(Tail(q), S) \/ Head(q) \in S
<1> DEFINE r == Tail(q)
<1>1. Len(q) \in Nat \ {0} /\ Len(r) = Len(q) - 1 /\ r \in Seq(T)
  OBVIOUS
<1>2. DOMAIN r = 1 .. Len(r) /\ DOMAIN q = 1 .. Len(q)
  BY <1>1
<1>3. Head(q) = q[1] /\ q[1] \in T
  OBVIOUS
<1>4. \A i \in 1 .. Len(r) : r[i] = q[i + 1]
  OBVIOUS
<1>5. r = <<>> <=> Len(q) = 1
  <2>1. Len(r) = 0 <=> Len(q) = 1
    BY <1>1
  <2>2. \A s \in Seq(T) : s = <<>> <=> Len(s) = 0
    OBVIOUS
  <2> QED
    BY <1>1, <2>1, <2>2
<1>6. ASSUME r # <<>> PROVE r[Len(r)] = q[Len(q)]
  <2>1. Len(r) \in 1 .. Len(r) /\ Len(r) + 1 = Len(q)
    BY <1>1, <1>5, <1>6
  <2> QED
    BY <1>4, <2>1
<1>7. ASSUME NEW S, OnlyLast(q, S) PROVE OnlyLast(r, S) /\ (Head(q) \in S => r = <<>>)
  <2>1. ASSUME NEW i \in 1 .. (Len(r) - 1) PROVE r[i] \notin S
    <3>1. i \in 1 .. Len(r) /\ i + 1 \in 1 .. (Len(q) - 1)
      BY <1>1
    <3> QED
      BY <1>4, <1>7, <3>1 DEF OnlyLast
  <2>2. ASSUME r # <<>> PROVE q[1] \notin S
    <3>1. 1 \in 1 .. (Len(q) - 1)
      BY <1>1, <1>5, <2>2
    <3> QED
      BY <1>7, <3>1 DEF OnlyLast
  <2> QED
    BY <1>3, <2>1, <2>2 DEF OnlyLast
<1>8. ASSUME NEW S PROVE InQueue(q, S) <=> InQueue(r, S) \/ Head(q) \in S
  <2>1. ASSUME NEW i \in DOMAIN q, q[i] \in S, i # 1 PROVE InQueue(r, S)
    <3>1. i - 1 \in DOMAIN r /\ r[i - 1] = q[i]
      BY <1>1, <1>2, <1>4, <2>1
    <3> QED
      BY <2>1, <3>1 DEF InQueue
  <2>2. ASSUME NEW j \in DOMAIN r, r[j] \in S PROVE InQueue(q, S)
    <3>1. j + 1 \in DOMAIN q /\ r[j] = q[j + 1]
      BY <1>1, <1>2, <1>4
    <3> QED
      BY <2>2, <3>1 DEF InQueue
  <2>3. 1 \in DOMAIN q
    BY <1>1, <1>2
  <2> QED
    BY <1>3, <2>1, <2>2, <2>3 DEF InQueue
<1> QED
  BY <1>1, <1>3, <1>5, <1>6, <1>7, <1>8

\* An empty queue holds nothing.
LEMMA QueueEmpty == \A S : ~InQueue(<<>>, S) /\ OnlyLast(<<>>, S)
<1>1. DOMAIN <<>> = {} /\ Len(<<>>) = 0
  OBVIOUS
<1> QED
  BY <1>1 DEF InQueue, OnlyLast
-----------------------------------------------------------------------------
LEMMA TerminalStarts == TerminalInit => TerminalInv
<1> SUFFICES ASSUME TerminalInit PROVE TerminalInv
  OBVIOUS
<1>1. /\ variant \in Variants /\ name = NoUser
      /\ calls = <<>> /\ posts = <<>> /\ asked = 0
      /\ standard = TRUE /\ employee = NoCard /\ pending = "done"
      /\ host = "free" /\ message = FALSE /\ view = "clock"
      /\ with = NoCard /\ alone = TRUE
  BY DEF TerminalInit, Init
<1>2. <<>> \in Seq(CallSet) /\ <<>> \in Seq(PostSet)
  OBVIOUS
<1>3. TerminalTypeOK
  BY <1>1, <1>2 DEF TerminalTypeOK, CallSet, PostSet
<1>4. SessionPart
  BY <1>1 DEF SessionPart, NobodyHasNoCard, AboveGuest
<1>5. MessagePart
  BY <1>1, QueueEmpty DEF MessagePart, OnlyTimeHasMessages, BookerIsLoggedOut, OthersAreLeftAlone
<1>6. ViewPart
  BY <1>1, QueueEmpty, CardBounds
  DEF ViewPart, OnlyProjectsHaveViews, NumberOfFlag, LastCall, ChangeIsShown, ShowsClock, Undisturbed
<1> QED
  BY <1>3, <1>4, <1>5, <1>6 DEF TerminalInv

LEMMA RestartsAgain ==
  ASSUME TerminalInv, TerminalRestart
  PROVE  TerminalInv'
<1>1. /\ variant' = variant /\ variant \in Variants /\ name' = NoUser
      /\ calls' = <<>> /\ posts' = <<>> /\ asked' = 0
      /\ standard' = TRUE /\ employee' = NoCard /\ pending' = "done"
      /\ host' = "free" /\ message' = FALSE /\ view' = "clock"
      /\ with' = NoCard /\ alone' = TRUE
  BY DEF TerminalRestart, Restart, TerminalInv, TerminalTypeOK
<1>2. <<>> \in Seq(CallSet) /\ <<>> \in Seq(PostSet)
  OBVIOUS
<1>3. TerminalTypeOK'
  BY <1>1, <1>2 DEF TerminalTypeOK, CallSet, PostSet
<1>4. SessionPart'
  BY <1>1 DEF SessionPart, NobodyHasNoCard, AboveGuest
<1>5. MessagePart'
  BY <1>1, QueueEmpty DEF MessagePart, OnlyTimeHasMessages, BookerIsLoggedOut, OthersAreLeftAlone
<1>6. ViewPart'
  BY <1>1, QueueEmpty, CardBounds
  DEF ViewPart, OnlyProjectsHaveViews, NumberOfFlag, LastCall, ChangeIsShown, ShowsClock, Undisturbed
<1> QED
  BY <1>3, <1>4, <1>5, <1>6 DEF TerminalInv

\* Steps that leave the session's user and level, the plugin and its view alone.
LEMMA RestKeeps ==
  ASSUME TerminalInv, UNCHANGED <<name, current, plugin, ghosts>>
  PROVE  TerminalInv'
<1>1. UNCHANGED <<name, current, variant, calls, posts, asked, standard, employee, pending, host,
                  message, view, with, alone>>
  BY DEF plugin, ghosts, shown, widget
<1>2. TerminalTypeOK' /\ SessionPart'
  BY <1>1 DEF TerminalInv, TerminalTypeOK, SessionPart, NobodyHasNoCard, AboveGuest
<1>3. MessagePart'
  BY <1>1 DEF TerminalInv, MessagePart, OnlyTimeHasMessages, BookerIsLoggedOut, OthersAreLeftAlone, Quiet
<1>4. ViewPart'
  BY <1>1 DEF TerminalInv, ViewPart, OnlyProjectsHaveViews, NumberOfFlag, LastCall, ChangeIsShown,
              ShowsClock, UpdateComing, Undisturbed
<1> QED
  BY <1>2, <1>3, <1>4 DEF TerminalInv
-----------------------------------------------------------------------------
(* The host's thread. *)

\* A login or a logout that is told to the plugin, also one that the plugin asked for.
LEMMA TellKeeps ==
  ASSUME TerminalInv, NEW card \in Cards \cup {NoCard}, Tell(card), AboveGuest',
         name' = NoUser => card = NoCard, host = "free",
         \/ posts' = posts
         \/ Posted("guest") /\ name' = NoUser
  PROVE  TerminalInv'
<1>1. /\ with' = card /\ alone' = (Quiet /\ view = "clock" /\ standard)
      /\ UNCHANGED <<variant, asked, standard, employee, pending, message, view>>
  BY DEF Tell, shown, widget
<1>2. /\ calls \in Seq(CallSet) /\ posts \in Seq(PostSet) /\ card \in CallSet
      /\ variant \in Variants /\ card \notin {"closed"}
  BY CardBounds DEF TerminalInv, TerminalTypeOK, CallSet, PostSet
<1>3. /\ posts' \in Seq(PostSet)
      /\ \A S : InQueue(posts', S) => InQueue(posts, S)
  <2>1. CASE posts' = posts
    BY <1>2, <2>1
  <2>2. CASE posts # <<>> /\ posts' = Tail(posts)
    <3>1. /\ Tail(posts) \in Seq(PostSet)
          /\ \A S : InQueue(posts, S) <=> InQueue(Tail(posts), S) \/ Head(posts) \in S
      BY <1>2, <2>2, QueueTaken
    <3> QED
      BY <2>2, <3>1
  <2> QED
    BY <2>1, <2>2 DEF Posted
<1>4. alone' \in BOOLEAN
  <2>1. standard \in BOOLEAN /\ (view = "clock") \in BOOLEAN /\ Quiet \in BOOLEAN
    BY DEF TerminalInv, TerminalTypeOK, Quiet
  <2> QED
    BY <1>1, <2>1
<1>5. SessionPart'
  BY <1>1 DEF SessionPart, NobodyHasNoCard
<1>6. OnlyTimeHasMessages'
  BY <1>1, <1>3 DEF TerminalInv, MessagePart, OnlyTimeHasMessages
<1>7. CASE variant = "none"
  <2>1. UNCHANGED <<calls, host>>
    BY <1>7 DEF Tell
  <2>2. TerminalTypeOK'
    BY <1>1, <1>2, <1>3, <1>4, <2>1 DEF TerminalInv, TerminalTypeOK, PostSet
  <2>3. MessagePart'
    <3>1. BookerIsLoggedOut'
      BY <1>1, <1>7 DEF BookerIsLoggedOut
    <3>2. OthersAreLeftAlone'
      BY <1>1, <1>3, <2>1 DEF OthersAreLeftAlone, Quiet
    <3> QED
      BY <1>6, <3>1, <3>2 DEF MessagePart
  <2>4. ViewPart'
    BY <1>1, <1>7, <2>1
    DEF TerminalInv, ViewPart, OnlyProjectsHaveViews, NumberOfFlag, LastCall, ChangeIsShown, ShowsClock,
        Undisturbed
  <2> QED
    BY <1>5, <2>2, <2>3, <2>4 DEF TerminalInv
<1>8. CASE variant # "none"
  <2>1. calls' = Append(calls, card) /\ host' = "look"
    BY <1>8 DEF Tell, Call
  <2>2. /\ calls' \in Seq(CallSet) /\ calls' # <<>> /\ calls'[Len(calls')] = card
        /\ \A S : OnlyLast(calls', S) <=> ~InQueue(calls, S)
        /\ \A S : InQueue(calls', S) <=> InQueue(calls, S) \/ card \in S
    BY <1>2, <2>1, QueueAdded
  <2>3. TerminalTypeOK'
    BY <1>1, <1>2, <1>3, <1>4, <2>1, <2>2 DEF TerminalInv, TerminalTypeOK, CallSet, PostSet
  <2>4. MessagePart'
    <3>1. BookerIsLoggedOut'
      BY <1>1, <2>2 DEF BookerIsLoggedOut
    <3>2. OthersAreLeftAlone'
      BY <1>1, <1>2, <1>3, <2>2 DEF OthersAreLeftAlone, Quiet
    <3> QED
      BY <1>6, <3>1, <3>2 DEF MessagePart
  <2>5. OnlyProjectsHaveViews' /\ NumberOfFlag' /\ LastCall' /\ ChangeIsShown'
    BY <1>1, <2>1, <2>2
    DEF TerminalInv, ViewPart, OnlyProjectsHaveViews, NumberOfFlag, LastCall, ChangeIsShown, UpdateComing,
        ShowsClock
  <2>6. Undisturbed'
    <3>1. ~InQueue(calls, Employees \cup {"closed"}) => ~InQueue(calls, Employees)
      BY DEF InQueue
    <3> QED
      BY <1>1, <2>1, <2>2, <3>1 DEF Undisturbed, ShowsClock, Quiet
  <2> QED
    BY <1>5, <2>3, <2>4, <2>5, <2>6 DEF TerminalInv, ViewPart
<1> QED
  BY <1>7, <1>8

\* A login sets a level above the guest's, and a logout no name.
LEMMA SessionTold ==
  ASSUME IInv, TerminalInv, NEW card \in Cards \cup {NoCard}, Tell(card), host = "free",
         \/ posts' = posts /\ \E who \in DOMAIN users \cup {Default} : LogIn(who)
         \/ (posts' = posts \/ Posted("guest")) /\ (LogOut \/ Timeout) /\ card = NoCard
  PROVE  TerminalInv'
<1>1. ASSUME NEW who \in DOMAIN users \cup {Default}, LogIn(who), posts' = posts PROVE TerminalInv'
  <2>1. UsersTypes
    BY TypesInParts DEF IInv
  <2>2. base \in 0 .. 9 /\ users \in Tables /\ name' = who /\ current' = LevelSet(LevelOf(who))
    BY <1>1, <2>1 DEF UsersTypes, LogIn, SetAccessLevel
  <2>3. who # NoUser
    BY <2>2, TableHolds, Bounds
  <2>4. LevelOf(who) \in 2 .. 10
    BY <2>2, TableHolds DEF LevelOf, DefaultLevel
  <2>5. current' # Guest
    <3> DEFINE level == LevelOf(who)
    <3>1. level \in 2 .. 10 /\ current' = LevelSet(level)
      BY <2>2, <2>4
    <3> HIDE DEF level
    <3> QED
      BY <2>2, <3>1 DEF LevelSet, Larger, Guest
  <2>6. AboveGuest' /\ name' # NoUser
    BY <2>2, <2>3, <2>5 DEF AboveGuest
  <2> QED
    BY <1>1, <2>6, TellKeeps
<1>2. ASSUME LogOut \/ Timeout, card = NoCard, posts' = posts \/ Posted("guest") PROVE TerminalInv'
  <2>1. name' = NoUser
    BY <1>2 DEF LogOut, Timeout, SetAccessLevel
  <2> QED
    BY <1>2, <2>1, TellKeeps DEF AboveGuest
<1> QED
  BY <1>1, <1>2

LEMMA TellsUserKeeps ==
  ASSUME IInv, TerminalInv, TellsUser
  PROVE  TerminalInv'
<1>1. host = "free" /\ posts' = posts
  BY DEF TellsUser
<1>2. ASSUME NEW who \in DOMAIN users \cup {Default}, Password(who), Tell(CardOf(who))
      PROVE  TerminalInv'
  <2>1. CardOf(who) \in Cards \cup {NoCard}
    <3>1. users \in Tables
      BY TypesInParts DEF IInv, UsersTypes
    <3> QED
      BY <3>1, TableHolds DEF CardOf, Record
  <2> QED
    BY <1>1, <1>2, <2>1, SessionTold DEF Password
<1>3. ASSUME NEW card \in Cards, CardLogsIn(card), Tell(card) PROVE TerminalInv'
  BY <1>1, <1>3, SessionTold DEF CardLogsIn, Uses
<1>4. ASSUME NoPassword \/ Timeout \/ \E card \in Cards : UnknownCard(card), Tell(NoCard)
      PROVE  TerminalInv'
  <2>1. LogOut \/ Timeout
    BY <1>4 DEF NoPassword, UnknownCard
  <2> QED
    BY <1>1, <1>4, <2>1, SessionTold
<1> QED
  BY <1>2, <1>3, <1>4 DEF TellsUser

LEMMA TellsNobodyKeeps ==
  ASSUME TerminalInv, TellsNobody
  PROVE  TerminalInv'
<1>1. UNCHANGED <<plugin, ghosts>>
  BY DEF TellsNobody
<1>2. UNCHANGED <<name, current>>
  <2>1. CASE Administrates
    BY <2>1 DEF Administrates, OpenForm, AddUser, EditLevel, DeleteUser, WaitForCard, Cancel, Import, Rebase,
                session
  <2>2. CASE HoverMove \/ Counts
    BY <2>2 DEF HoverMove, Counts
  <2>3. ASSUME NEW card \in Cards, NEW id \in Ids, EnrolCard(card, id) \/ UpdateUsers(id, card)
        PROVE UNCHANGED <<name, current>>
    BY <2>3 DEF EnrolCard, UpdateUsers, Rebase, session
  <2>4. ASSUME NEW card \in Cards, RefuseCard(card) PROVE UNCHANGED <<name, current>>
    BY <2>4 DEF RefuseCard, session
  <2> QED
    BY <2>1, <2>2, <2>3, <2>4 DEF TellsNobody
<1> QED
  BY <1>1, <1>2, RestKeeps

\* The session's variables that the terminal's steps leave alone.
LEMMA SessionStays == UNCHANGED <<vars, ghosts>> => UNCHANGED <<name, current, with, alone>>
BY DEF vars, session, ghosts

LEMMA HandleLogKeeps ==
  ASSUME TerminalInv, HandleLog
  PROVE  TerminalInv'
<1>1. /\ posts # <<>> /\ Head(posts) = "message" /\ posts' = Tail(posts) /\ message' = TRUE
      /\ UNCHANGED <<name, current, variant, calls, asked, standard, employee, pending, host, view, with, alone>>
  BY SessionStays DEF HandleLog, Posted, shown
<1>2. posts \in Seq(PostSet)
  BY DEF TerminalInv, TerminalTypeOK, PostSet
<1>3. posts' \in Seq(PostSet) /\ \A S : InQueue(posts, S) <=> InQueue(posts', S) \/ "message" \in S
  BY <1>1, <1>2, QueueTaken
<1>4. TerminalTypeOK' /\ SessionPart'
  BY <1>1, <1>3 DEF TerminalInv, TerminalTypeOK, PostSet, SessionPart, NobodyHasNoCard, AboveGuest
<1>5. MessagePart'
  BY <1>1, <1>3 DEF TerminalInv, MessagePart, OnlyTimeHasMessages, BookerIsLoggedOut, OthersAreLeftAlone, Quiet
<1>6. ViewPart'
  BY <1>1, <1>3 DEF TerminalInv, ViewPart, OnlyProjectsHaveViews, NumberOfFlag, LastCall, ChangeIsShown,
                    ShowsClock, UpdateComing, Undisturbed
<1> QED
  BY <1>4, <1>5, <1>6 DEF TerminalInv

LEMMA GuestLevelKeeps ==
  ASSUME IInv, TerminalInv, GuestLevel
  PROVE  TerminalInv'
<1>1. Posted("guest") /\ host = "free"
  BY DEF GuestLevel, Posted
<1>2. CASE SetLevelValue /\ Tell(NoCard)
  BY <1>1, <1>2, SessionTold DEF SetLevelValue
<1>3. CASE current = Guest /\ UNCHANGED <<vars, variant, calls, asked, shown, host, widget, ghosts>>
  <2>1. /\ posts # <<>> /\ Head(posts) = "guest" /\ posts' = Tail(posts)
        /\ UNCHANGED <<name, current, variant, calls, asked, standard, employee, pending, host, message, view,
                       with, alone>>
    BY <1>1, <1>3, SessionStays DEF Posted, shown, widget
  <2>2. posts \in Seq(PostSet) /\ name = NoUser
    BY <1>3 DEF TerminalInv, TerminalTypeOK, PostSet, SessionPart, AboveGuest
  <2>3. posts' \in Seq(PostSet) /\ \A S : InQueue(posts, S) <=> InQueue(posts', S) \/ "guest" \in S
    BY <2>1, <2>2, QueueTaken
  <2>4. TerminalTypeOK' /\ SessionPart'
    BY <2>1, <2>3 DEF TerminalInv, TerminalTypeOK, PostSet, SessionPart, NobodyHasNoCard, AboveGuest
  <2>5. MessagePart'
    BY <2>1, <2>2, <2>3
    DEF TerminalInv, MessagePart, OnlyTimeHasMessages, BookerIsLoggedOut, OthersAreLeftAlone
  <2>6. ViewPart'
    BY <2>1, <2>3 DEF TerminalInv, ViewPart, OnlyProjectsHaveViews, NumberOfFlag, LastCall, ChangeIsShown,
                      ShowsClock, UpdateComing, Undisturbed
  <2> QED
    BY <2>4, <2>5, <2>6 DEF TerminalInv
<1> QED
  BY <1>2, <1>3 DEF GuestLevel

\* The host is about to look at the flag.
LEMMA LookKeeps ==
  ASSUME TerminalInv, UpdateUi \/ StateChanged
  PROVE  TerminalInv'
<1>1. /\ host = "free" /\ host' = "look"
      /\ \/ posts' = posts
         \/ posts # <<>> /\ Head(posts) = "updateUi" /\ posts' = Tail(posts)
      /\ UNCHANGED <<name, current, variant, calls, asked, standard, employee, pending, message, view,
                     with, alone>>
  BY SessionStays DEF UpdateUi, StateChanged, Posted, shown, widget
<1>2. posts \in Seq(PostSet)
  BY DEF TerminalInv, TerminalTypeOK, PostSet
<1>3. posts' \in Seq(PostSet) /\ \A S : "updateUi" \notin S => (InQueue(posts, S) <=> InQueue(posts', S))
  <2>1. CASE posts' = posts
    BY <1>2, <2>1
  <2>2. CASE posts # <<>> /\ Head(posts) = "updateUi" /\ posts' = Tail(posts)
    <3>1. /\ Tail(posts) \in Seq(PostSet)
          /\ \A S : InQueue(posts, S) <=> InQueue(Tail(posts), S) \/ Head(posts) \in S
      BY <1>2, <2>2, QueueTaken
    <3> QED
      BY <2>2, <3>1
  <2> QED
    BY <1>1, <2>1, <2>2
<1>4. TerminalTypeOK' /\ SessionPart'
  BY <1>1, <1>3 DEF TerminalInv, TerminalTypeOK, PostSet, SessionPart, NobodyHasNoCard, AboveGuest
<1>5. MessagePart'
  BY <1>1, <1>3 DEF TerminalInv, MessagePart, OnlyTimeHasMessages, BookerIsLoggedOut, OthersAreLeftAlone, Quiet
<1>6. ViewPart'
  BY <1>1 DEF TerminalInv, ViewPart, OnlyProjectsHaveViews, NumberOfFlag, LastCall, ChangeIsShown,
              ShowsClock, UpdateComing, Undisturbed
<1> QED
  BY <1>4, <1>5, <1>6 DEF TerminalInv

\* The message goes, and the plugin is told so.
LEMMA HideKeeps ==
  ASSUME TerminalInv, HideTimeEvent
  PROVE  TerminalInv'
<1>1. /\ message /\ message' = FALSE /\ calls' = Append(calls, "closed")
      /\ UNCHANGED <<name, current, variant, posts, asked, standard, employee, pending, host, view, with, alone>>
  BY SessionStays DEF HideTimeEvent, Call, shown
<1>2. calls \in Seq(CallSet) /\ variant \notin {"none", "projects"} /\ "closed" \in CallSet
  BY <1>1 DEF TerminalInv, TerminalTypeOK, CallSet, MessagePart, OnlyTimeHasMessages
<1>3. calls' \in Seq(CallSet) /\ \A S : InQueue(calls', S) <=> InQueue(calls, S) \/ "closed" \in S
  BY <1>1, <1>2, QueueAdded
<1>4. TerminalTypeOK' /\ SessionPart'
  BY <1>1, <1>3 DEF TerminalInv, TerminalTypeOK, CallSet, SessionPart, NobodyHasNoCard, AboveGuest
<1>5. MessagePart'
  BY <1>1, <1>3 DEF TerminalInv, MessagePart, OnlyTimeHasMessages, BookerIsLoggedOut, OthersAreLeftAlone, Quiet
<1>6. ViewPart'
  BY <1>1, <1>2 DEF TerminalInv, ViewPart, OnlyProjectsHaveViews, NumberOfFlag, LastCall, ChangeIsShown,
                    ShowsClock, UpdateComing, Undisturbed
<1> QED
  BY <1>4, <1>5, <1>6 DEF TerminalInv

\* The widget shows what the flag said when the host looked at it.
LEMMA ViewKeeps ==
  ASSUME TerminalInv, MainWidget \/ OpenView
  PROVE  TerminalInv'
<1>1. UNCHANGED <<name, current, variant, calls, posts, asked, standard, employee, pending, message, with, alone>>
  BY SessionStays DEF MainWidget, OpenView, shown
<1>2. \/ /\ host = "look" /\ host' = IF ~standard /\ view = "clock" THEN "open" ELSE "free"
         /\ view' = IF standard THEN "clock" ELSE view
      \/ host = "open" /\ view' = employee /\ host' = "free"
  BY DEF MainWidget, OpenView
<1>3. standard \in BOOLEAN /\ employee \in Employees \cup {NoCard} /\ employee # "clock"
  BY CardBounds DEF TerminalInv, TerminalTypeOK
<1>4. TerminalTypeOK' /\ SessionPart'
  BY <1>1, <1>2 DEF TerminalInv, TerminalTypeOK, SessionPart, NobodyHasNoCard, AboveGuest
<1>5. MessagePart'
  BY <1>1 DEF TerminalInv, MessagePart, OnlyTimeHasMessages, BookerIsLoggedOut, OthersAreLeftAlone, Quiet
<1>6. OnlyProjectsHaveViews' /\ NumberOfFlag' /\ LastCall'
  BY <1>1, <1>2 DEF TerminalInv, ViewPart, OnlyProjectsHaveViews, NumberOfFlag, LastCall, ShowsClock
<1>7. ChangeIsShown'
  BY <1>1, <1>2, <1>3 DEF TerminalInv, ViewPart, ChangeIsShown, ShowsClock, UpdateComing
<1>8. Undisturbed'
  BY <1>1, <1>2, <1>3 DEF TerminalInv, ViewPart, Undisturbed, ShowsClock
<1> QED
  BY <1>4, <1>5, <1>6, <1>7, <1>8 DEF TerminalInv, ViewPart
-----------------------------------------------------------------------------
(* The plugin's thread. *)

LEMMA NobodyThereKeeps ==
  ASSUME TerminalInv, NobodyThere, UNCHANGED <<vars, variant, host, widget, ghosts>>
  PROVE  TerminalInv'
<1>1. /\ pending = "done" /\ calls # <<>> /\ Head(calls) = NoCard /\ calls' = Tail(calls)
      /\ standard' = TRUE /\ pending' = NoCard
      /\ UNCHANGED <<name, current, variant, posts, asked, employee, host, message, view, with, alone>>
  BY SessionStays DEF NobodyThere, Called, widget
<1>2. calls \in Seq(CallSet) /\ NoCard \notin Employees \cup {"closed", "done"}
  BY CardBounds DEF TerminalInv, TerminalTypeOK, CallSet
<1>3. /\ calls' \in Seq(CallSet)
      /\ IF calls' = <<>> THEN calls[Len(calls)] = NoCard ELSE calls'[Len(calls')] = calls[Len(calls)]
      /\ \A S : OnlyLast(calls, S) => OnlyLast(calls', S)
      /\ \A S : InQueue(calls, S) <=> InQueue(calls', S) \/ NoCard \in S
  BY <1>1, <1>2, QueueTaken
<1>4. TerminalTypeOK' /\ SessionPart'
  BY <1>1, <1>3 DEF TerminalInv, TerminalTypeOK, CallSet, SessionPart, NobodyHasNoCard, AboveGuest
<1>5. MessagePart'
  <2>1. OnlyTimeHasMessages' /\ OthersAreLeftAlone'
    BY <1>1, <1>2, <1>3 DEF TerminalInv, MessagePart, OnlyTimeHasMessages, OthersAreLeftAlone, Quiet
  <2>2. BookerIsLoggedOut'
    BY <1>1, <1>2, <1>3 DEF TerminalInv, MessagePart, BookerIsLoggedOut
  <2> QED
    BY <2>1, <2>2 DEF MessagePart
<1>6. OnlyProjectsHaveViews' /\ NumberOfFlag' /\ ChangeIsShown'
  BY <1>1, <1>2 DEF TerminalInv, ViewPart, OnlyProjectsHaveViews, NumberOfFlag, ChangeIsShown, ShowsClock,
                    UpdateComing
<1>7. LastCall'
  BY <1>1, <1>3 DEF TerminalInv, ViewPart, LastCall
<1>8. Undisturbed'
  <2> SUFFICES ASSUME variant = "projects", alone, calls # <<>>, calls[Len(calls)] = with
               PROVE  OnlyLast(calls', Employees) /\ (calls' # <<>> \/ with \notin Employees) /\ ShowsClock'
    BY <1>1 DEF TerminalInv, ViewPart, LastCall, Undisturbed
  <2>1. OnlyLast(calls, Employees) /\ ShowsClock
    BY DEF TerminalInv, ViewPart, Undisturbed
  <2> QED
    BY <1>1, <1>2, <1>3, <2>1 DEF ShowsClock
<1> QED
  BY <1>4, <1>5, <1>6, <1>7, <1>8 DEF TerminalInv, ViewPart

LEMMA ShowsProjectsKeeps ==
  ASSUME TerminalInv, ShowsProjects, UNCHANGED <<vars, variant, host, widget, ghosts>>
  PROVE  TerminalInv'
<1>1. PICK card \in Employees :
        /\ pending = "done" /\ calls # <<>> /\ Head(calls) = card /\ calls' = Tail(calls)
        /\ variant = "projects" /\ standard' = FALSE /\ pending' = card
        /\ UNCHANGED <<name, current, variant, posts, asked, employee, host, message, view, with, alone>>
  BY SessionStays DEF ShowsProjects, Called, widget
<1>2. calls \in Seq(CallSet) /\ card \notin {NoCard, "closed", "done"}
  BY CardBounds DEF TerminalInv, TerminalTypeOK, CallSet
<1>3. /\ calls' \in Seq(CallSet)
      /\ IF calls' = <<>> THEN calls[Len(calls)] = card ELSE calls'[Len(calls')] = calls[Len(calls)]
      /\ \A S : OnlyLast(calls, S) => OnlyLast(calls', S) /\ (card \in S => calls' = <<>>)
      /\ \A S : InQueue(calls, S) <=> InQueue(calls', S) \/ card \in S
  BY <1>1, <1>2, QueueTaken
<1>4. TerminalTypeOK' /\ SessionPart'
  BY <1>1, <1>3 DEF TerminalInv, TerminalTypeOK, CallSet, SessionPart, NobodyHasNoCard, AboveGuest
<1>5. MessagePart'
  BY <1>1, <1>3
  DEF TerminalInv, MessagePart, OnlyTimeHasMessages, BookerIsLoggedOut, OthersAreLeftAlone, Quiet
<1>6. calls[Len(calls)] = with
  BY <1>1 DEF TerminalInv, ViewPart, LastCall
<1>7. OnlyProjectsHaveViews' /\ NumberOfFlag' /\ ChangeIsShown' /\ LastCall'
  BY <1>1, <1>2, <1>3, <1>6
  DEF OnlyProjectsHaveViews, NumberOfFlag, ChangeIsShown, UpdateComing, LastCall
<1>8. Undisturbed'
  <2> SUFFICES ASSUME alone
               PROVE  /\ OnlyLast(calls', Employees) /\ calls' = <<>> /\ with = card
                      /\ employee = NoCard /\ view = "clock"
    BY <1>1 DEF Undisturbed
  <2>1. OnlyLast(calls, Employees) /\ standard /\ ShowsClock
    BY <1>1 DEF TerminalInv, ViewPart, Undisturbed
  <2>2. employee = NoCard
    BY <1>1, <2>1 DEF TerminalInv, ViewPart, NumberOfFlag
  <2> QED
    BY <1>3, <1>6, <2>1, <2>2 DEF ShowsClock
<1> QED
  BY <1>4, <1>5, <1>7, <1>8 DEF TerminalInv, ViewPart

LEMMA SetEmployeeKeeps ==
  ASSUME TerminalInv, SetEmployee, UNCHANGED <<vars, variant, host, widget, ghosts>>
  PROVE  TerminalInv'
<1>1. /\ pending # "done" /\ employee' = pending /\ pending' = "done" /\ posts' = Append(posts, "updateUi")
      /\ UNCHANGED <<name, current, variant, calls, asked, standard, host, message, view, with, alone>>
  BY SessionStays DEF SetEmployee, Post, widget
<1>2. posts \in Seq(PostSet) /\ "updateUi" \in PostSet /\ pending \in Employees \cup {NoCard}
  BY <1>1 DEF TerminalInv, TerminalTypeOK, PostSet
<1>3. posts' \in Seq(PostSet) /\ \A S : InQueue(posts', S) <=> InQueue(posts, S) \/ "updateUi" \in S
  BY <1>1, <1>2, QueueAdded
<1>4. TerminalTypeOK' /\ SessionPart'
  BY <1>1, <1>2, <1>3 DEF TerminalInv, TerminalTypeOK, PostSet, SessionPart, NobodyHasNoCard, AboveGuest
<1>5. MessagePart'
  BY <1>1, <1>3
  DEF TerminalInv, MessagePart, OnlyTimeHasMessages, BookerIsLoggedOut, OthersAreLeftAlone, Quiet
<1>6. OnlyProjectsHaveViews' /\ NumberOfFlag' /\ LastCall' /\ ChangeIsShown'
  BY <1>1, <1>2, <1>3, CardBounds
  DEF TerminalInv, ViewPart, OnlyProjectsHaveViews, NumberOfFlag, LastCall, ChangeIsShown, UpdateComing,
      ShowsClock
<1>7. Undisturbed'
  BY <1>1 DEF TerminalInv, ViewPart, Undisturbed, ShowsClock
<1> QED
  BY <1>4, <1>5, <1>6, <1>7 DEF TerminalInv, ViewPart

LEMMA BooksKeeps ==
  ASSUME TerminalInv, Books, UNCHANGED <<vars, variant, host, widget, ghosts>>
  PROVE  TerminalInv'
<1>1. /\ calls # <<>> /\ Head(calls) \in Employees /\ calls' = Tail(calls)
      /\ variant = "time" /\ posts' = Append(posts, "message") /\ asked' \in {asked, asked + 1}
      /\ UNCHANGED <<name, current, variant, standard, employee, pending, host, message, view, with, alone>>
  BY SessionStays DEF Books, Called, Post, shown, widget
<1>2. calls \in Seq(CallSet) /\ posts \in Seq(PostSet) /\ "message" \in PostSet
  BY DEF TerminalInv, TerminalTypeOK, CallSet, PostSet
<1>3. calls' \in Seq(CallSet) /\ \A S : InQueue(calls, S) <=> InQueue(calls', S) \/ Head(calls) \in S
  BY <1>1, <1>2, QueueTaken
<1>4. posts' \in Seq(PostSet) /\ \A S : InQueue(posts', S) <=> InQueue(posts, S) \/ "message" \in S
  BY <1>1, <1>2, QueueAdded
<1>5. TerminalTypeOK' /\ SessionPart'
  BY <1>1, <1>3, <1>4
  DEF TerminalInv, TerminalTypeOK, CallSet, PostSet, SessionPart, NobodyHasNoCard, AboveGuest
<1>6. MessagePart'
  <2>1. InQueue(calls, Employees \cup {"closed"})
    BY <1>1, <1>3
  <2> QED
    BY <1>1, <1>4, <2>1
    DEF TerminalInv, MessagePart, OnlyTimeHasMessages, BookerIsLoggedOut, OthersAreLeftAlone, Quiet
<1>7. ViewPart'
  BY <1>1, <1>4
  DEF TerminalInv, ViewPart, OnlyProjectsHaveViews, NumberOfFlag, LastCall, ChangeIsShown, UpdateComing,
      ShowsClock, Undisturbed
<1> QED
  BY <1>5, <1>6, <1>7 DEF TerminalInv

LEMMA NoEmployeeKeeps ==
  ASSUME TerminalInv, NoEmployee, UNCHANGED <<vars, variant, host, widget, ghosts>>
  PROVE  TerminalInv'
<1>1. /\ calls # <<>> /\ Head(calls) \in Cards \ Employees /\ calls' = Tail(calls)
      /\ UNCHANGED <<name, current, variant, posts, asked, standard, employee, pending, host, message, view,
                     with, alone>>
  BY SessionStays DEF NoEmployee, Called, shown, widget
<1>2. calls \in Seq(CallSet) /\ Head(calls) \notin Employees \cup {"closed", NoCard}
  BY <1>1, CardBounds DEF TerminalInv, TerminalTypeOK, CallSet
<1>3. /\ calls' \in Seq(CallSet)
      /\ IF calls' = <<>> THEN calls[Len(calls)] = Head(calls) ELSE calls'[Len(calls')] = calls[Len(calls)]
      /\ \A S : OnlyLast(calls, S) => OnlyLast(calls', S)
      /\ \A S : InQueue(calls, S) <=> InQueue(calls', S) \/ Head(calls) \in S
  BY <1>1, <1>2, QueueTaken
<1>4. TerminalTypeOK' /\ SessionPart'
  BY <1>1, <1>3 DEF TerminalInv, TerminalTypeOK, CallSet, SessionPart, NobodyHasNoCard, AboveGuest
<1>5. MessagePart'
  <2>1. OnlyTimeHasMessages' /\ OthersAreLeftAlone'
    BY <1>1, <1>2, <1>3 DEF TerminalInv, MessagePart, OnlyTimeHasMessages, OthersAreLeftAlone, Quiet
  <2>2. BookerIsLoggedOut'
    BY <1>1, <1>2, <1>3 DEF TerminalInv, MessagePart, BookerIsLoggedOut
  <2> QED
    BY <2>1, <2>2 DEF MessagePart
<1>6. OnlyProjectsHaveViews' /\ NumberOfFlag' /\ ChangeIsShown'
  BY <1>1 DEF TerminalInv, ViewPart, OnlyProjectsHaveViews, NumberOfFlag, ChangeIsShown, ShowsClock,
              UpdateComing
<1>7. LastCall'
  BY <1>1, <1>2, <1>3 DEF TerminalInv, ViewPart, LastCall
<1>8. Undisturbed'
  <2> SUFFICES ASSUME variant = "projects", alone, calls # <<>>, calls[Len(calls)] = with
               PROVE  /\ OnlyLast(calls', Employees) /\ (calls' # <<>> \/ with \notin Employees)
                      /\ standard /\ ShowsClock
    BY <1>1 DEF TerminalInv, ViewPart, LastCall, Undisturbed, ShowsClock
  <2>1. OnlyLast(calls, Employees) /\ standard /\ ShowsClock
    BY DEF TerminalInv, ViewPart, Undisturbed
  <2> QED
    BY <1>2, <1>3, <2>1
<1> QED
  BY <1>4, <1>5, <1>6, <1>7, <1>8 DEF TerminalInv, ViewPart

LEMMA AnswerKeeps ==
  ASSUME TerminalInv, Answer, UNCHANGED <<vars, variant, host, widget, ghosts>>
  PROVE  TerminalInv'
<1>1. /\ asked > 0 /\ asked' = asked - 1 /\ posts' = Append(posts, "message")
      /\ UNCHANGED <<name, current, variant, calls, standard, employee, pending, host, message, view, with, alone>>
  BY SessionStays DEF Answer, Post, shown, widget
<1>2. posts \in Seq(PostSet) /\ "message" \in PostSet /\ asked \in Nat /\ variant = "time"
  BY <1>1 DEF TerminalInv, TerminalTypeOK, PostSet, MessagePart, OnlyTimeHasMessages
<1>3. posts' \in Seq(PostSet) /\ \A S : InQueue(posts', S) <=> InQueue(posts, S) \/ "message" \in S
  BY <1>1, <1>2, QueueAdded
<1>4. TerminalTypeOK' /\ SessionPart'
  BY <1>1, <1>2, <1>3 DEF TerminalInv, TerminalTypeOK, PostSet, SessionPart, NobodyHasNoCard, AboveGuest
<1>5. MessagePart'
  BY <1>1, <1>2, <1>3
  DEF TerminalInv, MessagePart, OnlyTimeHasMessages, BookerIsLoggedOut, OthersAreLeftAlone, Quiet
<1>6. ViewPart'
  BY <1>1, <1>2, <1>3
  DEF TerminalInv, ViewPart, OnlyProjectsHaveViews, NumberOfFlag, LastCall, ChangeIsShown, UpdateComing,
      ShowsClock, Undisturbed
<1> QED
  BY <1>4, <1>5, <1>6 DEF TerminalInv

LEMMA SetAccessLevelGuestKeeps ==
  ASSUME TerminalInv, SetAccessLevelGuest, UNCHANGED <<vars, variant, host, widget, ghosts>>
  PROVE  TerminalInv'
<1>1. /\ calls # <<>> /\ Head(calls) = "closed" /\ calls' = Tail(calls) /\ posts' = Append(posts, "guest")
      /\ UNCHANGED <<name, current, variant, asked, standard, employee, pending, host, message, view,
                     with, alone>>
  BY SessionStays DEF SetAccessLevelGuest, Called, Post, shown, widget
<1>2. /\ calls \in Seq(CallSet) /\ posts \in Seq(PostSet) /\ "guest" \in PostSet
      /\ "closed" \notin Cards \cup {NoCard} /\ with \in Cards \cup {NoCard}
  BY CardBounds DEF TerminalInv, TerminalTypeOK, CallSet, PostSet
<1>3. /\ calls' \in Seq(CallSet)
      /\ IF calls' = <<>> THEN calls[Len(calls)] = "closed" ELSE calls'[Len(calls')] = calls[Len(calls)]
      /\ \A S : OnlyLast(calls, S) => OnlyLast(calls', S)
      /\ \A S : InQueue(calls, S) <=> InQueue(calls', S) \/ "closed" \in S
  BY <1>1, <1>2, QueueTaken
<1>4. posts' \in Seq(PostSet) /\ \A S : InQueue(posts', S) <=> InQueue(posts, S) \/ "guest" \in S
  BY <1>1, <1>2, QueueAdded
<1>5. TerminalTypeOK' /\ SessionPart'
  BY <1>1, <1>3, <1>4
  DEF TerminalInv, TerminalTypeOK, CallSet, PostSet, SessionPart, NobodyHasNoCard, AboveGuest
<1>6. MessagePart'
  <2>1. InQueue(calls, Employees \cup {"closed"})
    BY <1>3
  <2> QED
    BY <1>1, <1>4, <2>1
    DEF TerminalInv, MessagePart, OnlyTimeHasMessages, BookerIsLoggedOut, OthersAreLeftAlone, Quiet
<1>7. LastCall'
  BY <1>1, <1>2, <1>3 DEF TerminalInv, ViewPart, LastCall
<1>8. OnlyProjectsHaveViews' /\ NumberOfFlag' /\ ChangeIsShown'
  BY <1>1, <1>4
  DEF TerminalInv, ViewPart, OnlyProjectsHaveViews, NumberOfFlag, ChangeIsShown, UpdateComing, ShowsClock
<1>9. Undisturbed'
  <2> SUFFICES ASSUME variant = "projects", alone, calls # <<>>, calls[Len(calls)] = with
               PROVE  OnlyLast(calls', Employees) /\ calls' # <<>> /\ standard /\ ShowsClock
    BY <1>1 DEF TerminalInv, ViewPart, LastCall, Undisturbed, ShowsClock
  <2>1. OnlyLast(calls, Employees) /\ standard /\ ShowsClock
    BY DEF TerminalInv, ViewPart, Undisturbed
  <2> QED
    BY <1>2, <1>3, <2>1
<1> QED
  BY <1>5, <1>6, <1>7, <1>8, <1>9 DEF TerminalInv, ViewPart
-----------------------------------------------------------------------------
LEMMA TerminalStep == IInv /\ TerminalInv /\ [TerminalNext]_terminalVars => TerminalInv'
<1> SUFFICES ASSUME IInv, TerminalInv, [TerminalNext]_terminalVars PROVE TerminalInv'
  OBVIOUS
<1>1. CASE UNCHANGED terminalVars
  BY <1>1, RestKeeps DEF terminalVars, vars, session
<1>2. CASE TellsUser \/ TellsNobody \/ TerminalRestart
  BY <1>2, TellsUserKeeps, TellsNobodyKeeps, RestartsAgain
<1>3. CASE HostStep
  BY <1>3, HandleLogKeeps, GuestLevelKeeps, LookKeeps, HideKeeps, ViewKeeps DEF HostStep
<1>4. CASE PluginStep
  BY <1>4, NobodyThereKeeps, ShowsProjectsKeeps, SetEmployeeKeeps, BooksKeeps, NoEmployeeKeeps, AnswerKeeps,
     SetAccessLevelGuestKeeps DEF PluginStep
<1> QED
  BY <1>1, <1>2, <1>3, <1>4 DEF TerminalNext

LEMMA TerminalInvariance == TerminalSpec => []TerminalInv
<1>1. TerminalSpec => []IInv
  BY SessionImplemented, Invariance, PTL
<1>2. TerminalInit => TerminalInv
  BY TerminalStarts
<1>3. IInv /\ TerminalInv /\ [TerminalNext]_terminalVars => TerminalInv'
  BY TerminalStep
<1> QED
  BY <1>1, <1>2, <1>3, PTL DEF TerminalSpec

\* Type correctness of what the plugin adds, for queues of any length.
THEOREM TerminalTypes == TerminalSpec => []TerminalTypeOK
<1>1. TerminalInv => TerminalTypeOK
  BY DEF TerminalInv
<1> QED
  BY <1>1, TerminalInvariance, PTL

\* An employee who has booked does not stay logged in: while the session lasts,
\* the call that books, its message, the call that this has gone or the post that
\* ends the session is there or on its way between the threads.
THEOREM BookersAreLoggedOut == TerminalSpec => []BookerIsLoggedOut
<1>1. TerminalInv => BookerIsLoggedOut
  BY DEF TerminalInv, MessagePart
<1> QED
  BY <1>1, TerminalInvariance, PTL

\* The plugin ends nobody else's session that began with nothing of an earlier
\* booking on show or in either thread's queue: nothing that would end it comes up.
THEOREM SessionsAreLeftAlone == TerminalSpec => []OthersAreLeftAlone
<1>1. TerminalInv => OthersAreLeftAlone
  BY DEF TerminalInv, MessagePart
<1> QED
  BY <1>1, TerminalInvariance, PTL

\* Once both threads have settled, no projects are shown when nobody is logged in,
\* and none but an employee's own if the employee logged in with no other's on
\* show or on the way, although the host reads the flag and the number unlocked.
THEOREM ViewsAreOfUser == TerminalSpec => []ViewIsOfUser
<1>1. TerminalInv => ViewIsOfUser
  <2> SUFFICES ASSUME TerminalInv, Settled
               PROVE  /\ name = NoUser => view = "clock"
                      /\ (variant = "projects" /\ name # NoUser /\ alone) =>
                           view \in (IF with \in Employees THEN {with, NoCard} ELSE {"clock"})
    BY DEF ViewIsOfUser
  <2>1. calls = <<>> /\ ~UpdateComing /\ host = "free"
    BY DEF Settled, UpdateComing
  <2>2. standard <=> view = "clock"
    BY <2>1 DEF TerminalInv, ViewPart, ChangeIsShown, ShowsClock
  <2>3. name = NoUser => view = "clock"
    BY <2>1, <2>2
    DEF TerminalInv, SessionPart, NobodyHasNoCard, ViewPart, LastCall, OnlyProjectsHaveViews
  <2>4. variant = "projects" /\ alone =>
          IF with \in Employees THEN ~standard /\ view \in {"clock", with, NoCard} ELSE standard
    BY <2>1 DEF TerminalInv, ViewPart, Undisturbed
  <2> QED
    BY <2>2, <2>3, <2>4
<1> QED
  BY <1>1, TerminalInvariance, PTL
=============================================================================

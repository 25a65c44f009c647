------------------------------ MODULE Terminal -------------------------------
(***************************************************************************)
(* The host's session and the time-recording plugin, as they drive each    *)
(* other: MainWindow and ETRSWidget in the host's thread, ETRSPlugin and   *)
(* the system of a device with the connection "UserManagement" in the      *)
(* plugin's.  Each thread has a queue of the calls that the other posts to *)
(* it; the fields of the plugin's view are read by the host without a lock.*)
(*                                                                         *)
(* Whoever logs in or out at the host is told to the plugin.  For the card *)
(* of an employee the plugin books the time and posts a message; when the  *)
(* message is hidden, the host posts a request to the plugin, which posts  *)
(* that the guest's level be set, and that logs out whoever is logged in   *)
(* by then.  Or, in the other variant, the plugin has the employee's       *)
(* projects shown until it is told that nobody is logged in.  The booking  *)
(* itself is in TimeRecording; here it matters that it shows a message at  *)
(* once and another one with the server's answer.  The five seconds of the *)
(* message are any time.                                                   *)
(***************************************************************************)
EXTENDS UserSession, Sequences

CONSTANTS
  Employees,  \* cards the system verifies
  MaxCalls,   \* bound: calls posted to the plugin's thread
  MaxPosts,   \* bound: calls posted to the host's thread
  MaxAsked    \* bound: requests for a status under way

ASSUME TerminalAssumption ==
  /\ Employees \subseteq Cards
  /\ {MaxCalls, MaxPosts, MaxAsked} \subseteq Nat
  /\ {"closed", "clock", "done"} \cap (Cards \cup {NoCard}) = {}

VARIABLES
  variant,   \* what the system is for; without one the plugin does nothing with a login
  calls,     \* posted to the plugin: cards of currentUser, and "closed" messages
  posts,     \* posted to the host: "message", "updateUi", and "guest" for the level
  asked,     \* requests for a status under way
  standard,  \* _showStandardView
  employee,  \* _currentEmployeeID, NoCard if it is empty
  pending,   \* what setShowStandardView has yet to write to it, or "done"
  host,      \* where the host is: "free", at mainWidget ("look"), past its flag ("open")
  message,   \* _messageDurationTimer runs
  view,      \* ETRSWidget: "clock", or the employee of the project view
  with,      \* ghost: the card of who is logged in
  alone      \* ghost: at the login nothing of an earlier one was on show or to come

shown == <<standard, employee, pending>>
widget == <<message, view>>
plugin == <<variant, calls, posts, asked, shown, host, widget>>
ghosts == <<with, alone>>
terminalVars == <<vars, plugin, ghosts>>

Variants == {"none", "time", "projects"}
-----------------------------------------------------------------------------
InQueue(queue, S) == \E i \in DOMAIN queue : queue[i] \in S

\* Nothing will log anybody out but the host's own session.
Quiet ==
  /\ ~message /\ asked = 0
  /\ ~InQueue(posts, {"message", "guest"})
  /\ ~InQueue(calls, Employees \cup {"closed"})

TerminalInit ==
  /\ Init
  /\ variant \in Variants
  /\ calls = <<>> /\ posts = <<>> /\ asked = 0
  /\ standard = TRUE /\ employee = NoCard /\ pending = "done"
  /\ host = "free" /\ message = FALSE /\ view = "clock"
  /\ with = NoCard /\ alone = TRUE

TerminalRestart ==
  /\ Restart
  /\ calls' = <<>> /\ posts' = <<>> /\ asked' = 0
  /\ standard' = TRUE /\ employee' = NoCard /\ pending' = "done"
  /\ host' = "free" /\ message' = FALSE /\ view' = "clock"
  /\ with' = NoCard /\ alone' = TRUE
  /\ UNCHANGED variant
-----------------------------------------------------------------------------
(* The host's thread: the session. *)

Call(call) == Len(calls) < MaxCalls /\ calls' = Append(calls, call)

\* setAccessLevel tells the plugin who is logged in, and ends in updateUi.
Tell(card) ==
  /\ with' = card
  /\ alone' = (Quiet /\ view = "clock" /\ standard)
  /\ IF variant = "none" THEN UNCHANGED <<calls, host>> ELSE Call(card) /\ host' = "look"
  /\ UNCHANGED <<variant, asked, shown, widget>>

CardOf(who) == IF who = Default THEN NoCard ELSE users[who].card

TellsUser ==
  /\ host = "free"
  /\ \/ \E who \in DOMAIN users \cup {Default} : Password(who) /\ Tell(CardOf(who))
     \/ \E card \in Cards : CardLogsIn(card) /\ Tell(card)
     \/ NoPassword /\ Tell(NoCard)
     \/ Timeout /\ Tell(NoCard)
     \/ \E card \in Cards : UnknownCard(card) /\ Tell(NoCard)
  /\ UNCHANGED posts

\* What changes users, rows and timers, and tells the plugin nothing.
TellsNobody ==
  /\ host = "free"
  /\ \/ Administrates \/ HoverMove \/ Counts
     \/ \E card \in Cards : \/ \E id \in Ids : EnrolCard(card, id) \/ UpdateUsers(id, card)
                            \/ RefuseCard(card)
  /\ UNCHANGED <<plugin, ghosts>>
-----------------------------------------------------------------------------
(* The host's thread: what the plugin has posted, the message and the view. *)

\* The next posted call, while the host is in no other.
Posted(post) ==
  /\ host = "free"
  /\ posts # <<>> /\ Head(posts) = post
  /\ posts' = Tail(posts)

\* handleLog, handleLogin and handleLogout start the timer again.
HandleLog ==
  /\ Posted("message")
  /\ message' = TRUE
  /\ UNCHANGED <<vars, variant, calls, asked, shown, host, view, ghosts>>

\* setValue with the access level of a guest.
GuestLevel ==
  /\ Posted("guest")
  /\ \/ SetLevelValue /\ Tell(NoCard)
     \/ current = Guest /\ UNCHANGED <<vars, variant, calls, asked, shown, host, widget, ghosts>>

\* setValue of "updateUi".
UpdateUi ==
  /\ Posted("updateUi")
  /\ host' = "look"
  /\ UNCHANGED <<vars, variant, calls, asked, shown, widget, ghosts>>

\* updateUi for a change of the machine state, which may be at any time.
StateChanged ==
  /\ variant # "none" /\ host = "free"
  /\ host' = "look"
  /\ UNCHANGED <<vars, variant, calls, posts, asked, shown, widget, ghosts>>

\* Of HideTimeEvent: the level is left as it is.
HideOnly ==
  /\ host = "free" /\ message
  /\ message' = FALSE
  /\ UNCHANGED <<vars, variant, calls, posts, asked, shown, host, view, ghosts>>

HideTimeEvent ==
  /\ host = "free" /\ message
  /\ message' = FALSE /\ Call("closed")
  /\ UNCHANGED <<vars, variant, posts, asked, shown, host, view, ghosts>>

\* mainWidget reads the flag.  A project view that is there is kept, whoever it
\* is for; a new one is filled later.
MainWidget ==
  /\ host = "look"
  /\ host' = IF ~standard /\ view = "clock" THEN "open" ELSE "free"
  /\ view' = IF standard THEN "clock" ELSE view
  /\ UNCHANGED <<vars, variant, calls, posts, asked, shown, message, ghosts>>

\* The rest of ETRSWidget::setShowStandardView: a project view for whoever the
\* plugin's field names by now.
OpenView ==
  /\ host = "open"
  /\ view' = employee /\ host' = "free"
  /\ UNCHANGED <<vars, variant, calls, posts, asked, shown, message, ghosts>>

HostStep ==
  \/ HandleLog \/ GuestLevel \/ UpdateUi \/ StateChanged
  \/ HideTimeEvent \/ MainWidget \/ OpenView
-----------------------------------------------------------------------------
(* The plugin's thread. *)

Post(post) == Len(posts) < MaxPosts /\ posts' = Append(posts, post)

\* The next posted call, while setShowStandardView does not run.
Called(S) ==
  /\ pending = "done"
  /\ calls # <<>> /\ Head(calls) \in S
  /\ calls' = Tail(calls)

\* Of NobodyThere: the employee's number is not cleared.
OnlyTheFlag ==
  /\ Called({NoCard})
  /\ standard' = TRUE /\ pending' = employee
  /\ UNCHANGED <<posts, asked, employee>>

\* currentUser without a card: setShowStandardView begins with the flag.
NobodyThere ==
  /\ Called({NoCard})
  /\ standard' = TRUE /\ pending' = NoCard
  /\ UNCHANGED <<posts, asked, employee>>

\* ShowProjectList.
ShowsProjects ==
  /\ variant = "projects"
  /\ \E card \in Employees : Called({card}) /\ pending' = card
  /\ standard' = FALSE
  /\ UNCHANGED <<posts, asked, employee>>

\* The rest of setShowStandardView: the employee, and a post that the view be updated.
SetEmployee ==
  /\ pending # "done"
  /\ employee' = pending /\ pending' = "done"
  /\ Post("updateUi")
  /\ UNCHANGED <<calls, asked, standard>>

\* handleTimeEvent: a booking that is accepted also asks for the status, one
\* that is refused only shows why.
Books ==
  /\ variant = "time"
  /\ Called(Employees)
  /\ Post("message")
  /\ \/ UNCHANGED asked
     \/ asked < MaxAsked /\ asked' = asked + 1
  /\ UNCHANGED shown

\* Of NoEmployee: a message says so.
NoEmployeeShown ==
  /\ Called(Cards \ Employees)
  /\ Post("message")
  /\ UNCHANGED <<asked, shown>>

\* verifySerialnumber is false, and nothing happens.
NoEmployee ==
  /\ Called(Cards \ Employees)
  /\ UNCHANGED <<posts, asked, shown>>

\* The answer to the request for the status, or its failure: another message.
Answer ==
  /\ pending = "done"
  /\ asked > 0 /\ asked' = asked - 1
  /\ Post("message")
  /\ UNCHANGED <<calls, shown>>

SetAccessLevelGuest ==
  /\ Called({"closed"})
  /\ Post("guest")
  /\ UNCHANGED <<asked, shown>>

PluginStep ==
  /\ \/ NobodyThere \/ ShowsProjects \/ SetEmployee \/ Books \/ NoEmployee
     \/ Answer \/ SetAccessLevelGuest
  /\ UNCHANGED <<vars, variant, host, widget, ghosts>>

TerminalNext ==
  TellsUser \/ TellsNobody \/ HostStep \/ PluginStep \/ TerminalRestart

TerminalSpec == TerminalInit /\ [][TerminalNext]_terminalVars
-----------------------------------------------------------------------------
\* Type invariant of what the plugin and its widgets add.
TerminalTypeOK ==
  /\ variant \in Variants
  /\ calls \in Seq(Cards \cup {NoCard, "closed"})
  /\ posts \in Seq({"message", "updateUi", "guest"})
  /\ asked \in Nat
  /\ {standard, message, alone} \subseteq BOOLEAN
  /\ employee \in Employees \cup {NoCard}
  /\ pending \in Employees \cup {NoCard, "done"}
  /\ view \in Employees \cup {NoCard, "clock"}
  /\ host \in {"free", "look", "open"}
  /\ with \in Cards \cup {NoCard}

\* An employee who has booked does not stay logged in, however much the mouse is
\* moved: on the way from the call that books to the logout something is always
\* there, a message on show or a call in one of the two queues.
BookerIsLoggedOut ==
  (variant = "time" /\ name # NoUser /\ with \in Employees) =>
    \/ message
    \/ InQueue(calls, {with, "closed"})
    \/ InQueue(posts, {"message", "guest"})

\* Who logged in without booking, when nothing of an earlier booking was on show
\* or on the way in either queue, is not logged out by a message: none is on show,
\* and none comes.  (Who logs in while one is, is logged out with it.)
OthersAreLeftAlone ==
  (name # NoUser /\ with \notin Employees /\ alone) => Quiet

\* Both threads have done what was to be done about the last login.
Settled ==
  calls = <<>> /\ pending = "done" /\ host = "free" /\ ~InQueue(posts, {"updateUi"})

\* Once both threads have settled, no projects are shown when nobody is logged
\* in, and to an employee none but the employee's own, if the employee logged in
\* with no project view of another on show or on the way.  (Else the other's view
\* stays.  And the host may read the flag before the number is written: then the
\* view is nobody's.)
ViewIsOfUser ==
  Settled =>
    /\ name = NoUser => view = "clock"
    /\ (variant = "projects" /\ name # NoUser /\ alone) =>
         view \in (IF with \in Employees THEN {with, NoCard} ELSE {"clock"})
=============================================================================

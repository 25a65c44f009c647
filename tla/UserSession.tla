----------------------------- MODULE UserSession -----------------------------
(***************************************************************************)
(* The users of the host, the session of the one who is logged in, and the *)
(* enrolment of cards: UserManagement, MainWindow and the widgets of the   *)
(* access control page.                                                    *)
(*                                                                         *)
(* The base level is what anybody may do.  A user logs in with a password  *)
(* or a card, and the logout timer brings the level back to the base level *)
(* once nobody has moved the mouse for a while.  Users are edited by an    *)
(* administrator, or sent by the plugin that gets them from the server.    *)
(*                                                                         *)
(* All of this runs in the event loop.  The dialogs that add a user,       *)
(* import users or wait for a card are modal: each keeps the operator from *)
(* everything else, but not cards, the timer or the plugins, so that the   *)
(* administrator may be logged out under it.                               *)
(***************************************************************************)
EXTENDS Integers

CONSTANTS
  Ids,       \* uuids of users
  Cards,
  NoCard,
  NoUser,    \* the empty user name
  Default,   \* the built-in user
  Levels,    \* access levels that users are given
  Interval   \* ticks until the logout timer expires, 0 if it is not used; read once, at the start

Guest == 0
User == 2
Admin == 9
DefaultLevel == 10

\* The dialogs that are not a row's.
Forms == {"add", "import"}

ASSUME ConstantsAssumption ==
  /\ NoCard \notin Cards
  /\ NoUser # Default /\ {NoUser, Default} \cap (Ids \cup Forms) = {} /\ Ids \cap Forms = {}
  /\ User \in Levels /\ Levels \subseteq User .. Admin
  /\ Interval \in Nat

VARIABLES
  users,    \* _users, also what the settings file holds
  base,     \* _baseAccessLevel
  current,  \* _current_access_level
  name,     \* the user shown, and told to the plugins
  timer,    \* ticks until the logout timer fires, 0 when it is stopped
  widgets,  \* users with a row on the access control page
  asking,   \* rows whose _waitToReceiveCardId is set
  dialog,   \* the row whose dialog is open, or a form, or NoUser
  waiting,  \* _waitToReceiveCardId of the page
  stale,    \* ghost: the users were imported since base was computed
  basis,    \* ghost: how the session relates to the users, see below
  idle      \* ghost: ticks since the last login or movement of the mouse

session == <<current, name, timer, idle>>
page == <<widgets, asking, dialog, waiting>>
vars == <<users, base, session, page, stale, basis>>

\* "exact": nothing has changed since the level was set; "edited": users have
\* changed; "stale": the level was set while base was stale.
Bases == {"exact", "edited", "stale"}

Record == [level : Levels, card : Cards \cup {NoCard}]
Tables == UNION {[S -> Record] : S \in SUBSET Ids}

Put(table, id, record) == [i \in DOMAIN table \cup {id} |-> IF i = id THEN record ELSE table[i]]
Without(table, id) == [i \in DOMAIN table \ {id} |-> table[i]]

Uses(table, card) == {i \in DOMAIN table : table[i].card = card}

Larger(a, b) == IF a < b THEN b ELSE a

\* setBaseAccessLevel: one less than the lowest level of a user, and everything if there are none.
BaseOf(table) ==
  IF DOMAIN table = {} THEN Admin
  ELSE LET lowest == CHOOSE l \in {table[i].level : i \in DOMAIN table} :
                       \A i \in DOMAIN table : l <= table[i].level
       IN  Larger(lowest - 1, 0)

-----------------------------------------------------------------------------
\* Where the program starts: nobody is logged in, but the timer runs.
Init ==
  /\ users \in Tables /\ base = BaseOf(users)
  /\ current = base /\ name = NoUser
  /\ timer = Interval /\ idle = 0
  /\ widgets = DOMAIN users /\ asking = {} /\ dialog = NoUser /\ waiting = FALSE
  /\ stale = FALSE /\ basis = "exact"

\* The settings file keeps the users; nothing else outlives the process.
Restart ==
  /\ UNCHANGED users
  /\ base' = BaseOf(users)
  /\ current' = base' /\ name' = NoUser
  /\ timer' = Interval /\ idle' = 0
  /\ widgets' = DOMAIN users /\ asking' = {} /\ dialog' = NoUser /\ waiting' = FALSE
  /\ stale' = FALSE /\ basis' = "exact"

-----------------------------------------------------------------------------
\* Of TimerAt: only a stopped timer is started, or the timer is also stopped.
StartIfStopped(level) == IF level > base /\ timer = 0 THEN Interval ELSE timer
StartOrStop(level) == IF level > base THEN Interval ELSE 0

\* setAccessLevel: never below the base level.  The timer is started for a level
\* above it, and left alone otherwise.
LevelSet(level) == Larger(level, base)
TimerAt(level) == IF level > base /\ Interval > 0 THEN Interval ELSE timer

SetAccessLevel(level, who) ==
  /\ current' = LevelSet(level) /\ name' = who
  /\ timer' = TimerAt(LevelSet(level)) /\ idle' = 0
  /\ basis' = IF stale THEN "stale" ELSE "exact"
  /\ UNCHANGED <<users, base, page, stale>>

LevelOf(who) == IF who = Default THEN DefaultLevel ELSE users[who].level

LogIn(who) == SetAccessLevel(LevelOf(who), who)
LogOut == SetAccessLevel(Guest, NoUser)

Password(who) ==
  /\ dialog = NoUser
  /\ LogIn(who)

\* A wrong password, or the password dialog was cancelled.
NoPassword ==
  /\ dialog = NoUser
  /\ LogOut

\* A card while no row waits for one.  Two users may have the same card.
CardLogsIn(card) ==
  /\ ~waiting
  /\ \E who \in Uses(users, card) : LogIn(who)

UnknownCard(card) ==
  /\ ~waiting
  /\ Uses(users, card) = {}
  /\ LogOut

\* A plugin asks for the guest's level.
SetLevelValue ==
  /\ current # Guest
  /\ LogOut

HoverMove ==
  /\ timer' = TimerAt(current) /\ idle' = 0
  /\ UNCHANGED <<users, base, current, name, page, stale, basis>>

Counts ==
  /\ timer > 1
  /\ timer' = timer - 1 /\ idle' = idle + 1
  /\ UNCHANGED <<users, base, current, name, page, stale, basis>>

Timeout ==
  /\ timer = 1
  /\ current' = base /\ name' = NoUser
  /\ timer' = 0 /\ idle' = 0
  /\ basis' = IF stale THEN "stale" ELSE "exact"
  /\ UNCHANGED <<users, base, page, stale>>

-----------------------------------------------------------------------------
\* Of Rebase: the base level stays.
RebaseForgotten ==
  /\ stale' = FALSE
  /\ basis' = IF basis = "exact" THEN "edited" ELSE basis
  /\ UNCHANGED <<base, session>>

\* Every change but the import ends in setBaseAccessLevel; none touches the
\* session.
Rebase ==
  /\ base' = BaseOf(users')
  /\ stale' = FALSE
  /\ basis' = IF basis = "exact" THEN "edited" ELSE basis
  /\ UNCHANGED session

\* refreshUserListing replaces all rows, once the form is closed.
Refresh ==
  /\ widgets' = DOMAIN users'
  /\ asking' = {}
  /\ dialog' = NoUser /\ UNCHANGED waiting

ByAdmin == current >= Admin /\ dialog = NoUser

\* setUser and importUsers open a form; what they do on "OK" is done whoever is
\* logged in by then.
OpenForm(form) ==
  /\ ByAdmin
  /\ dialog' = form
  /\ UNCHANGED <<users, base, session, widgets, asking, waiting, stale, basis>>

AddUser(id, level) ==
  /\ dialog = "add" /\ id \notin DOMAIN users
  /\ users' = Put(users, id, [level |-> level, card |-> NoCard])
  /\ Rebase /\ Refresh

EditLevel(id, level) ==
  /\ ByAdmin /\ id \in widgets
  /\ users' = Put(users, id, [users[id] EXCEPT !.level = level])
  /\ Rebase /\ UNCHANGED page

\* Of RemoveRow: forgotten.
KeepRow(id) == UNCHANGED <<widgets, asking>>

RemoveRow(id) == widgets' = widgets \ {id} /\ asking' = asking \ {id}

DeleteUser(id) ==
  /\ ByAdmin /\ id \in widgets
  /\ users' = Without(users, id)
  /\ RemoveRow(id)
  /\ Rebase /\ UNCHANGED <<dialog, waiting>>

\* Of UpdateUsers: the page shows the new users at once.
UpdateAndRefresh(id, card) ==
  /\ users' = Put(users, id, [level |-> User, card |-> card])
  /\ widgets' = DOMAIN users' /\ asking' = {}
  /\ Rebase /\ UNCHANGED <<dialog, waiting>>

\* The plugin has got this employee from the server, perhaps once more.
UpdateUsers(id, card) ==
  /\ users' = Put(users, id, [level |-> User, card |-> card])
  /\ Rebase /\ UNCHANGED page

\* importUsers: for "append" the users that are there come after those of the
\* file, and the last of a uuid counts.
Imported(option, file) ==
  [i \in DOMAIN file \cup (IF option = "append" THEN DOMAIN users ELSE {}) |->
     IF option = "append" /\ i \in DOMAIN users THEN users[i] ELSE file[i]]

Import(option, file) ==
  /\ dialog = "import"
  /\ users' = Imported(option, file)
  /\ stale' = TRUE
  /\ basis' = IF basis = "exact" THEN "edited" ELSE basis
  /\ UNCHANGED <<base, session>>
  /\ Refresh

-----------------------------------------------------------------------------
\* "Add Transponder-ID": the row waits, the page waits, and the dialog is open.
WaitForCard(id) ==
  /\ ByAdmin /\ id \in widgets
  /\ asking' = asking \cup {id}
  /\ dialog' = id /\ waiting' = TRUE
  /\ UNCHANGED <<users, base, session, widgets, stale, basis>>

\* The page stops waiting, the row does not.  Or a form is closed.
Cancel ==
  /\ dialog # NoUser
  /\ waiting' = FALSE /\ dialog' = NoUser
  /\ UNCHANGED <<users, base, session, widgets, asking, stale, basis>>

\* Each row that asks closes the dialogs it was connected to when a card comes:
\* the open one, if it is the row's, and those of before, which are gone.  That
\* call is undefined; it may end the process, which is a Restart that follows.
Closed == IF dialog \in asking THEN NoUser ELSE dialog

\* A card while the page waits.  A free one goes to the first row that asks, in
\* the order of the page; to the rows after it, it is already in use.
EnrolCard(card, id) ==
  /\ waiting /\ Uses(users, card) = {}
  /\ id \in asking
  /\ users' = Put(users, id, [users[id] EXCEPT !.card = card])
  /\ asking' = asking \ {id}
  /\ waiting' = FALSE /\ dialog' = Closed
  /\ Rebase /\ UNCHANGED widgets

RefuseCard(card) ==
  /\ waiting /\ Uses(users, card) # {}
  /\ waiting' = FALSE /\ dialog' = Closed
  /\ UNCHANGED <<users, base, session, widgets, asking, stale, basis>>

-----------------------------------------------------------------------------
Files == UNION {[S -> [level : Levels, card : {NoCard}]] : S \in SUBSET Ids}

Administrates ==
  \/ \E id \in Ids, level \in Levels : AddUser(id, level) \/ EditLevel(id, level)
  \/ \E id \in Ids : DeleteUser(id) \/ WaitForCard(id)
  \/ \E form \in Forms : OpenForm(form)
  \/ Cancel
  \/ \E option \in {"append", "replace"}, file \in Files : Import(option, file)

Operator ==
  \/ \E who \in DOMAIN users \cup {Default} : Password(who)
  \/ NoPassword
  \/ HoverMove
  \/ Administrates

Reader ==
  \E card \in Cards :
    \/ CardLogsIn(card) \/ UnknownCard(card)
    \/ \E id \in Ids : EnrolCard(card, id)
    \/ RefuseCard(card)

Next ==
  \/ Operator
  \/ Reader
  \/ Counts \/ Timeout
  \/ SetLevelValue
  \/ \E id \in Ids, card \in Cards : UpdateUsers(id, card)
  \/ Restart

Spec == Init /\ [][Next]_vars

-----------------------------------------------------------------------------
TypeOK ==
  /\ users \in Tables
  /\ base \in Guest .. Admin /\ current \in Guest .. DefaultLevel
  /\ name \in Ids \cup {NoUser, Default}
  /\ timer \in 0 .. Interval /\ idle \in 0 .. Interval
  /\ widgets \subseteq DOMAIN users /\ asking \subseteq widgets
  /\ dialog \in widgets \cup Forms \cup {NoUser}
  /\ waiting \in BOOLEAN /\ stale \in BOOLEAN /\ basis \in Bases

\* Who is not logged in has less than the level of every user, if there are any,
\* and who is has that of the user, as long as the users are those of the login
\* and were not imported before it.
LevelIsOfUser ==
  basis = "exact" =>
    IF name = NoUser THEN \A i \in DOMAIN users : current < users[i].level
    ELSE current = LevelOf(name)

\* The logout timer fires when nobody has moved the mouse for the whole
\* interval, and not for what an earlier session left of it.
LogoutWhenIdle ==
  (Interval > 0 /\ name # NoUser /\ basis = "exact") => timer = Interval - idle

\* Whoever logged in while the base level was right is logged out some time,
\* whatever has become of the users since.
SessionIsTimed ==
  (Interval > 0 /\ name # NoUser /\ basis # "stale") => timer > 0

\* The page takes the next card exactly while the dialog of a row is open that
\* still asks for it.  Else a card would log its owner in under the dialog, or be
\* taken and answered by nobody, and the dialog would stay.
DialogIsServed ==
  /\ waiting <=> dialog \in Ids
  /\ dialog \in Ids => dialog \in asking
=============================================================================

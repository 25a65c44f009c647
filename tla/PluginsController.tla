-------------------------- MODULE PluginsController --------------------------
(***************************************************************************)
(* The host of the plugins.  Four times a second it looks at the messages  *)
(* and the state of each plugin, shows the worst, stores alarms, and quits *)
(* when all have terminated.  The state that the operator or a plugin asks *)
(* for is passed on to every plugin through its event queue.               *)
(*                                                                         *)
(* The main window is a plugin like the others.  A plugin lives in the     *)
(* host's thread or in one of its own; one of its own also runs between    *)
(* the steps of an update.  The host's event loop delivers what is posted  *)
(* before it looks at its timers.                                          *)
(*                                                                         *)
(* Plugins are external.  A plugin that was asked to terminate reports it  *)
(* when it is done, and reports other states until and unless it is.       *)
(***************************************************************************)
EXTENDS AlarmDatabase, Sequences

CONSTANTS
  Loaded,       \* _loaded_plugins
  Main,         \* the main window, one of them
  Threaded,     \* plugins with a thread of their own
  Reported,     \* states that plugins report while they run
  Wishes,       \* states that are asked for
  Reporting,    \* plugins that have messages
  Severities,   \* types of their messages
  MaxRequests   \* bound: number of requests

\* MachineState
Terminate == 0
Initializing == 1
EmergencyStop == 2
Error == 3
Off == 5
Setup == 7
Production == 8
MachineStates == 0 .. 8

Reset == -1  \* a posted call of reset, among those of requestMachineState

ASSUME ConstantsAssumption ==
  /\ Loaded \in Seq(Sources) /\ \A p \in Sources : \E i \in DOMAIN Loaded : Loaded[i] = p
  /\ Main \in Sources /\ Threaded \subseteq Sources \ {Main}
  /\ Reporting \subseteq Sources /\ Severities \subseteq Types
  /\ Reported \subseteq MachineStates \ {Terminate}
  /\ Wishes \subseteq {Terminate, Off, Setup, Production}
  /\ MaxRequests \in Nat

\* DiagState
Alarm == 0
WarningHigh == 1
WarningLow == 2
OK == 3

VARIABLES
  requested,  \* _requested_machine_state
  machine,    \* _current_machine_state, what is shown
  diag,       \* _current_diag_state, what is shown
  messages,   \* _messages
  inbox,      \* per plugin: posted calls of requestMachineState and of reset
  calls,      \* posted calls of setRequestedMachineState
  leaving,    \* per plugin: it was last asked to terminate
  state,      \* per plugin: machineState()
  reports,    \* per plugin: messages()
  phase,      \* where updatePluginStates is, or "idle" between two updates
  todo,       \* plugins the update has still to look at
  found,      \* its machine_state
  all,        \* its allTerminated
  steady,     \* ghost: no plugin has changed its state while it looked for the worst
  behind,     \* ghost: a plugin had calls to handle when the update began
  asked       \* ghost: number of requests

shown == <<machine, diag, messages>>
plugins == <<leaving, state, reports>>
update == <<phase, todo, found, all, steady, behind>>
vars == <<requested, shown, inbox, calls, plugins, update, asked, alarms>>

Local == Sources \ Threaded
Posted == \E p \in Local : inbox[p] # <<>>

\* The host's thread delivers events: between updates, and once more in
\* processEvents before the program quits.
Delivers == phase \in {"idle", "quit"}
Runs(p) == phase # "ended" /\ (p \in Threaded \/ Delivers)

Init ==
  /\ requested = Off /\ machine = Initializing /\ diag = OK /\ messages = {}
  /\ inbox = [p \in Sources |-> <<>>] /\ calls = <<>>
  /\ leaving = [p \in Sources |-> FALSE]
  /\ state = [p \in Sources |-> IF p = Main THEN Production ELSE Initializing]
  /\ reports = [p \in Sources |-> {}]
  /\ phase = "idle" /\ todo = <<>> /\ found = Production /\ all = TRUE
  /\ steady = TRUE /\ behind = FALSE
  /\ asked = 0
  /\ AlarmsInit

-----------------------------------------------------------------------------
Post(call) == inbox' = [p \in Sources |-> Append(inbox[p], call)]

\* setRequestedMachineState
SetRequested(s) ==
  /\ requested' = s
  /\ Post(s)
  /\ UNCHANGED <<shown, plugins, update, alarms>>

\* The dialog and the menu.  Only "Off" can be chosen during initialization.
Choose(s) ==
  /\ Delivers /\ asked < MaxRequests
  /\ s \in {Terminate, Off} \/ (s \in {Setup, Production} /\ machine # Initializing)
  /\ SetRequested(s)
  /\ asked' = asked + 1
  /\ UNCHANGED calls

\* A plugin says changeMachineState; the host gets it through its event queue.
ChangeMachineState(p, s) ==
  /\ Runs(p) /\ asked < MaxRequests
  /\ calls' = Append(calls, s)
  /\ asked' = asked + 1
  /\ UNCHANGED <<requested, shown, inbox, plugins, update, alarms>>

DeliverCall ==
  /\ Delivers /\ calls # <<>>
  /\ SetRequested(Head(calls))
  /\ calls' = Tail(calls)
  /\ UNCHANGED asked

\* resetPlugins
ResetPlugins ==
  /\ Delivers /\ asked < MaxRequests
  /\ Post(Reset)
  /\ asked' = asked + 1
  /\ UNCHANGED <<requested, shown, calls, plugins, update, alarms>>

-----------------------------------------------------------------------------
\* The main window takes on the state it is asked for at once.
Handle(p) ==
  /\ Runs(p) /\ inbox[p] # <<>>
  /\ inbox' = [inbox EXCEPT ![p] = Tail(@)]
  /\ LET call == Head(inbox[p]) IN
       IF call = Reset
       THEN /\ reports' = IF p = Main THEN reports ELSE [reports EXCEPT ![p] = {}]
            /\ UNCHANGED <<leaving, state>>
       ELSE /\ leaving' = [leaving EXCEPT ![p] = (call = Terminate)]
            /\ state' = IF p = Main THEN [state EXCEPT ![p] = call] ELSE state
            /\ UNCHANGED reports
  /\ UNCHANGED <<requested, shown, calls, update, asked, alarms>>

\* A plugin is done with terminating, or goes from one state to another.
Moves(p, s) ==
  /\ p # Main /\ Runs(p) /\ s # state[p]
  /\ IF leaving[p] THEN s = Terminate ELSE s \in Reported
  /\ state' = [state EXCEPT ![p] = s]
  /\ steady' = (steady /\ phase \notin {"compare", "assign"})
  /\ UNCHANGED <<requested, shown, inbox, calls, leaving, reports, asked, alarms>>
  /\ UNCHANGED <<phase, todo, found, all, behind>>

\* A message comes, changes or goes.
Reports(p, code, types) ==
  /\ p \in Reporting /\ Runs(p)
  /\ reports' = [reports EXCEPT ![p] =
       {m \in @ : m.code # code} \cup {[plugin |-> p, code |-> code, type |-> t] : t \in types}]
  /\ UNCHANGED <<requested, shown, inbox, calls, leaving, state, update, asked, alarms>>

-----------------------------------------------------------------------------
DiagOf(m) ==
  CASE m.type = "fatal" -> Alarm
    [] m.type = "critical" -> WarningHigh
    [] m.type = "warning" -> WarningLow
    [] OTHER -> OK

Least(S) == CHOOSE s \in S : \A t \in S : s <= t

\* updatePluginStates, first part.  The new diagnosis is shown with the state.
Collect ==
  /\ phase = "idle" /\ ~Posted /\ calls = <<>>
  /\ LET items == UNION {reports[p] : p \in Sources} IN
       IF Differ(messages, items)
       THEN /\ UpdateMessages(items)
            /\ messages' = items
            /\ diag' = Least({OK} \cup {DiagOf(m) : m \in items})
       ELSE UNCHANGED <<messages, diag, alarms>>
  /\ phase' = "compare" /\ todo' = Loaded /\ found' = Production
  /\ steady' = TRUE /\ behind' = (\E p \in Threaded : inbox[p] # <<>>)
  /\ UNCHANGED <<requested, machine, inbox, calls, plugins, all, asked>>

\* Second part: the worst state.  A plugin's state is read to compare it, and
\* once more to keep it.
Compare ==
  /\ phase = "compare" /\ todo # <<>>
  /\ IF state[Head(todo)] < found
     THEN phase' = "assign" /\ UNCHANGED todo
     ELSE todo' = Tail(todo) /\ UNCHANGED phase
  /\ UNCHANGED <<requested, shown, inbox, calls, plugins, found, all, steady, behind, asked, alarms>>

Assign ==
  /\ phase = "assign"
  /\ found' = state[Head(todo)]
  /\ phase' = "compare" /\ todo' = Tail(todo)
  /\ UNCHANGED <<requested, shown, inbox, calls, plugins, all, steady, behind, asked, alarms>>

\* Of Masked: errors are hidden whatever was asked for.
MaskedAlways(s) == IF s \in {EmergencyStop, Error} THEN Off ELSE s

\* For state off, errors are not shown.
Masked(s) == IF requested = Off /\ s \in {EmergencyStop, Error} THEN Off ELSE s

Show ==
  /\ phase = "compare" /\ todo = <<>>
  /\ machine' = Masked(found)
  /\ phase' = "check" /\ todo' = Loaded /\ all' = TRUE
  /\ found' = Production /\ steady' = TRUE
  /\ UNCHANGED <<requested, diag, messages, inbox, calls, plugins, behind, asked, alarms>>

\* Of StillAll: the main window is not looked at, or only the shown state is.
StillAllButMain(p) == all /\ (p = Main \/ state[p] = Terminate)
StillShown(p) == machine = Terminate

\* Third part: whether all have terminated.
StillAll(p) == all /\ state[p] = Terminate

Check ==
  /\ phase = "check" /\ todo # <<>>
  /\ all' = StillAll(Head(todo))
  /\ todo' = Tail(todo)
  /\ UNCHANGED <<requested, shown, inbox, calls, plugins, phase, found, steady, behind, asked, alarms>>

\* Of Decision: the program goes on.
GoOn == "idle"

Decision == IF all THEN "quit" ELSE "idle"

Finish ==
  /\ phase = "check" /\ todo = <<>>
  /\ phase' = Decision
  /\ all' = TRUE /\ behind' = FALSE
  /\ UNCHANGED <<requested, shown, inbox, calls, plugins, todo, found, steady, asked, alarms>>

\* aboutToQuit and the destructors: each plugin is uninitialized, one with a
\* thread of its own behind the calls it has still to handle.
Ends ==
  /\ phase = "quit"
  /\ \A p \in Threaded : inbox[p] = <<>>
  /\ phase' = "ended"
  /\ EndAll
  /\ UNCHANGED <<requested, shown, inbox, calls, plugins, todo, found, all, steady, behind, asked>>

-----------------------------------------------------------------------------
Host ==
  \/ DeliverCall
  \/ Collect \/ Compare \/ Assign \/ Show \/ Check \/ Finish
  \/ Ends

Requests ==
  \/ \E s \in Wishes : Choose(s) \/ \E p \in Sources \ {Main} : ChangeMachineState(p, s)
  \/ ResetPlugins

Plugin(p) ==
  \/ Handle(p)
  \/ \E s \in MachineStates : Moves(p, s)
  \/ \E code \in Codes, types \in {{}} \cup {{t} : t \in Severities} : Reports(p, code, types)

Next == Host \/ Requests \/ \E p \in Sources : Plugin(p)

Spec == Init /\ [][Next]_vars

\* The event loop runs, and so does each thread.  A plugin that was asked to
\* terminate gets there; one in the host's thread can only do so between two
\* updates, where the event loop spends most of its time.
Fairness ==
  /\ WF_vars(Host)
  /\ \A p \in Sources : WF_vars(Handle(p)) /\ SF_vars(Moves(p, Terminate))

FairSpec == Spec /\ Fairness

-----------------------------------------------------------------------------
TypeOK ==
  /\ {requested, machine, found} \subseteq MachineStates /\ diag \in Alarm .. OK
  /\ messages \subseteq Message /\ known \subseteq Message
  /\ inbox \in [Sources -> Seq(MachineStates \cup {Reset})] /\ calls \in Seq(MachineStates)
  /\ leaving \in [Sources -> BOOLEAN] /\ state \in [Sources -> MachineStates]
  /\ reports \in [Sources -> SUBSET Message]
  /\ phase \in {"idle", "compare", "assign", "check", "quit", "ended"}
  /\ todo \in Seq(Sources)
  /\ {all, steady, behind} \subseteq BOOLEAN /\ asked \in 0 .. MaxRequests

\* The diagnosis of an update is the worst of the messages there are then,
\* though it is only computed when the list is found to have changed.
DiagIsWorst ==
  [][phase = "idle" /\ phase' = "compare" =>
       diag' = Least({OK} \cup {DiagOf(m) : m \in UNION {reports[p] : p \in Sources}})]_vars

\* An alarm that is shown is stored as come and not as gone, any other as gone
\* as often as it has come, and none is left open at the end.
AlarmsStored ==
  \A m \in Message :
    open[m] = IF phase # "ended" /\ m \in messages /\ Stored(m) THEN 1 ELSE 0

\* The program quits only if that is what was asked for last, though it only
\* looks at what the plugins report.
QuitIsWanted ==
  [][phase # "quit" /\ phase' = "quit" => requested = Terminate]_vars

\* It quits when all plugins have terminated: those of the host's thread, and
\* the others too if they had handled their calls when the update began.
QuitAllTerminated ==
  [][phase # "quit" /\ phase' = "quit" =>
       \A p \in Sources : state[p] = Terminate \/ (p \in Threaded /\ behind)]_vars

\* What an update shows is the worst of the states, but for an error that is
\* hidden because the machine is to be off.
ShownIsWorst ==
  [][(phase = "compare" /\ phase' = "check" /\ steady) =>
       LET worst == Least({state[p] : p \in Sources} \cup {Production}) IN
         machine' = worst \/ (requested = Off /\ worst \in {EmergencyStop, Error} /\ machine' = Off)]_vars

\* If termination was asked for last, the program ends.
EventuallyEnds == <>[](requested = Terminate /\ calls = <<>>) => <>(phase = "ended")
=============================================================================

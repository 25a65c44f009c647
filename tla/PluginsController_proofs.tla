----------------------- MODULE PluginsController_proofs -----------------------
(***************************************************************************)
(* Theorems about PluginsController, for every set of plugins, threads,    *)
(* states and messages and any number of requests: when the program quits, *)
(* and which alarms are stored.                                            *)
(***************************************************************************)
EXTENDS PluginsController, NaturalsInduction, WellFoundedInduction, TLAPS

LEMMA Bounds ==
  /\ Loaded \in Seq(Sources) /\ \A p \in Sources : \E i \in DOMAIN Loaded : Loaded[i] = p
  /\ Main \in Sources /\ Main \notin Threaded /\ Threaded \subseteq Sources
  /\ Severities \subseteq Types
  /\ Reported \subseteq 1 .. 8 /\ Wishes \subseteq 0 .. 8 /\ MaxRequests \in Nat
  BY ConstantsAssumption DEF MachineStates, Terminate, Off, Setup, Production

LEMMA SequenceTail ==
  ASSUME NEW S, NEW s \in Seq(S), s # <<>>
  PROVE  Tail(s) \in Seq(S) /\ Head(s) \in S /\ Head(s) = s[1] /\ 1 \in DOMAIN s
  OBVIOUS

LEMMA EmptySequence == ASSUME NEW S PROVE <<>> \in Seq(S)
  OBVIOUS

LEMMA SequenceAppend ==
  ASSUME NEW S, NEW s \in Seq(S), NEW e \in S
  PROVE  Append(s, e) \in Seq(S)
  OBVIOUS

-----------------------------------------------------------------------------
\* The types, in parts: requests and what the plugins do with them, the update,
\* and the messages.
RequestTypes ==
  /\ requested \in 0 .. 8
  /\ inbox \in [Sources -> Seq(-1 .. 8)] /\ calls \in Seq(0 .. 8)
  /\ asked \in 0 .. MaxRequests

PluginTypes ==
  /\ leaving \in [Sources -> BOOLEAN] /\ state \in [Sources -> 0 .. 8]
  /\ reports \in [Sources -> SUBSET Message]

UpdateTypes ==
  /\ machine \in 0 .. 8 /\ found \in 0 .. 8
  /\ phase \in {"idle", "compare", "assign", "check", "quit", "ended"}
  /\ todo \in Seq(Sources) /\ (phase = "assign" => todo # <<>>)
  /\ all \in BOOLEAN /\ steady \in BOOLEAN /\ behind \in BOOLEAN

MessageTypes ==
  /\ diag \in 0 .. 3
  /\ messages \subseteq Message /\ known \subseteq Message

Types4 == RequestTypes /\ PluginTypes /\ UpdateTypes /\ MessageTypes

LEMMA ResetRange == MachineStates \cup {Reset} = -1 .. 8 /\ MachineStates = 0 .. 8
  BY DEF MachineStates, Reset

LEMMA TypesInParts == Types4 => TypeOK
  BY ResetRange DEF TypeOK, Types4, RequestTypes, PluginTypes, UpdateTypes, MessageTypes, Alarm, OK

-----------------------------------------------------------------------------
\* Requests: whether it is the operator's or a plugin's, a request is kept and
\* posted to every plugin.
LEMMA PostTypes ==
  ASSUME RequestTypes, NEW call \in -1 .. 8, Post(call)
  PROVE  inbox' \in [Sources -> Seq(-1 .. 8)]
<1>1. \A p \in Sources : Append(inbox[p], call) \in Seq(-1 .. 8)
  BY SequenceAppend DEF RequestTypes
<1> QED BY <1>1 DEF Post

LEMMA RequestsKeepTypes ==
  ASSUME Types4, Requests \/ DeliverCall
  PROVE  Types4'
<1>1. asked \in 0 .. MaxRequests /\ MaxRequests \in Nat /\ RequestTypes
  BY Bounds DEF Types4, RequestTypes
<1>2. CASE \E s \in Wishes : Choose(s)
  <2>1. PICK s \in Wishes : Choose(s)
    BY <1>2
  <2>2. s \in 0 .. 8
    BY Bounds
  <2>3. inbox' \in [Sources -> Seq(-1 .. 8)]
    BY <1>1, <2>1, <2>2, PostTypes DEF Choose, SetRequested
  <2>4. RequestTypes'
    BY <1>1, <2>1, <2>2, <2>3 DEF Choose, SetRequested, RequestTypes
  <2> QED BY <2>1, <2>4 DEF Types4, Choose, SetRequested, PluginTypes, UpdateTypes, MessageTypes,
                            shown, plugins, update, alarms
<1>3. CASE \E s \in Wishes : \E p \in Sources \ {Main} : ChangeMachineState(p, s)
  <2>1. PICK s \in Wishes : \E p \in Sources \ {Main} : ChangeMachineState(p, s)
    BY <1>3
  <2>2. s \in 0 .. 8
    BY Bounds
  <2>3. calls' \in Seq(0 .. 8)
    BY <1>1, <2>1, <2>2, SequenceAppend DEF ChangeMachineState, RequestTypes
  <2>4. RequestTypes'
    BY <1>1, <2>1, <2>3 DEF ChangeMachineState, RequestTypes
  <2> QED BY <2>1, <2>4 DEF Types4, ChangeMachineState, PluginTypes, UpdateTypes, MessageTypes,
                            shown, plugins, update, alarms
<1>4. CASE ResetPlugins
  <2>1. inbox' \in [Sources -> Seq(-1 .. 8)]
    BY <1>1, <1>4, PostTypes DEF ResetPlugins, Reset
  <2>2. RequestTypes'
    BY <1>1, <1>4, <2>1 DEF ResetPlugins, RequestTypes
  <2> QED BY <1>4, <2>2 DEF Types4, ResetPlugins, PluginTypes, UpdateTypes, MessageTypes,
                            shown, plugins, update, alarms
<1>5. CASE DeliverCall
  <2>1. calls \in Seq(0 .. 8) /\ calls # <<>>
    BY <1>1, <1>5 DEF DeliverCall, RequestTypes
  <2>2. Head(calls) \in 0 .. 8 /\ Tail(calls) \in Seq(0 .. 8)
    BY <2>1, SequenceTail
  <2>3. inbox' \in [Sources -> Seq(-1 .. 8)]
    BY <1>1, <1>5, <2>2, PostTypes DEF DeliverCall, SetRequested
  <2>4. RequestTypes'
    BY <1>1, <1>5, <2>2, <2>3 DEF DeliverCall, SetRequested, RequestTypes
  <2> QED BY <1>5, <2>4 DEF Types4, DeliverCall, SetRequested, PluginTypes, UpdateTypes, MessageTypes,
                            shown, plugins, update, alarms
<1> QED BY <1>2, <1>3, <1>4, <1>5 DEF Requests

LEMMA PluginsKeepTypes ==
  ASSUME Types4, NEW p \in Sources, Plugin(p)
  PROVE  Types4'
<1>1. RequestTypes /\ PluginTypes /\ UpdateTypes /\ MessageTypes
  BY DEF Types4
<1>2. CASE Handle(p)
  <2>1. inbox[p] \in Seq(-1 .. 8) /\ inbox[p] # <<>>
    BY <1>1, <1>2 DEF Handle, RequestTypes
  <2>2. Head(inbox[p]) \in -1 .. 8 /\ Tail(inbox[p]) \in Seq(-1 .. 8)
    BY <2>1, SequenceTail
  <2>3. RequestTypes'
    BY <1>1, <1>2, <2>2 DEF Handle, RequestTypes
  <2>4. PluginTypes'
    <3> DEFINE call == Head(inbox[p])
    <3>1. CASE call = Reset
      BY <1>1, <1>2, <3>1 DEF Handle, PluginTypes
    <3>2. CASE call # Reset
      <4>1. call \in 0 .. 8
        BY <2>2, <3>2 DEF Reset
      <4> HIDE DEF call
      <4>2. /\ leaving' = [leaving EXCEPT ![p] = (call = Terminate)]
            /\ state' = IF p = Main THEN [state EXCEPT ![p] = call] ELSE state
            /\ UNCHANGED reports
        BY <1>2, <3>2 DEF Handle, call
      <4>3. state' \in [Sources -> 0 .. 8]
        BY <1>1, <4>1, <4>2 DEF PluginTypes
      <4>4. leaving' \in [Sources -> BOOLEAN]
        BY <1>1, <4>2 DEF PluginTypes
      <4> QED BY <1>1, <4>2, <4>3, <4>4 DEF PluginTypes
    <3> QED BY <3>1, <3>2
  <2> QED BY <1>1, <1>2, <2>3, <2>4 DEF Types4, Handle, UpdateTypes, MessageTypes, shown, update, alarms
<1>3. CASE \E s \in MachineStates : Moves(p, s)
  <2>1. PICK s \in 0 .. 8 : Moves(p, s)
    BY <1>3 DEF MachineStates
  <2>2. PluginTypes'
    BY <1>1, <2>1 DEF Moves, PluginTypes
  <2>3. UpdateTypes'
    BY <1>1, <2>1 DEF Moves, UpdateTypes, shown
  <2> QED BY <1>1, <2>1, <2>2, <2>3 DEF Types4, Moves, RequestTypes, MessageTypes, shown, alarms
<1>4. CASE \E code \in Codes, types \in {{}} \cup {{t} : t \in Severities} : Reports(p, code, types)
  <2>1. PICK code \in Codes, types \in {{}} \cup {{t} : t \in Severities} : Reports(p, code, types)
    BY <1>4
  <2>2. types \subseteq Types
    BY Bounds
  <2>3. {[plugin |-> p, code |-> code, type |-> t] : t \in types} \subseteq Message
    BY <2>2 DEF Message
  <2>4. PluginTypes'
    BY <1>1, <2>1, <2>3 DEF Reports, PluginTypes
  <2> QED BY <1>1, <2>1, <2>4 DEF Types4, Reports, RequestTypes, UpdateTypes, MessageTypes,
                                  shown, update, alarms
<1> QED BY <1>2, <1>3, <1>4 DEF Plugin

-----------------------------------------------------------------------------
\* The update.
LEMMA LeastNatural ==
  ASSUME NEW T \in SUBSET Nat, T # {}
  PROVE  Least(T) \in T /\ \A y \in T : Least(T) <= y
<1>1. PICK x \in T : \A y \in T : ~ (<<y, x>> \in OpToRel(<, Nat))
  BY NatLessThanWellFounded, WFMin
<1>2. \A y \in T : ~ (y < x)
  BY <1>1 DEF OpToRel
<1>3. \A y \in T : x <= y
  BY <1>2
<1> QED BY <1>3 DEF Least

LEMMA LeastIs ==
  ASSUME NEW T \in SUBSET Nat, NEW x \in T, \A y \in T : x <= y
  PROVE  Least(T) = x
<1>1. Least(T) \in T /\ \A y \in T : Least(T) <= y
  BY LeastNatural
<1>2. Least(T) <= x /\ x <= Least(T) /\ Least(T) \in Nat /\ x \in Nat
  BY <1>1
<1> QED BY <1>2

\* The diagnosis that belongs to a list of messages.
DiagFor(items) == Least({OK} \cup {DiagOf(m) : m \in items})

LEMMA DiagRange ==
  ASSUME NEW items
  PROVE  DiagFor(items) \in 0 .. 3
<1> DEFINE D == {OK} \cup {DiagOf(m) : m \in items}
<1>1. D \subseteq 0 .. 3 /\ D # {}
  BY DEF DiagOf, OK, WarningLow, WarningHigh, Alarm
<1> HIDE DEF D
<1>2. Least(D) \in D
  BY <1>1, LeastNatural
<1> QED BY <1>1, <1>2 DEF DiagFor, D

LEMMA ItemsAreMessages ==
  ASSUME PluginTypes
  PROVE  UNION {reports[p] : p \in Sources} \subseteq Message
  BY DEF PluginTypes

LEMMA HostKeepsTypes ==
  ASSUME Types4, Host
  PROVE  Types4'
<1>1. RequestTypes /\ PluginTypes /\ UpdateTypes /\ MessageTypes
  BY DEF Types4
<1>2. CASE DeliverCall
  BY <1>2, RequestsKeepTypes
<1>3. CASE Collect
  <2> DEFINE items == UNION {reports[p] : p \in Sources}
  <2>1. items \subseteq Message /\ DiagFor(items) \in 0 .. 3
    BY <1>1, ItemsAreMessages, DiagRange
  <2>2. MessageTypes'
    <3>1. CASE Differ(messages, items)
      <4>1. known' = items /\ messages' = items /\ diag' = DiagFor(items)
        BY <1>3, <3>1 DEF Collect, UpdateMessages, DiagFor
      <4> QED BY <2>1, <4>1 DEF MessageTypes
    <3>2. CASE ~Differ(messages, items)
      BY <1>1, <1>3, <3>2 DEF Collect, MessageTypes, alarms
    <3> QED BY <3>1, <3>2
  <2>3. UpdateTypes'
    BY <1>1, <1>3, Bounds DEF Collect, UpdateTypes, Production
  <2> QED BY <1>1, <1>3, <2>2, <2>3 DEF Types4, Collect, RequestTypes, PluginTypes, plugins
<1>4. CASE Compare
  <2>1. todo # <<>> => Tail(todo) \in Seq(Sources)
    BY <1>1, SequenceTail DEF UpdateTypes
  <2>2. UpdateTypes'
    BY <1>1, <1>4, <2>1 DEF Compare, UpdateTypes, shown
  <2> QED BY <1>1, <1>4, <2>2 DEF Types4, Compare, RequestTypes, PluginTypes, MessageTypes,
                                  shown, plugins, alarms
<1>5. CASE Assign
  <2>1. Tail(todo) \in Seq(Sources) /\ Head(todo) \in Sources
    BY <1>1, <1>5, SequenceTail DEF UpdateTypes, Assign
  <2>2. state[Head(todo)] \in 0 .. 8
    BY <1>1, <2>1 DEF PluginTypes
  <2>3. UpdateTypes'
    BY <1>1, <1>5, <2>1, <2>2 DEF Assign, UpdateTypes, shown
  <2> QED BY <1>1, <1>5, <2>3 DEF Types4, Assign, RequestTypes, PluginTypes, MessageTypes,
                                  shown, plugins, alarms
<1>6. CASE Show
  <2>1. Masked(found) \in 0 .. 8
    BY <1>1 DEF Masked, UpdateTypes, Off
  <2>2. UpdateTypes'
    BY <1>1, <1>6, <2>1, Bounds DEF Show, UpdateTypes, Production
  <2> QED BY <1>1, <1>6, <2>2 DEF Types4, Show, RequestTypes, PluginTypes, MessageTypes, plugins, alarms
<1>7. CASE Check
  <2>1. Tail(todo) \in Seq(Sources) /\ Head(todo) \in Sources
    BY <1>1, <1>7, SequenceTail DEF UpdateTypes, Check
  <2>2. StillAll(Head(todo)) \in BOOLEAN
    BY <1>1 DEF StillAll, UpdateTypes
  <2>3. UpdateTypes'
    BY <1>1, <1>7, <2>1, <2>2 DEF Check, UpdateTypes, shown
  <2> QED BY <1>1, <1>7, <2>3 DEF Types4, Check, RequestTypes, PluginTypes, MessageTypes,
                                  shown, plugins, alarms
<1>8. CASE Finish
  <2>1. UpdateTypes'
    BY <1>1, <1>8 DEF Finish, Decision, UpdateTypes, shown
  <2> QED BY <1>1, <1>8, <2>1 DEF Types4, Finish, RequestTypes, PluginTypes, MessageTypes,
                                  shown, plugins, alarms
<1>9. CASE Ends
  <2>1. MessageTypes'
    BY <1>1, <1>9 DEF Ends, EndAll, UpdateMessages, MessageTypes, shown
  <2> QED BY <1>1, <1>9, <2>1 DEF Types4, Ends, RequestTypes, PluginTypes, UpdateTypes, shown, plugins
<1> QED BY <1>2, <1>3, <1>4, <1>5, <1>6, <1>7, <1>8, <1>9 DEF Host

LEMMA StartTypes == Init => Types4
<1> SUFFICES ASSUME Init PROVE Types4
  OBVIOUS
<1>1. RequestTypes
  BY EmptySequence, Bounds DEF Init, RequestTypes, Off
<1>2. PluginTypes
  BY DEF Init, PluginTypes, Production, Initializing
<1>3. UpdateTypes
  <2>1. todo \in Seq(Sources)
    BY EmptySequence DEF Init
  <2>2. machine \in 0 .. 8 /\ found \in 0 .. 8
    BY DEF Init, Production, Initializing
  <2>3. phase = "idle" /\ all \in BOOLEAN /\ steady \in BOOLEAN /\ behind \in BOOLEAN
    BY DEF Init
  <2> QED BY <2>1, <2>2, <2>3 DEF UpdateTypes
<1>4. MessageTypes
  BY DEF Init, AlarmsInit, MessageTypes, OK
<1> QED BY <1>1, <1>2, <1>3, <1>4 DEF Types4

LEMMA TypesStep == Types4 /\ [Next]_vars => Types4'
<1> SUFFICES ASSUME Types4, [Next]_vars PROVE Types4'
  OBVIOUS
<1>1. CASE UNCHANGED vars
  BY <1>1 DEF vars, shown, plugins, update, alarms, Types4, RequestTypes, PluginTypes, UpdateTypes,
              MessageTypes
<1> QED BY <1>1, HostKeepsTypes, RequestsKeepTypes, PluginsKeepTypes DEF Next

LEMMA TypesHold == Spec => []Types4
  BY StartTypes, TypesStep, PTL DEF Spec

\* Type correctness, for every set of plugins, threads and messages.
THEOREM TypeCorrect == Spec => []TypeOK
  BY TypesHold, TypesInParts, PTL

-----------------------------------------------------------------------------
(***************************************************************************)
(* Quitting.  What was asked for last is what each plugin will have been   *)
(* asked for last when it has handled its calls (Settled), and nothing is  *)
(* posted while an update goes on, so that the plugins of the host's       *)
(* thread have handled theirs (Quiet).  A plugin that was found terminated *)
(* stays so until the update ends, unless it is already asked to go on     *)
(* (Counted).                                                              *)
(***************************************************************************)
Settled(p) ==
  \/ /\ \A j \in DOMAIN inbox[p] : inbox[p][j] = Reset
     /\ leaving[p] = (requested = Terminate)
  \/ \E i \in DOMAIN inbox[p] :
       /\ inbox[p][i] = requested
       /\ \A j \in DOMAIN inbox[p] : j > i => inbox[p][j] = Reset

MainFollows == (state[Main] = Terminate) <=> leaving[Main]

Updating == phase \in {"compare", "assign", "check"}

Quiet ==
  Updating => /\ \A p \in Local : inbox[p] = <<>>
              /\ ~behind => \A p \in Threaded : inbox[p] = <<>>

Counted ==
  (phase = "check" /\ all) =>
    \A p \in Sources :
      \/ \E i \in DOMAIN todo : todo[i] = p
      \/ state[p] = Terminate
      \/ p \in Threaded /\ (behind \/ ~leaving[p])

QuitInv == Types4 /\ (\A p \in Sources : Settled(p)) /\ MainFollows /\ Quiet /\ Counted

LEMMA CallSettles ==
  ASSUME NEW S, NEW q \in Seq(S), NEW s \in S, NEW r \in Seq(S), r = Append(q, s)
  PROVE  \E i \in DOMAIN r : r[i] = s /\ \A j \in DOMAIN r : j > i => r[j] = Reset
<1>1. /\ Len(r) = Len(q) + 1 /\ DOMAIN r = 1 .. Len(r) /\ Len(q) \in Nat
      /\ r[Len(q) + 1] = s
  OBVIOUS
<1>2. Len(r) \in DOMAIN r /\ \A j \in DOMAIN r : ~ (j > Len(r))
  BY <1>1
<1> QED BY <1>1, <1>2

LEMMA RequestSettles ==
  ASSUME RequestTypes, NEW s \in 0 .. 8, SetRequested(s), NEW p \in Sources
  PROVE  Settled(p)'
<1>1. inbox'[p] = Append(inbox[p], s) /\ requested' = s /\ inbox[p] \in Seq(-1 .. 8)
  BY DEF SetRequested, Post, RequestTypes
<1>2. inbox'[p] \in Seq(-1 .. 8)
  BY <1>1, SequenceAppend
<1> QED BY <1>1, <1>2, CallSettles DEF Settled

LEMMA ResetSettles ==
  ASSUME RequestTypes, Post(Reset), UNCHANGED <<requested, leaving>>, NEW p \in Sources, Settled(p)
  PROVE  Settled(p)'
<1> DEFINE q == inbox[p]
           r == Append(q, Reset)
<1>1. inbox'[p] = r /\ q \in Seq(-1 .. 8)
  BY DEF Post, RequestTypes
<1>2. /\ DOMAIN q = 1 .. Len(q) /\ DOMAIN r = 1 .. Len(q) + 1 /\ Len(q) \in Nat
      /\ \A j \in 1 .. Len(q) : r[j] = q[j]
      /\ r[Len(q) + 1] = Reset
  BY <1>1
<1>3. CASE /\ \A j \in DOMAIN q : q[j] = Reset
           /\ leaving[p] = (requested = Terminate)
  <2>1. \A j \in DOMAIN r : r[j] = Reset
    <3> HIDE DEF q, r
    <3> QED BY <1>2, <1>3
  <2> QED BY <1>1, <1>3, <2>1 DEF Settled
<1>4. CASE \E i \in DOMAIN q : q[i] = requested /\ \A j \in DOMAIN q : j > i => q[j] = Reset
  <2>1. \E i \in DOMAIN r : r[i] = requested /\ \A j \in DOMAIN r : j > i => r[j] = Reset
    <3> HIDE DEF q, r
    <3>1. PICK i \in 1 .. Len(q) : q[i] = requested /\ \A j \in 1 .. Len(q) : j > i => q[j] = Reset
      BY <1>2, <1>4
    <3>2. r[i] = requested /\ \A j \in 1 .. Len(q) + 1 : j > i => r[j] = Reset
      BY <1>2, <3>1
    <3> QED BY <1>2, <3>1, <3>2
  <2> QED BY <1>1, <2>1 DEF Settled
<1> QED BY <1>3, <1>4 DEF Settled

LEMMA HandleSettles ==
  ASSUME RequestTypes, PluginTypes, NEW p \in Sources, Handle(p), NEW o \in Sources, Settled(o)
  PROVE  Settled(o)'
<1>1. /\ inbox[p] \in Seq(-1 .. 8) /\ inbox[p] # <<>>
      /\ inbox' = [inbox EXCEPT ![p] = Tail(inbox[p])] /\ requested' = requested
      /\ leaving' = IF Head(inbox[p]) = Reset THEN leaving
                    ELSE [leaving EXCEPT ![p] = (Head(inbox[p]) = Terminate)]
  BY DEF Handle, RequestTypes
<1>2. CASE o # p
  <2>1. inbox'[o] = inbox[o] /\ leaving'[o] = leaving[o]
    BY <1>1, <1>2 DEF RequestTypes, PluginTypes
  <2> QED BY <1>1, <2>1 DEF Settled
<1>3. CASE o = p
  <2> DEFINE q == inbox[p]
             r == Tail(q)
  <2>1. /\ inbox'[p] = r /\ q \in Seq(-1 .. 8) /\ q # <<>>
        /\ leaving'[p] = IF q[1] = Reset THEN leaving[p] ELSE (q[1] = Terminate)
    BY <1>1 DEF RequestTypes, PluginTypes
  <2>2. /\ DOMAIN q = 1 .. Len(q) /\ DOMAIN r = 1 .. Len(q) - 1 /\ Len(q) \in Nat \ {0}
        /\ \A j \in 1 .. Len(q) - 1 : r[j] = q[j + 1]
    BY <2>1
  <2>3. CASE /\ \A j \in DOMAIN q : q[j] = Reset
             /\ leaving[p] = (requested = Terminate)
    <3>1. (\A j \in DOMAIN r : r[j] = Reset) /\ q[1] = Reset
      <4> HIDE DEF q, r
      <4> QED BY <2>2, <2>3
    <3> QED BY <1>1, <1>3, <2>1, <2>3, <3>1 DEF Settled
  <2>4. CASE \E i \in DOMAIN q : q[i] = requested /\ \A j \in DOMAIN q : j > i => q[j] = Reset
    <3>1. PICK i \in 1 .. Len(q) : q[i] = requested /\ \A j \in 1 .. Len(q) : j > i => q[j] = Reset
      <4> HIDE DEF q
      <4> QED BY <2>2, <2>4
    <3>2. CASE i = 1
      <4>1. \A j \in DOMAIN r : r[j] = Reset
        <5> HIDE DEF q, r
        <5> QED BY <2>2, <3>1, <3>2
      <4>2. q[1] # Reset
        BY <3>1, <3>2 DEF RequestTypes, Reset
      <4> QED BY <1>1, <1>3, <2>1, <3>1, <3>2, <4>1, <4>2 DEF Settled
    <3>3. CASE i # 1
      <4>1. \E k \in DOMAIN r : r[k] = requested /\ \A j \in DOMAIN r : j > k => r[j] = Reset
        <5> HIDE DEF q, r
        <5>1. i - 1 \in 1 .. Len(q) - 1 /\ r[i - 1] = q[i]
          BY <2>2, <3>3
        <5>2. \A j \in 1 .. Len(q) - 1 : j > i - 1 => r[j] = Reset
          BY <2>2, <3>1
        <5> QED BY <2>2, <3>1, <5>1, <5>2
      <4> QED BY <1>1, <1>3, <2>1, <4>1 DEF Settled
    <3> QED BY <3>2, <3>3
  <2> QED BY <1>3, <2>3, <2>4 DEF Settled
<1> QED BY <1>2, <1>3

LEMMA SettledStep ==
  ASSUME QuitInv, [Next]_vars
  PROVE  \A o \in Sources : Settled(o)'
<1> SUFFICES ASSUME NEW o \in Sources PROVE Settled(o)'
  OBVIOUS
<1>1. RequestTypes /\ PluginTypes /\ Settled(o)
  BY DEF QuitInv, Types4
<1>2. CASE UNCHANGED <<requested, inbox, leaving>>
  BY <1>1, <1>2 DEF Settled
<1>3. ASSUME NEW s \in Wishes, Choose(s) PROVE Settled(o)'
  <2>1. s \in 0 .. 8
    BY Bounds
  <2> QED BY <1>1, <1>3, <2>1, RequestSettles DEF Choose
<1>4. CASE DeliverCall
  <2>1. Head(calls) \in 0 .. 8
    BY <1>1, <1>4, SequenceTail DEF DeliverCall, RequestTypes
  <2> QED BY <1>1, <1>4, <2>1, RequestSettles DEF DeliverCall
<1>5. CASE ResetPlugins
  BY <1>1, <1>5, ResetSettles DEF ResetPlugins, plugins
<1>6. ASSUME NEW p \in Sources, Handle(p) PROVE Settled(o)'
  BY <1>1, <1>6, HandleSettles
<1>7. CASE \E s \in Wishes, p \in Sources \ {Main} : ChangeMachineState(p, s)
  BY <1>2, <1>7 DEF ChangeMachineState, plugins
<1>8. CASE Collect \/ Compare \/ Assign \/ Show \/ Check \/ Finish \/ Ends
  BY <1>2, <1>8 DEF Collect, Compare, Assign, Show, Check, Finish, Ends, plugins
<1>9. ASSUME NEW p \in Sources,
             \/ \E s \in MachineStates : Moves(p, s)
             \/ \E code \in Codes, types \in {{}} \cup {{t} : t \in Severities} : Reports(p, code, types)
      PROVE  Settled(o)'
  BY <1>2, <1>9 DEF Moves, Reports
<1>10. CASE UNCHANGED vars
  BY <1>2, <1>10 DEF vars, plugins
<1> QED BY <1>3, <1>4, <1>5, <1>6, <1>7, <1>8, <1>9, <1>10 DEF Next, Host, Requests, Plugin

LEMMA MainStep ==
  ASSUME QuitInv, [Next]_vars
  PROVE  MainFollows'
<1>1. PluginTypes /\ MainFollows /\ Main \in Sources
  BY Bounds DEF QuitInv, Types4
<1>2. CASE UNCHANGED <<state, leaving>>
  BY <1>1, <1>2 DEF MainFollows
<1>3. ASSUME NEW p \in Sources, Handle(p) PROVE MainFollows'
  <2>1. CASE Head(inbox[p]) = Reset
    BY <1>2, <1>3, <2>1 DEF Handle
  <2>2. CASE Head(inbox[p]) # Reset /\ p = Main
    <3>1. state'[Main] = Head(inbox[Main]) /\ leaving'[Main] = (Head(inbox[Main]) = Terminate)
      BY <1>1, <1>3, <2>2 DEF Handle, PluginTypes
    <3> QED BY <3>1 DEF MainFollows
  <2>3. CASE Head(inbox[p]) # Reset /\ p # Main
    <3>1. state'[Main] = state[Main] /\ leaving'[Main] = leaving[Main]
      BY <1>1, <1>3, <2>3 DEF Handle, PluginTypes
    <3> QED BY <1>1, <3>1 DEF MainFollows
  <2> QED BY <2>1, <2>2, <2>3
<1>4. ASSUME NEW p \in Sources, NEW s \in MachineStates, Moves(p, s) PROVE MainFollows'
  <2>1. state'[Main] = state[Main] /\ leaving'[Main] = leaving[Main]
    BY <1>1, <1>4 DEF Moves, PluginTypes
  <2> QED BY <1>1, <2>1 DEF MainFollows
<1>5. CASE Requests
  BY <1>2, <1>5 DEF Requests, Choose, SetRequested, ChangeMachineState, ResetPlugins, plugins
<1>6. CASE Host
  BY <1>2, <1>6 DEF Host, DeliverCall, SetRequested, Collect, Compare, Assign, Show, Check, Finish, Ends,
                    plugins
<1>7. ASSUME NEW p \in Sources,
             \E code \in Codes, types \in {{}} \cup {{t} : t \in Severities} : Reports(p, code, types)
      PROVE  MainFollows'
  BY <1>2, <1>7 DEF Reports
<1>8. CASE UNCHANGED vars
  BY <1>2, <1>8 DEF vars, plugins
<1> QED BY <1>3, <1>4, <1>5, <1>6, <1>7, <1>8 DEF Next, Plugin

LEMMA QuietStep ==
  ASSUME QuitInv, [Next]_vars
  PROVE  Quiet'
<1>1. RequestTypes /\ UpdateTypes /\ Quiet
  BY DEF QuitInv, Types4
<1>2. CASE UNCHANGED <<inbox, phase, behind>>
  BY <1>1, <1>2 DEF Quiet, Updating
<1>3. CASE phase' = phase /\ Delivers
  BY <1>3 DEF Quiet, Updating, Delivers
<1>4. CASE Requests \/ DeliverCall
  BY <1>2, <1>3, <1>4
  DEF Requests, Choose, SetRequested, ChangeMachineState, ResetPlugins, DeliverCall, update
<1>5. ASSUME NEW p \in Sources, Handle(p) PROVE Quiet'
  <2>1. CASE ~Updating
    BY <1>5, <2>1 DEF Handle, update, Quiet, Updating
  <2>2. CASE Updating
    <3>1. p \in Threaded /\ behind
      BY <1>1, <1>5, <2>2 DEF Handle, Runs, Delivers, Updating, Quiet
    <3>2. \A o \in Local : inbox'[o] = inbox[o]
      BY <1>1, <1>5, <3>1 DEF Handle, Local, RequestTypes
    <3> QED BY <1>1, <1>5, <2>2, <3>1, <3>2 DEF Quiet, Handle, update, Local
  <2> QED BY <2>1, <2>2
<1>6. CASE Collect
  BY <1>6 DEF Collect, Quiet, Posted
<1>7. CASE Compare \/ Assign \/ Show \/ Check
  BY <1>1, <1>7 DEF Compare, Assign, Show, Check, Quiet, Updating
<1>8. CASE Finish \/ Ends
  BY <1>8 DEF Finish, Decision, Ends, Quiet, Updating
<1>9. ASSUME NEW p \in Sources,
             \/ \E s \in MachineStates : Moves(p, s)
             \/ \E code \in Codes, types \in {{}} \cup {{t} : t \in Severities} : Reports(p, code, types)
      PROVE  Quiet'
  BY <1>2, <1>9 DEF Moves, Reports, update
<1>10. CASE UNCHANGED vars
  BY <1>2, <1>10 DEF vars, update
<1> QED BY <1>4, <1>5, <1>6, <1>7, <1>8, <1>9, <1>10 DEF Next, Host, Plugin

LEMMA CountedStep ==
  ASSUME QuitInv, [Next]_vars
  PROVE  Counted'
<1>1. RequestTypes /\ PluginTypes /\ UpdateTypes /\ Quiet /\ Counted
  BY DEF QuitInv, Types4
<1>2. CASE UNCHANGED <<phase, all, todo, state, behind, leaving>>
  BY <1>1, <1>2 DEF Counted
<1>3. CASE Requests \/ DeliverCall
  BY <1>2, <1>3 DEF Requests, Choose, SetRequested, ChangeMachineState, ResetPlugins, DeliverCall,
                    update, plugins
<1>4. ASSUME NEW p \in Sources, Handle(p) PROVE Counted'
  <2> SUFFICES ASSUME phase = "check", all, NEW o \in Sources
               PROVE  \/ \E i \in DOMAIN todo : todo[i] = o
                      \/ state'[o] = Terminate
                      \/ o \in Threaded /\ (behind \/ ~leaving'[o])
    BY <1>4 DEF Counted, Handle, update
  <2>1. p \in Threaded /\ behind
    BY <1>1, <1>4 DEF Handle, Runs, Delivers, Updating, Quiet, Local
  <2>2. CASE o = p
    BY <2>1, <2>2
  <2>3. CASE o # p
    <3>1. state'[o] = state[o] /\ leaving'[o] = leaving[o]
      BY <1>1, <1>4, <2>3 DEF Handle, PluginTypes
    <3> QED BY <1>1, <3>1 DEF Counted
  <2> QED BY <2>2, <2>3
<1>5. ASSUME NEW p \in Sources, NEW s \in MachineStates, Moves(p, s) PROVE Counted'
  <2> SUFFICES ASSUME phase = "check", all, NEW o \in Sources
               PROVE  \/ \E i \in DOMAIN todo : todo[i] = o
                      \/ state'[o] = Terminate
                      \/ o \in Threaded /\ (behind \/ ~leaving[o])
    BY <1>5 DEF Counted, Moves
  <2>1. p \in Threaded
    BY <1>5 DEF Moves, Runs, Delivers
  <2>2. CASE o = p /\ state[o] = Terminate
    BY <1>5, <2>1, <2>2 DEF Moves
  <2>3. CASE o # p \/ state[o] # Terminate
    <3>1. o # p => state'[o] = state[o]
      BY <1>1, <1>5 DEF Moves, PluginTypes
    <3> QED BY <1>1, <2>3, <3>1 DEF Counted
  <2> QED BY <2>2, <2>3
<1>6. CASE Show
  BY <1>6, Bounds DEF Show, Counted
<1>7. CASE Check
  <2> SUFFICES ASSUME all', NEW o \in Sources
               PROVE  \/ \E i \in DOMAIN todo' : todo'[i] = o
                      \/ state[o] = Terminate
                      \/ o \in Threaded /\ (behind \/ ~leaving[o])
    BY <1>7 DEF Counted, Check, plugins
  <2>1. all /\ state[Head(todo)] = Terminate /\ todo' = Tail(todo) /\ todo # <<>> /\ phase = "check"
    BY <1>7 DEF Check, StillAll
  <2>2. \/ \E i \in DOMAIN todo : todo[i] = o
        \/ state[o] = Terminate
        \/ o \in Threaded /\ (behind \/ ~leaving[o])
    BY <1>1, <2>1 DEF Counted
  <2>3. ASSUME NEW i \in DOMAIN todo, todo[i] = o
        PROVE  (\E k \in DOMAIN todo' : todo'[k] = o) \/ state[o] = Terminate
    <3>1. todo \in Seq(Sources)
      BY <1>1 DEF UpdateTypes
    <3>2. CASE i = 1
      BY <2>1, <2>3, <3>1, <3>2, SequenceTail
    <3>3. CASE i # 1
      <4>1. i - 1 \in DOMAIN Tail(todo) /\ Tail(todo)[i - 1] = todo[i]
        BY <2>1, <3>1, <3>3
      <4> QED BY <2>1, <2>3, <4>1
    <3> QED BY <3>2, <3>3
  <2> QED BY <2>2, <2>3
<1>8. CASE Collect \/ Compare \/ Assign \/ Finish \/ Ends
  BY <1>8 DEF Collect, Compare, Assign, Finish, Decision, Ends, Counted
<1>9. ASSUME NEW p \in Sources,
             \E code \in Codes, types \in {{}} \cup {{t} : t \in Severities} : Reports(p, code, types)
      PROVE  Counted'
  BY <1>2, <1>9 DEF Reports, update
<1>10. CASE UNCHANGED vars
  BY <1>2, <1>10 DEF vars, update, plugins
<1> QED BY <1>3, <1>4, <1>5, <1>6, <1>7, <1>8, <1>9, <1>10 DEF Next, Host, Plugin

LEMMA QuitStart == Init => QuitInv
<1> SUFFICES ASSUME Init PROVE QuitInv
  OBVIOUS
<1>1. ASSUME NEW p \in Sources PROVE Settled(p)
  <2>1. inbox[p] = <<>> /\ leaving[p] = FALSE /\ requested # Terminate
    BY DEF Init, Off, Terminate
  <2>2. \A j \in DOMAIN inbox[p] : inbox[p][j] = Reset
    BY <2>1
  <2>3. leaving[p] = (requested = Terminate)
    BY <2>1
  <2> QED BY <2>2, <2>3 DEF Settled
<1>2. MainFollows
  BY Bounds DEF Init, MainFollows, Production, Terminate
<1>3. Quiet /\ Counted
  BY DEF Init, Quiet, Updating, Counted
<1> QED BY <1>1, <1>2, <1>3, StartTypes DEF QuitInv

LEMMA QuitStep == QuitInv /\ [Next]_vars => QuitInv'
  BY TypesStep, SettledStep, MainStep, QuietStep, CountedStep DEF QuitInv

LEMMA QuitHolds == Spec => []QuitInv
  BY QuitStart, QuitStep, PTL DEF Spec

\* A plugin that has handled its calls knows what was asked for last.
LEMMA Handled ==
  ASSUME NEW p \in Sources, inbox[p] = <<>>, Settled(p)
  PROVE  leaving[p] = (requested = Terminate)
  BY DEF Settled

\* Nobody is left behind: a plugin that has no call to handle was last asked for what is
\* wanted, to terminate or to go on, and the main window is in that state, however many
\* requests of the operator and of the plugins have overtaken each other in the queues.
OfOneMind ==
  \A p \in Sources : inbox[p] = <<>> =>
    /\ leaving[p] <=> requested = Terminate
    /\ p = Main => (state[p] = Terminate <=> requested = Terminate)

\* For every number of plugins and requests, in whichever thread a plugin lives, and
\* whatever the plugins report and the operator revokes.
THEOREM NobodyIsLeftBehind == Spec => []OfOneMind
<1>1. QuitInv => OfOneMind
  <2> SUFFICES ASSUME QuitInv, NEW p \in Sources, inbox[p] = <<>>
               PROVE  /\ leaving[p] <=> requested = Terminate
                      /\ p = Main => (state[p] = Terminate <=> requested = Terminate)
    BY DEF OfOneMind
  <2>1. leaving[p] <=> requested = Terminate
    BY Handled DEF QuitInv
  <2>2. (state[Main] = Terminate) <=> leaving[Main]
    BY DEF QuitInv, MainFollows
  <2> QED BY <2>1, <2>2
<1> QED BY <1>1, QuitHolds, PTL

\* What an update that finds all plugins terminated has found.
LEMMA QuitFinds ==
  ASSUME QuitInv, [Next]_vars, phase # "quit", phase' = "quit"
  PROVE  /\ requested = Terminate
         /\ \A p \in Sources : state[p] = Terminate \/ (p \in Threaded /\ behind)
<1>1. Finish /\ all
  BY DEF QuitInv, Types4, Next, Host, Requests, Plugin, Choose, SetRequested, ChangeMachineState,
         ResetPlugins, DeliverCall, Collect, Compare, Assign, Show, Check, Finish, Decision, Ends,
         Handle, Moves, Reports, update, vars
<1>2. phase = "check" /\ todo = <<>>
  BY <1>1 DEF Finish
<1>3. \A p \in Sources : state[p] = Terminate \/ (p \in Threaded /\ (behind \/ ~leaving[p]))
  BY <1>1, <1>2 DEF QuitInv, Counted
<1>4. Main \in Local /\ Main \in Sources
  BY Bounds DEF Local
<1>5. state[Main] = Terminate /\ leaving[Main] /\ inbox[Main] = <<>>
  BY <1>2, <1>3, <1>4 DEF QuitInv, MainFollows, Quiet, Updating, Local
<1>6. requested = Terminate
  BY <1>4, <1>5, Handled DEF QuitInv
<1>7. ASSUME NEW p \in Threaded, ~behind, p \in Sources PROVE leaving[p]
  <2>1. inbox[p] = <<>>
    BY <1>2, <1>7 DEF QuitInv, Quiet, Updating
  <2> QED BY <1>6, <1>7, <2>1, Handled DEF QuitInv
<1> QED BY <1>3, <1>6, <1>7

\* The program quits only if that is what was asked for last: no request to go on
\* is under way in the queue of a plugin, or handled unnoticed during an update.
THEOREM QuitsAreWanted == Spec => QuitIsWanted
<1>1. QuitInv /\ [Next]_vars => (phase # "quit" /\ phase' = "quit" => requested = Terminate)
  BY QuitFinds
<1> QED BY <1>1, QuitHolds, PTL DEF Spec, QuitIsWanted

\* It quits when all plugins have terminated; one with a thread of its own may go on
\* only if it had calls to handle when the update began.
THEOREM QuitsWhenAllHaveTerminated == Spec => QuitAllTerminated
<1> DEFINE A == phase # "quit" /\ phase' = "quit" =>
                  \A p \in Sources : state[p] = Terminate \/ (p \in Threaded /\ behind)
<1>1. QuitInv /\ [Next]_vars => A
  BY QuitFinds
<1> QED BY <1>1, QuitHolds, PTL DEF Spec, QuitAllTerminated

-----------------------------------------------------------------------------
(***************************************************************************)
(* Alarms.  The list that is shown is the one whose alarms are stored, and *)
(* it is the one the diagnosis was computed from.                          *)
(***************************************************************************)
AlarmInv ==
  /\ Types4
  /\ diag = DiagFor(messages)
  /\ known = IF phase = "ended" THEN {} ELSE messages
  /\ open = [m \in Message |-> IF m \in known /\ Stored(m) THEN 1 ELSE 0]

LEMMA SameIsEqual ==
  ASSUME NEW a \in Message, NEW b \in Message
  PROVE  Same(a, b) <=> a = b
  BY DEF Same, SameCode, Message

LEMMA ContainsIsIn ==
  ASSUME NEW items \in SUBSET Message, NEW m \in Message
  PROVE  Contains(items, m) <=> m \in items
  BY SameIsEqual DEF Contains

LEMMA DifferIsUnequal ==
  ASSUME NEW a \in SUBSET Message, NEW b \in SUBSET Message
  PROVE  Differ(a, b) <=> a # b
  BY ContainsIsIn DEF Differ

\* Each alarm is written once when it comes and once when it goes.
LEMMA StoresChanges ==
  ASSUME NEW items \in SUBSET Message, known \subseteq Message, UpdateMessages(items),
         open = [m \in Message |-> IF m \in known /\ Stored(m) THEN 1 ELSE 0]
  PROVE  open' = [m \in Message |-> IF m \in items /\ Stored(m) THEN 1 ELSE 0]
<1>1. ASSUME NEW m \in Message
      PROVE  open[m] + (IF m \in New(items) THEN 1 ELSE 0) - (IF m \in Removed(items) THEN 1 ELSE 0)
               = IF m \in items /\ Stored(m) THEN 1 ELSE 0
  <2>1. (m \in New(items) <=> m \in items /\ Stored(m) /\ m \notin known)
        /\ (m \in Removed(items) <=> m \in known /\ Stored(m) /\ m \notin items)
    BY ContainsIsIn DEF New, Removed
  <2> QED BY <2>1
<1> QED BY <1>1 DEF UpdateMessages

LEMMA AlarmStep == AlarmInv /\ [Next]_vars => AlarmInv'
<1> SUFFICES ASSUME AlarmInv, [Next]_vars PROVE AlarmInv'
  OBVIOUS
<1>1. Types4' /\ PluginTypes /\ MessageTypes
  BY TypesStep DEF AlarmInv, Types4
<1>2. CASE UNCHANGED <<diag, messages, known, open>> /\ (phase' = "ended" <=> phase = "ended")
  BY <1>1, <1>2 DEF AlarmInv
<1>3. CASE Collect
  <2> DEFINE items == UNION {reports[p] : p \in Sources}
  <2>1. items \in SUBSET Message /\ messages \in SUBSET Message /\ known \subseteq Message
    BY <1>1, ItemsAreMessages DEF MessageTypes
  <2>2. phase = "idle" /\ phase' = "compare"
    BY <1>3 DEF Collect
  <2>3. CASE Differ(messages, items)
    <3>1. UpdateMessages(items) /\ messages' = items /\ diag' = DiagFor(items)
      BY <1>3, <2>3 DEF Collect, DiagFor
    <3>2. known' = items
      BY <3>1 DEF UpdateMessages
    <3>3. open' = [m \in Message |-> IF m \in items /\ Stored(m) THEN 1 ELSE 0]
      BY <2>1, <3>1, StoresChanges DEF AlarmInv
    <3> QED BY <1>1, <2>2, <3>1, <3>2, <3>3 DEF AlarmInv
  <2>4. CASE ~Differ(messages, items)
    BY <1>2, <1>3, <2>2, <2>4 DEF Collect, alarms
  <2> QED BY <2>3, <2>4
<1>4. CASE Ends
  <2>1. UpdateMessages({}) /\ UNCHANGED <<diag, messages>> /\ phase' = "ended"
    BY <1>4 DEF Ends, EndAll, shown
  <2>2. known' = {}
    BY <2>1 DEF UpdateMessages
  <2>3. open' = [m \in Message |-> IF m \in {} /\ Stored(m) THEN 1 ELSE 0]
    BY <1>1, <2>1, StoresChanges DEF AlarmInv, MessageTypes
  <2> QED BY <1>1, <2>1, <2>2, <2>3 DEF AlarmInv
<1>5. CASE Requests \/ DeliverCall
  BY <1>2, <1>5 DEF Requests, Choose, SetRequested, ChangeMachineState, ResetPlugins, DeliverCall,
                    update, shown, alarms
<1>6. CASE Compare \/ Assign \/ Show \/ Check \/ Finish
  BY <1>2, <1>6 DEF Compare, Assign, Show, Check, Finish, Decision, shown, alarms
<1>7. ASSUME NEW p \in Sources, Plugin(p) PROVE AlarmInv'
  BY <1>2, <1>7 DEF Plugin, Handle, Moves, Reports, update, shown, alarms
<1>8. CASE UNCHANGED vars
  BY <1>2, <1>8 DEF vars, update, shown, alarms
<1> QED BY <1>3, <1>4, <1>5, <1>6, <1>7, <1>8 DEF Next, Host

LEMMA AlarmStart == Init => AlarmInv
<1> SUFFICES ASSUME Init PROVE AlarmInv
  OBVIOUS
<1>1. diag = OK /\ messages = {} /\ known = {} /\ open = [m \in Message |-> 0]
  BY DEF Init, AlarmsInit
<1>2. DiagFor({}) = OK
  <2>1. {OK} \cup {DiagOf(m) : m \in {}} = {OK}
    OBVIOUS
  <2>2. Least({OK}) \in {OK}
    BY LeastNatural DEF OK
  <2> QED BY <2>1, <2>2 DEF DiagFor
<1> QED BY <1>1, <1>2, StartTypes DEF AlarmInv, Init

LEMMA AlarmHolds == Spec => []AlarmInv
  BY AlarmStart, AlarmStep, PTL DEF Spec

\* Each alarm that is shown is stored as come and not as gone, every other one as
\* gone as often as it has come, and none stays open when the program ends.
THEOREM AlarmsAreStored == Spec => []AlarmsStored
<1>1. AlarmInv => AlarmsStored
  BY DEF AlarmInv, AlarmsStored
<1> QED BY <1>1, AlarmHolds, PTL

\* The diagnosis that is shown after an update is the worst of the messages there
\* are, though it is computed only when the list was found to differ.
THEOREM DiagnosisIsWorst == Spec => DiagIsWorst
<1> DEFINE A == phase = "idle" /\ phase' = "compare" =>
       diag' = Least({OK} \cup {DiagOf(m) : m \in UNION {reports[p] : p \in Sources}})
<1>1. AlarmInv /\ [Next]_vars => A
  <2> SUFFICES ASSUME AlarmInv, [Next]_vars, phase = "idle", phase' = "compare"
               PROVE  diag' = DiagFor(UNION {reports[p] : p \in Sources})
    BY DEF DiagFor
  <2>1. Collect
    BY DEF Next, Host, Requests, Plugin, Choose, SetRequested, ChangeMachineState, ResetPlugins,
           DeliverCall, Compare, Assign, Show, Check, Finish, Ends, Handle, Moves, Reports, update, vars
  <2> DEFINE items == UNION {reports[p] : p \in Sources}
  <2>2. CASE Differ(messages, items)
    BY <2>1, <2>2 DEF Collect, DiagFor
  <2>3. CASE ~Differ(messages, items)
    <3>1. items \in SUBSET Message /\ messages \in SUBSET Message
      BY ItemsAreMessages DEF AlarmInv, Types4, MessageTypes
    <3>2. messages = items
      BY <2>3, <3>1, DifferIsUnequal
    <3> QED BY <2>1, <2>3, <3>2 DEF Collect, AlarmInv
  <2> QED BY <2>2, <2>3
<1> QED BY <1>1, AlarmHolds, PTL DEF Spec, DiagIsWorst

-----------------------------------------------------------------------------
(***************************************************************************)
(* The state that is shown.  While no plugin moves, found is the worst of  *)
(* the states that the update has looked at.                               *)
(***************************************************************************)
Looking == phase \in {"compare", "assign"} /\ steady

FoundIsWorst ==
  Looking =>
    /\ found = Production \/ \E p \in Sources : state[p] = found
    /\ \A p \in Sources : (\E i \in DOMAIN todo : todo[i] = p) \/ found <= state[p]
    /\ phase = "assign" => state[Head(todo)] < found

\* The plugin that comes next is the first of those to be looked at.
LEMMA NextIsLooked ==
  ASSUME NEW s \in Seq(Sources), s # <<>>, NEW p \in Sources, \E i \in DOMAIN s : s[i] = p
  PROVE  p = Head(s) \/ \E i \in DOMAIN Tail(s) : Tail(s)[i] = p
<1>1. PICK i \in 1 .. Len(s) : s[i] = p
  OBVIOUS
<1>2. CASE i = 1
  BY <1>1, <1>2, SequenceTail
<1>3. CASE i # 1
  <2>1. i - 1 \in DOMAIN Tail(s) /\ Tail(s)[i - 1] = s[i]
    BY <1>1, <1>3
  <2> QED BY <1>1, <2>1
<1> QED BY <1>2, <1>3

LEMMA FoundStep ==
  ASSUME Types4, FoundIsWorst, [Next]_vars
  PROVE  FoundIsWorst'
<1>1. PluginTypes /\ UpdateTypes
  BY DEF Types4
<1>2. CASE UNCHANGED <<phase, steady, found, todo, state>>
  BY <1>2 DEF FoundIsWorst, Looking
<1>3. CASE ~Looking'
  BY <1>3 DEF FoundIsWorst
<1>4. CASE Requests \/ DeliverCall
  BY <1>2, <1>4 DEF Requests, Choose, SetRequested, ChangeMachineState, ResetPlugins, DeliverCall,
                    update, plugins
<1>5. CASE Collect
  BY <1>5, Bounds DEF Collect, FoundIsWorst, plugins
<1>6. CASE Compare
  <2>1. /\ phase = "compare" /\ todo \in Seq(Sources) /\ todo # <<>>
        /\ UNCHANGED <<found, state, steady>>
    BY <1>1, <1>6 DEF Compare, UpdateTypes, plugins
  <2>2. CASE state[Head(todo)] < found
    BY <1>6, <2>1, <2>2 DEF Compare, FoundIsWorst, Looking
  <2>3. CASE ~(state[Head(todo)] < found)
    <3>1. todo' = Tail(todo) /\ phase' = "compare" /\ Head(todo) \in Sources
      BY <1>6, <2>1, <2>3, SequenceTail DEF Compare
    <3>2. found <= state[Head(todo)]
      BY <1>1, <2>3, <3>1 DEF PluginTypes, UpdateTypes
    <3> QED BY <2>1, <3>1, <3>2, NextIsLooked DEF FoundIsWorst, Looking
  <2> QED BY <2>2, <2>3
<1>7. CASE Assign
  <2>1. /\ phase = "assign" /\ phase' = "compare" /\ todo \in Seq(Sources) /\ todo # <<>>
        /\ todo' = Tail(todo) /\ found' = state[Head(todo)]
        /\ UNCHANGED <<state, steady>>
    BY <1>1, <1>7 DEF Assign, UpdateTypes, plugins
  <2>2. Head(todo) \in Sources
    BY <2>1, SequenceTail
  <2> SUFFICES ASSUME steady
               PROVE  \A p \in Sources : (\E i \in DOMAIN todo' : todo'[i] = p) \/ found' <= state[p]
    BY <2>1, <2>2 DEF FoundIsWorst, Looking
  <2>3. ASSUME NEW p \in Sources
        PROVE  (\E i \in DOMAIN todo' : todo'[i] = p) \/ found' <= state[p]
    <3>1. state[p] \in 0 .. 8 /\ found' \in 0 .. 8 /\ found \in 0 .. 8 /\ found' < found
      BY <1>1, <2>1, <2>2 DEF PluginTypes, UpdateTypes, FoundIsWorst, Looking
    <3>2. CASE \E i \in DOMAIN todo : todo[i] = p
      BY <2>1, <3>1, <3>2, NextIsLooked
    <3>3. CASE found <= state[p]
      BY <3>1, <3>3
    <3> QED BY <2>1, <3>2, <3>3 DEF FoundIsWorst, Looking
  <2> QED BY <2>3
<1>8. CASE Show \/ Check \/ Finish \/ Ends
  BY <1>3, <1>8 DEF Show, Check, Finish, Decision, Ends, Looking
<1>9. ASSUME NEW p \in Sources, Handle(p) PROVE FoundIsWorst'
  <2>1. Looking' => p \in Threaded
    BY <1>9 DEF Looking, Handle, Runs, Delivers, update
  <2>2. Looking' => p # Main
    BY <2>1, Bounds
  <2> QED BY <1>2, <1>3, <1>9, <2>2 DEF Handle, update
<1>10. ASSUME NEW p \in Sources, NEW s \in MachineStates, Moves(p, s) PROVE FoundIsWorst'
  BY <1>3, <1>10 DEF Moves, Looking
<1>11. ASSUME NEW p \in Sources,
              \E code \in Codes, types \in {{}} \cup {{t} : t \in Severities} : Reports(p, code, types)
       PROVE  FoundIsWorst'
  BY <1>2, <1>11 DEF Reports, update
<1>12. CASE UNCHANGED vars
  BY <1>2, <1>12 DEF vars, update, plugins
<1> QED BY <1>4, <1>5, <1>6, <1>7, <1>8, <1>9, <1>10, <1>11, <1>12 DEF Next, Host, Plugin

\* What is shown is the worst state of all plugins, if none has moved while they
\* were looked at, or off for an error when the machine is to be off.
THEOREM ShownStateIsWorst == Spec => ShownIsWorst
<1> DEFINE worst == Least({state[p] : p \in Sources} \cup {Production})
           A == (phase = "compare" /\ phase' = "check" /\ steady) =>
                  machine' = worst \/ (requested = Off /\ worst \in {EmergencyStop, Error} /\ machine' = Off)
<1>1. Init => FoundIsWorst
  BY DEF Init, FoundIsWorst, Looking
<1>2. Types4 /\ FoundIsWorst /\ [Next]_vars => FoundIsWorst'
  BY FoundStep
<1>3. Types4 /\ FoundIsWorst /\ [Next]_vars => A
  <2> SUFFICES ASSUME Types4, FoundIsWorst, [Next]_vars,
                      phase = "compare", phase' = "check", steady
               PROVE  machine' = worst \/ (requested = Off /\ worst \in {EmergencyStop, Error} /\ machine' = Off)
    OBVIOUS
  <2>1. Show
    BY DEF Next, Host, Requests, Plugin, Choose, SetRequested, ChangeMachineState, ResetPlugins,
           DeliverCall, Collect, Compare, Assign, Check, Finish, Decision, Ends, Handle, Moves, Reports,
           update, vars
  <2> DEFINE T == {state[p] : p \in Sources} \cup {Production}
  <2>2. T \subseteq 0 .. 8 /\ T # {} /\ found \in 0 .. 8 /\ Production = 8
    BY DEF Types4, PluginTypes, UpdateTypes, Production
  <2>3. found \in T /\ \A t \in T : found <= t
    <3>1. todo = <<>>
      BY <2>1 DEF Show
    <3>2. found = Production \/ \E p \in Sources : state[p] = found
      BY DEF FoundIsWorst, Looking
    <3>3. \A p \in Sources : found <= state[p]
      BY <3>1 DEF FoundIsWorst, Looking
    <3> QED BY <2>2, <3>2, <3>3
  <2>4. worst = found
    <3>1. worst = Least(T)
      OBVIOUS
    <3>2. T \in SUBSET Nat
      BY <2>2
    <3> HIDE DEF T, worst
    <3> QED BY <2>3, <3>1, <3>2, LeastIs
  <2> HIDE DEF worst
  <2> QED BY <2>1, <2>4 DEF Show, Masked
<1>4. Spec => []FoundIsWorst
  BY <1>1, <1>2, TypesHold, PTL DEF Spec
<1> QED BY <1>3, <1>4, TypesHold, PTL DEF Spec, ShownIsWorst
=============================================================================

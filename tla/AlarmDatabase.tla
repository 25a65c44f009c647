---------------------------- MODULE AlarmDatabase ----------------------------
(***************************************************************************)
(* The table of alarms.  Each alarm is stored once when it comes and once  *)
(* when it goes.  The rows are abstracted to how many more comings than    *)
(* goings there are of a message.  Rows are taken to have different        *)
(* timestamps, so that no insertion is refused for its key.                *)
(***************************************************************************)
EXTENDS Integers

CONSTANTS Sources, Codes

Types == {"info", "warning", "critical", "fatal"}
Message == [plugin : Sources, code : Codes, type : Types]

VARIABLES
  known,  \* _messages
  open    \* per message: rows of its coming less rows of its going

alarms == <<known, open>>

\* Of Same: the plain functions' operator==, which looks at less.
SameCode(m1, m2) == m1.plugin = m2.plugin /\ m1.code = m2.code

\* Message::operator==.  It is not const, and the elements of Qt 5 lists are not
\* either when they are compared, so that it is taken and not the plain function.
Same(m1, m2) == SameCode(m1, m2) /\ m1.type = m2.type

Contains(messages, m) == \E other \in messages : Same(other, m)

\* QList::operator!=, whatever the order.
Differ(list1, list2) ==
  \/ \E m \in list1 : ~Contains(list2, m)
  \/ \E m \in list2 : ~Contains(list1, m)

Stored(m) == m.type # "info"
New(items) == {m \in items : Stored(m) /\ ~Contains(known, m)}
Removed(items) == {m \in known : Stored(m) /\ ~Contains(items, m)}

AlarmsInit ==
  /\ known = {}
  /\ open = [m \in Message |-> 0]

UpdateMessages(items) ==
  /\ open' = [m \in Message |->
                open[m] + (IF m \in New(items) THEN 1 ELSE 0)
                        - (IF m \in Removed(items) THEN 1 ELSE 0)]
  /\ known' = items

\* Of EndAll: without the destructor.
EndNothing == UNCHANGED alarms

\* The destructor ends all open alarms.
EndAll == UpdateMessages({})
=============================================================================

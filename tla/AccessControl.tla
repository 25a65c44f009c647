---------------------------- MODULE AccessControl ----------------------------
(***************************************************************************)
(* Who may open a door: EmployeeList gets the employees from the server    *)
(* once an hour, keeps them in a file, and tells the systems behind the    *)
(* card readers, which filter them, and the plugin, which makes them users *)
(* of the host.                                                            *)
(*                                                                         *)
(* The list belongs to the host's thread.  The plugin and every system run *)
(* in threads of their own, and read the list there: the lock that they    *)
(* hold is not taken by the one who assigns it.  A list that is assigned   *)
(* while it is read leaves the reader with freed memory; it may find any   *)
(* entries there have been, or the process ends (Restart).                 *)
(*                                                                         *)
(* A system whose thread is busy with its card reader takes its next step  *)
(* when it is done.                                                        *)
(***************************************************************************)
EXTENDS Integers, Sequences, FiniteSets

CONSTANTS
  Lists,        \* lists that the server may have, sets of entries
  Systems,      \* systems behind card readers
  Departments,  \* per system: authorizedDepartments
  Authorized,   \* per system: persons in authorizedUsers
  Plugin,       \* the plugin, as a reader of the list
  Open,         \* ticks that a door stays open
  MaxPending,   \* bound: notifications in the queue of a thread
  MaxFound      \* bound: entries that are found in freed memory

Entry(e) == e.person \in Nat /\ {"card", "department"} \subseteq DOMAIN e

ASSUME ConstantsAssumption ==
  /\ \A l \in Lists : l # {} /\ \A e \in l : Entry(e)
  /\ \A l \in Lists : \A e, f \in l : e.person = f.person => e = f
  /\ Plugin \notin Systems
  /\ Open \in Nat \ {0} /\ MaxPending \in Nat \ {0} /\ MaxFound \in Nat

VARIABLES
  server,   \* the list of the server
  list,     \* _employees of EmployeeList
  file,     \* the list that the file "Employees" holds, {} if torn
  phase,    \* how far the host's thread is with a new list
  pending,  \* per reader: notifications in the queue of its thread
  reading,  \* per reader: whether it reads the list, and it was assigned meanwhile
  posted,   \* entries that the plugin has sent to the host
  users,    \* per person: the card of the user
  active,   \* systems that are set up
  cards,    \* per system: the keys of its _employees
  output,   \* per system: _q0, the door
  left,     \* per system: ticks until the door's timer fires
  since,    \* ghost: ticks since the last access
  apart     \* ghost: since a restart, file and users may be of different lists

readers == <<pending, reading>>
doors == <<output, left, since>>
vars == <<server, list, file, phase, readers, posted, users, active, cards, doors, apart>>

Readers == Systems \cup {Plugin}
Entries == UNION Lists
Persons == {e.person : e \in Entries}
Cards == {e.card : e \in Entries}

\* employees(departments, authorizedUsers), of which only the keys count here.
CardsOf(l, s) ==
  {e.card : e \in {f \in l : f.department \in Departments[s] \/ f.person \in Authorized[s]}}

\* employees(): of the entries with one card the last, in the order of persons.
Keyed(l) == {e \in l : \A f \in l : f.card = e.card => f.person <= e.person}

-----------------------------------------------------------------------------
\* The program starts with the employees of the file.
Init ==
  /\ server \in Lists
  /\ file \in Lists \cup {{}}
  /\ list = file /\ phase = "idle"
  /\ pending = [r \in Readers |-> 0] /\ reading = [r \in Readers |-> "no"]
  /\ posted = <<>>
  /\ users = [p \in {e.person : e \in Keyed(file)} |-> (CHOOSE e \in Keyed(file) : e.person = p).card]
  /\ active = {} /\ cards = [s \in Systems |-> {}]
  /\ output = [s \in Systems |-> FALSE]
  /\ left = [s \in Systems |-> 0] /\ since = [s \in Systems |-> 0]
  /\ apart = FALSE

Behind == phase # "idle" \/ pending[Plugin] > 0 \/ reading[Plugin] # "no" \/ posted # <<>>

\* The process ends and is started again.  File and users are kept.
Restart ==
  /\ list' = file /\ phase' = "idle"
  /\ pending' = [r \in Readers |-> 0] /\ reading' = [r \in Readers |-> "no"]
  /\ posted' = <<>>
  /\ active' = {} /\ cards' = [s \in Systems |-> {}]
  /\ output' = [s \in Systems |-> FALSE]
  /\ left' = [s \in Systems |-> 0] /\ since' = [s \in Systems |-> 0]
  /\ apart' = (apart \/ Behind \/ file # list)
  /\ UNCHANGED <<server, file, users>>

-----------------------------------------------------------------------------
ServerChanges(l) ==
  /\ l # server
  /\ server' = l
  /\ UNCHANGED <<list, file, phase, readers, posted, users, active, cards, doors, apart>>

\* Of Differs: only the number of employees is compared.
DiffersInLength(l) == Cardinality(l) # Cardinality(list)

Differs(l) == l # list

\* updateListOfUsers: the list is assigned, under whoever reads it, and the file
\* opened, which truncates it, unless it cannot be opened.  A request that fails
\* or brings the same list changes nothing but the plugin's warning, left out.
Answer ==
  /\ phase = "idle" /\ Differs(server)
  /\ list' = server
  /\ reading' = [r \in Readers |-> IF reading[r] = "no" THEN "no" ELSE "raced"]
  /\ \/ file' = {} /\ phase' = "save"
     \/ file' = file /\ phase' = "tell"
  /\ UNCHANGED <<server, pending, posted, users, active, cards, doors, apart>>

Save ==
  /\ phase = "save"
  /\ phase' = "tell"
  /\ file' \in {list, {}}
  /\ UNCHANGED <<server, list, readers, posted, users, active, cards, doors, apart>>

Receivers == active \cup {Plugin}

\* employeesUpdated goes to the queues of all that are connected.
Tell ==
  /\ phase = "tell"
  /\ \A r \in Readers : pending[r] < MaxPending
  /\ phase' = "idle"
  /\ pending' = [r \in Readers |-> IF r \in Receivers THEN pending[r] + 1 ELSE pending[r]]
  /\ apart' = FALSE
  /\ UNCHANGED <<server, list, file, reading, posted, users, active, cards, doors>>

-----------------------------------------------------------------------------
\* setupDevice: a system is connected, and then reads the list.
Setup(s) ==
  /\ s \notin active
  /\ active' = active \cup {s}
  /\ reading' = [reading EXCEPT ![s] = "clean"]
  /\ UNCHANGED <<server, list, file, phase, pending, posted, users, cards, doors, apart>>

Reads(r) ==
  /\ pending[r] > 0 /\ reading[r] = "no"
  /\ pending' = [pending EXCEPT ![r] = @ - 1]
  /\ reading' = [reading EXCEPT ![r] = "clean"]
  /\ UNCHANGED <<server, list, file, phase, posted, users, active, cards, doors, apart>>

\* What a reader may have found.
Found(r) == IF reading[r] = "clean" THEN {list} ELSE {l \in SUBSET Entries : Cardinality(l) <= MaxFound}

\* Of Applied: new employees are added to the old ones.
AppliedToOld(old, new) == old \cup new

\* updateListOfEmployee: nobody is not applied.
Applied(old, new) == IF new = {} THEN old ELSE new

Filter(s) ==
  /\ reading[s] # "no"
  /\ reading' = [reading EXCEPT ![s] = "no"]
  /\ \E l \in Found(s) : cards' = [cards EXCEPT ![s] = Applied(@, CardsOf(l, s))]
  /\ UNCHANGED <<server, list, file, phase, pending, posted, users, active, doors, apart>>

Collect ==
  /\ reading[Plugin] # "no" /\ Len(posted) < MaxPending
  /\ reading' = [reading EXCEPT ![Plugin] = "no"]
  /\ \E l \in Found(Plugin) : posted' = Append(posted, Keyed(l))
  /\ UNCHANGED <<server, list, file, phase, pending, users, active, cards, doors, apart>>

\* Of Added: a user that is there already stays as it is.
AddedIfNew(table, e) == IF e.person \in DOMAIN table THEN table[e.person] ELSE e.card

Added(table, e) == e.card

\* The host adds or replaces users, and never removes one.
AddUsers ==
  /\ posted # <<>>
  /\ posted' = Tail(posted)
  /\ users' = [p \in DOMAIN users \cup {e.person : e \in Head(posted)} |->
       IF \E e \in Head(posted) : e.person = p
       THEN Added(users, CHOOSE e \in Head(posted) : e.person = p)
       ELSE users[p]]
  /\ UNCHANGED <<server, list, file, phase, readers, active, cards, doors, apart>>

-----------------------------------------------------------------------------
\* Of Started: the timer is not started again.
StartedOnce(s) == IF output[s] THEN left[s] ELSE Open

Started(s) == Open

\* handleLogin, handleAccess and setOutput, for a card that is known.
Access(s, card) ==
  /\ s \in active /\ reading[s] = "no"
  /\ card \in cards[s]
  /\ output' = [output EXCEPT ![s] = TRUE]
  /\ left' = [left EXCEPT ![s] = Started(s)] /\ since' = [since EXCEPT ![s] = 0]
  /\ UNCHANGED <<server, list, file, phase, readers, posted, users, active, cards, apart>>

Counts(s) ==
  /\ left[s] > 0
  /\ left' = [left EXCEPT ![s] = @ - 1] /\ since' = [since EXCEPT ![s] = @ + 1]
  /\ UNCHANGED <<server, list, file, phase, readers, posted, users, active, cards, output, apart>>

ResetOutput(s) ==
  /\ output[s] /\ left[s] = 0 /\ reading[s] = "no"
  /\ output' = [output EXCEPT ![s] = FALSE] /\ since' = [since EXCEPT ![s] = 0]
  /\ UNCHANGED <<server, list, file, phase, readers, posted, users, active, cards, left, apart>>

-----------------------------------------------------------------------------
Host == Answer \/ Save \/ Tell \/ AddUsers

System(s) ==
  \/ Setup(s) \/ Filter(s)
  \/ \E card \in Cards : Access(s, card)
  \/ Counts(s) \/ ResetOutput(s)

Next ==
  \/ Host
  \/ Collect \/ \E r \in Readers : Reads(r)
  \/ \E s \in Systems : System(s)
  \/ Restart
  \/ \E l \in Lists : ServerChanges(l)

Spec == Init /\ [][Next]_vars

\* Threads run, time passes, and a server that is asked again and again is
\* reachable at one of these moments.
Fairness ==
  /\ SF_vars(Answer) /\ WF_vars(Save) /\ WF_vars(Tell) /\ WF_vars(AddUsers)
  /\ WF_vars(Collect) /\ \A r \in Readers : WF_vars(Reads(r))
  /\ \A s \in Systems : WF_vars(Filter(s)) /\ WF_vars(Counts(s)) /\ WF_vars(ResetOutput(s))

FairSpec == Spec /\ Fairness

-----------------------------------------------------------------------------
TypeOK ==
  /\ server \in Lists /\ {list, file} \subseteq Lists \cup {{}}
  /\ apart \in BOOLEAN
  /\ phase \in {"idle", "save", "tell"}
  /\ pending \in [Readers -> 0 .. MaxPending] /\ reading \in [Readers -> {"no", "clean", "raced"}]
  /\ \A s \in Systems \ active : pending[s] = 0 /\ reading[s] = "no" /\ cards[s] = {} /\ ~output[s]
  /\ posted \in Seq(SUBSET Entries)
  /\ DOMAIN users \subseteq Persons /\ \A p \in DOMAIN users : users[p] \in Cards
  /\ active \subseteq Systems /\ cards \in [Systems -> SUBSET Cards]
  /\ output \in [Systems -> BOOLEAN]
  /\ left \in [Systems -> 0 .. Open] /\ since \in [Systems -> 0 .. Open]

\* A card opens a door if and only if the list has it for that system, once the
\* system has handled what it was told, however the list was assigned under it.
\* Only a list without anybody for the system is not applied.
AccessIsListed ==
  \A s \in active :
    (phase = "idle" /\ pending[s] = 0 /\ reading[s] = "no" /\ CardsOf(list, s) # {})
      => cards[s] = CardsOf(list, s)

\* Every employee of the list is a user of the host with the card of the list,
\* or has a card that a later employee of the list has too, once the plugin and
\* the host have handled what they were told, unless the process ended before
\* they had, or without having saved the list.  (Of the employees with one card
\* employees() keeps the last; the others do not become users.)
EmployeesAreUsers ==
  (~Behind /\ ~apart) =>
    \A e \in list :
      \/ e.person \in DOMAIN users /\ users[e.person] = e.card
      \/ \E f \in list : f.card = e.card /\ f.person > e.person

\* A door is shut when nobody has entered for the whole time, and not for what
\* an earlier access left of it.
DoorStaysOpen ==
  [][\A s \in Systems : output[s] /\ ~output'[s] /\ s \in active' => since[s] = Open]_vars

\* If the list of the server stays, the doors some time open for whom it says.
EventuallyListed ==
  \A s \in Systems, l \in Lists :
    <>[](server = l /\ s \in active /\ CardsOf(l, s) # {}) => <>[](cards[s] = CardsOf(l, s))
=============================================================================

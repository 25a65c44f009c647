------------------------- MODULE AccessControl_proofs -------------------------
(***************************************************************************)
(* Theorems about AccessControl, for all lists, systems, queues and doors: *)
(* who may open a door, who is a user, and how long a door stays open.     *)
(***************************************************************************)
EXTENDS AccessControl, TLAPS

LEMMA Bounds ==
  /\ Plugin \notin Systems
  /\ Open \in Nat \ {0} /\ MaxPending \in Nat \ {0}
  BY ConstantsAssumption

LEMMA SequenceTail ==
  ASSUME NEW S, NEW s \in Seq(S), s # <<>>
  PROVE  Tail(s) \in Seq(S) /\ Head(s) \in S
  OBVIOUS

LEMMA EmptySequence == ASSUME NEW S PROVE <<>> \in Seq(S)
  OBVIOUS

LEMMA SequenceAppend ==
  ASSUME NEW S, NEW s \in Seq(S), NEW e \in S
  PROVE  Append(s, e) \in Seq(S)
  OBVIOUS

-----------------------------------------------------------------------------
\* The types, in parts: the list, who is told of it, the users, and the doors.
ListTypes ==
  /\ server \in Lists /\ list \in Lists \cup {{}} /\ file \in Lists \cup {{}}
  /\ apart \in BOOLEAN
  /\ phase \in {"idle", "save", "tell"}

ReaderTypes ==
  /\ pending \in [Readers -> 0 .. MaxPending]
  /\ reading \in [Readers -> {"no", "clean", "raced"}]
  /\ active \subseteq Systems
  /\ \A s \in Systems \ active : pending[s] = 0 /\ reading[s] = "no"

UserTypes ==
  /\ posted \in Seq(SUBSET Entries)
  /\ DOMAIN users \subseteq Persons /\ \A p \in DOMAIN users : users[p] \in Cards

DoorTypes ==
  /\ cards \in [Systems -> SUBSET Cards]
  /\ output \in [Systems -> BOOLEAN]
  /\ left \in [Systems -> 0 .. Open] /\ since \in [Systems -> 0 .. Open]
  /\ \A s \in Systems \ active : cards[s] = {} /\ ~output[s]

Types4 == ListTypes /\ ReaderTypes /\ UserTypes /\ DoorTypes

LEMMA TypesInParts == Types4 => TypeOK
  BY DEF TypeOK, Types4, ListTypes, ReaderTypes, UserTypes, DoorTypes

\* Since the last access to an open door the timer has counted what it lacks.
Timed ==
  \A s \in Systems :
    /\ output[s] => left[s] + since[s] = Open
    /\ ~output[s] => left[s] = 0 /\ since[s] = 0

Lasting == Types4 /\ Timed

LEMMA EntriesOfLists ==
  ASSUME NEW l \in Lists \cup {{}}
  PROVE  l \in SUBSET Entries /\ Keyed(l) \subseteq l /\ \A s : CardsOf(l, s) \subseteq Cards
<1>1. l \subseteq Entries
  BY DEF Entries
<1> QED BY <1>1 DEF Keyed, CardsOf, Cards

LEMMA CardsOfEntries ==
  ASSUME NEW l \in SUBSET Entries, NEW s
  PROVE  CardsOf(l, s) \subseteq Cards /\ Keyed(l) \in SUBSET Entries
  BY DEF CardsOf, Cards, Keyed

-----------------------------------------------------------------------------
\* One lemma for each kind of step: the list, what readers do with it, the doors.
LEMMA ListSteps ==
  ASSUME Lasting, Answer \/ Save \/ Tell \/ \E l \in Lists : ServerChanges(l)
  PROVE  Lasting'
<1>1. ListTypes /\ ReaderTypes /\ UserTypes /\ DoorTypes /\ Timed /\ MaxPending \in Nat
  BY Bounds DEF Lasting, Types4
<1>2. UNCHANGED <<posted, users, active, cards, output, left, since>>
  BY DEF Answer, Save, Tell, ServerChanges, doors
<1>3. UserTypes' /\ DoorTypes' /\ Timed'
  BY <1>1, <1>2 DEF UserTypes, DoorTypes, Timed
<1>4. ListTypes'
  BY <1>1 DEF Answer, Save, Tell, ServerChanges, ListTypes
<1>5. CASE Answer
  <2>1. reading' \in [Readers -> {"no", "clean", "raced"}] /\ pending' = pending
        /\ \A s \in Systems \ active : reading'[s] = reading[s]
    BY <1>1, <1>5 DEF Answer, ReaderTypes, Readers
  <2> QED BY <1>1, <1>2, <1>3, <1>4, <2>1 DEF Lasting, Types4, ReaderTypes
<1>6. CASE Tell
  <2>1. /\ pending' = [r \in Readers |-> IF r \in Receivers THEN pending[r] + 1 ELSE pending[r]]
        /\ \A r \in Readers : pending[r] < MaxPending
        /\ reading' = reading
    BY <1>6 DEF Tell
  <2>2. pending' \in [Readers -> 0 .. MaxPending]
    BY <1>1, <2>1 DEF ReaderTypes
  <2>3. \A s \in Systems \ active : s \notin Receivers /\ s \in Readers
    BY Bounds DEF Receivers, Readers
  <2> QED BY <1>1, <1>2, <1>3, <1>4, <2>1, <2>2, <2>3 DEF Lasting, Types4, ReaderTypes
<1>7. CASE Save \/ \E l \in Lists : ServerChanges(l)
  BY <1>1, <1>2, <1>3, <1>4, <1>7 DEF Save, ServerChanges, readers, Lasting, Types4, ReaderTypes
<1> QED BY <1>5, <1>6, <1>7

LEMMA FoundEntries ==
  ASSUME Types4, NEW r \in Readers, NEW l \in Found(r)
  PROVE  l \in SUBSET Entries
  BY EntriesOfLists DEF Found, Types4, ListTypes

LEMMA ReaderSteps ==
  ASSUME Lasting,
         \/ \E r \in Readers : Reads(r)
         \/ \E s \in Systems : Setup(s) \/ Filter(s)
  PROVE  Lasting'
<1>1. ListTypes /\ ReaderTypes /\ UserTypes /\ DoorTypes /\ Timed /\ MaxPending \in Nat
  BY Bounds DEF Lasting, Types4
<1>2. UNCHANGED <<server, list, file, apart, phase, posted, users, output, left, since>>
  BY DEF Reads, Setup, Filter, doors
<1>3. ListTypes' /\ UserTypes' /\ Timed'
  BY <1>1, <1>2 DEF ListTypes, UserTypes, Timed
<1>4. ASSUME NEW r \in Readers, Reads(r) PROVE Lasting'
  <2>1. pending' \in [Readers -> 0 .. MaxPending]
    BY <1>1, <1>4 DEF Reads, ReaderTypes
  <2>2. reading' \in [Readers -> {"no", "clean", "raced"}]
    BY <1>1, <1>4 DEF Reads, ReaderTypes
  <2>3. \A s \in Systems \ active : s # r /\ pending'[s] = pending[s] /\ reading'[s] = reading[s]
    BY <1>1, <1>4 DEF Reads, ReaderTypes, Readers
  <2> QED BY <1>1, <1>2, <1>3, <1>4, <2>1, <2>2, <2>3 DEF Lasting, Types4, Reads, ReaderTypes, DoorTypes
<1>5. ASSUME NEW s \in Systems, Setup(s) PROVE Lasting'
  <2>1. reading' \in [Readers -> {"no", "clean", "raced"}] /\ active' \subseteq Systems
    BY <1>1, <1>5 DEF Setup, ReaderTypes
  <2>2. \A o \in Systems \ active' : o \notin active /\ o # s /\ reading'[o] = reading[o]
    BY <1>1, <1>5 DEF Setup, ReaderTypes, Readers
  <2> QED BY <1>1, <1>2, <1>3, <1>5, <2>1, <2>2 DEF Lasting, Types4, Setup, ReaderTypes, DoorTypes
<1>6. ASSUME NEW s \in Systems, Filter(s) PROVE Lasting'
  <2>1. PICK l \in Found(s) : cards' = [cards EXCEPT ![s] = Applied(cards[s], CardsOf(l, s))]
    BY <1>6 DEF Filter
  <2>2. CardsOf(l, s) \subseteq Cards
    BY FoundEntries, CardsOfEntries DEF Lasting, Readers
  <2>3. Applied(cards[s], CardsOf(l, s)) \in SUBSET Cards
    BY <1>1, <2>2 DEF Applied, DoorTypes
  <2>4. cards' \in [Systems -> SUBSET Cards]
    BY <1>1, <2>1, <2>3 DEF DoorTypes
  <2>5. s \in active
    BY <1>1, <1>6 DEF Filter, ReaderTypes
  <2>6. \A o \in Systems \ active : cards'[o] = cards[o]
    BY <1>1, <2>1, <2>5 DEF DoorTypes
  <2>7. DoorTypes'
    BY <1>1, <1>2, <1>6, <2>4, <2>6 DEF DoorTypes, Filter
  <2>8. ReaderTypes'
    <3>1. reading' = [reading EXCEPT ![s] = "no"] /\ UNCHANGED <<pending, active>>
      BY <1>6 DEF Filter
    <3>2. reading' \in [Readers -> {"no", "clean", "raced"}]
      BY <1>1, <3>1 DEF ReaderTypes
    <3>3. \A o \in Systems \ active : reading'[o] = "no"
      BY <1>1, <3>1 DEF ReaderTypes, Readers
    <3> QED BY <1>1, <3>1, <3>2, <3>3 DEF ReaderTypes
  <2> QED BY <1>3, <2>7, <2>8 DEF Lasting, Types4
<1> QED BY <1>4, <1>5, <1>6

LEMMA UserSteps ==
  ASSUME Lasting, Collect \/ AddUsers
  PROVE  Lasting'
<1>1. ListTypes /\ ReaderTypes /\ UserTypes /\ DoorTypes /\ Timed /\ Plugin \notin Systems
  BY Bounds DEF Lasting, Types4
<1>2. UNCHANGED <<server, list, file, apart, phase, pending, active, cards, output, left, since>>
  BY DEF Collect, AddUsers, doors, readers
<1>3. ListTypes' /\ DoorTypes' /\ Timed'
  BY <1>1, <1>2 DEF ListTypes, DoorTypes, Timed
<1>4. CASE Collect
  <2>1. PICK l \in Found(Plugin) : posted' = Append(posted, Keyed(l))
    BY <1>4 DEF Collect
  <2>2. Keyed(l) \in SUBSET Entries
    BY FoundEntries, CardsOfEntries DEF Lasting, Readers
  <2>3. UserTypes'
    BY <1>1, <1>4, <2>1, <2>2, SequenceAppend DEF Collect, UserTypes
  <2>4. reading' = [reading EXCEPT ![Plugin] = "no"]
    BY <1>4 DEF Collect
  <2>5. reading' \in [Readers -> {"no", "clean", "raced"}]
    BY <1>1, <2>4 DEF ReaderTypes
  <2>6. \A s \in Systems \ active : reading'[s] = reading[s]
    BY <1>1, <2>4 DEF ReaderTypes, Readers
  <2>7. ReaderTypes'
    BY <1>1, <1>2, <2>5, <2>6 DEF ReaderTypes
  <2> QED BY <1>3, <2>3, <2>7 DEF Lasting, Types4
<1>5. CASE AddUsers
  <2> DEFINE new == Head(posted)
  <2>1. new \in SUBSET Entries /\ Tail(posted) \in Seq(SUBSET Entries)
    BY <1>1, <1>5, SequenceTail DEF AddUsers, UserTypes
  <2>2. users' = [p \in DOMAIN users \cup {e.person : e \in new} |->
                    IF \E e \in new : e.person = p
                    THEN Added(users, CHOOSE e \in new : e.person = p) ELSE users[p]]
    BY <1>5 DEF AddUsers
  <2> HIDE DEF new
  <2>3. DOMAIN users' \subseteq Persons
    BY <1>1, <2>1, <2>2 DEF UserTypes, Persons
  <2>4. ASSUME NEW p \in DOMAIN users' PROVE users'[p] \in Cards
    <3>1. CASE \E e \in new : e.person = p
      <4>1. (CHOOSE e \in new : e.person = p) \in new
        BY <3>1
      <4> QED BY <2>1, <2>2, <2>4, <3>1, <4>1 DEF Added, Cards
    <3>2. CASE ~ \E e \in new : e.person = p
      BY <1>1, <2>2, <2>4, <3>2 DEF UserTypes
    <3> QED BY <3>1, <3>2
  <2>5. UserTypes'
    BY <1>5, <2>1, <2>3, <2>4 DEF UserTypes, AddUsers, new
  <2>6. ReaderTypes'
    BY <1>1, <1>2, <1>5 DEF ReaderTypes, AddUsers, readers
  <2> QED BY <1>3, <2>5, <2>6 DEF Lasting, Types4
<1> QED BY <1>4, <1>5

\* A step of one door.
LEMMA DoorMoves ==
  ASSUME Lasting, NEW s \in Systems, NEW o \in BOOLEAN, NEW l \in 0 .. Open, NEW n \in 0 .. Open,
         UNCHANGED <<server, list, file, phase, readers, posted, users, active, cards, apart>>,
         output' = [output EXCEPT ![s] = o],
         left' = [left EXCEPT ![s] = l],
         since' = [since EXCEPT ![s] = n],
         o => l + n = Open /\ s \in active,
         ~o => l = 0 /\ n = 0
  PROVE  Lasting'
<1>1. ListTypes /\ ReaderTypes /\ UserTypes /\ DoorTypes /\ Timed
  BY DEF Lasting, Types4
<1>2. ListTypes' /\ ReaderTypes' /\ UserTypes'
  BY <1>1 DEF ListTypes, ReaderTypes, UserTypes, readers
<1>3. /\ output' \in [Systems -> BOOLEAN]
      /\ left' \in [Systems -> 0 .. Open] /\ since' \in [Systems -> 0 .. Open]
  BY <1>1 DEF DoorTypes
<1>4. ASSUME NEW r \in Systems \ active PROVE ~output'[r]
  BY <1>1 DEF DoorTypes
<1>5. DoorTypes'
  BY <1>1, <1>3, <1>4 DEF DoorTypes
<1>6. ASSUME NEW r \in Systems
      PROVE  /\ output'[r] => left'[r] + since'[r] = Open
             /\ ~output'[r] => left'[r] = 0 /\ since'[r] = 0
  <2>1. CASE r = s
    <3>1. output'[r] = o /\ left'[r] = l /\ since'[r] = n
      BY <1>1, <2>1 DEF DoorTypes
    <3> QED BY <3>1
  <2>2. CASE r # s
    <3>1. output'[r] = output[r] /\ left'[r] = left[r] /\ since'[r] = since[r]
      BY <1>1, <2>2 DEF DoorTypes
    <3> QED BY <1>1, <3>1 DEF Timed
  <2> QED BY <2>1, <2>2
<1>7. Timed'
  BY <1>6 DEF Timed
<1> QED BY <1>2, <1>5, <1>7 DEF Lasting, Types4

LEMMA DoorSteps ==
  ASSUME Lasting, NEW s \in Systems,
         (\E card \in Cards : Access(s, card)) \/ Counts(s) \/ ResetOutput(s)
  PROVE  Lasting'
<1>1. DoorTypes /\ Timed /\ Open \in Nat \ {0}
  BY Bounds DEF Lasting, Types4
<1>2. left[s] \in 0 .. Open /\ since[s] \in 0 .. Open /\ output[s] \in BOOLEAN
  BY <1>1 DEF DoorTypes
<1>3. CASE \E card \in Cards : Access(s, card)
  <2>1. Open \in 0 .. Open /\ 0 \in 0 .. Open /\ Open + 0 = Open
    BY <1>1
  <2> QED BY <1>3, <2>1, DoorMoves DEF Access, Started
<1>4. CASE Counts(s)
  <2>1. /\ output' = output /\ left' = [left EXCEPT ![s] = left[s] - 1]
        /\ since' = [since EXCEPT ![s] = since[s] + 1] /\ left[s] > 0
    BY <1>4 DEF Counts
  <2>2. output[s] /\ left[s] + since[s] = Open
    BY <1>1, <1>2, <2>1 DEF Timed
  <2>3. left[s] - 1 \in 0 .. Open /\ since[s] + 1 \in 0 .. Open /\ (left[s] - 1) + (since[s] + 1) = Open
    BY <1>1, <1>2, <2>1, <2>2
  <2>4. output' = [output EXCEPT ![s] = TRUE]
    BY <1>1, <2>1, <2>2 DEF DoorTypes
  <2>5. s \in active
    BY <1>1, <2>2 DEF DoorTypes
  <2> QED BY <1>4, <2>1, <2>3, <2>4, <2>5, DoorMoves DEF Counts
<1>5. CASE ResetOutput(s)
  <2>1. left' = [left EXCEPT ![s] = 0]
    BY <1>1, <1>5 DEF ResetOutput, DoorTypes
  <2>2. 0 \in 0 .. Open
    BY <1>1
  <2> QED BY <1>5, <2>1, <2>2, DoorMoves DEF ResetOutput
<1> QED BY <1>3, <1>4, <1>5

LEMMA LastingStart == Init => Lasting
<1> SUFFICES ASSUME Init PROVE Lasting
  OBVIOUS
<1>1. file \in Lists \cup {{}} /\ Open \in Nat \ {0} /\ MaxPending \in Nat \ {0}
  BY Bounds DEF Init
<1>2. ListTypes
  BY DEF Init, ListTypes
<1>3. ReaderTypes
  BY <1>1 DEF Init, ReaderTypes, Readers
<1>4. UserTypes
  <2>1. posted \in Seq(SUBSET Entries)
    BY EmptySequence DEF Init
  <2>2. Keyed(file) \subseteq Entries
    BY <1>1, EntriesOfLists
  <2>3. DOMAIN users = {e.person : e \in Keyed(file)}
        /\ \A p \in DOMAIN users : users[p] = (CHOOSE e \in Keyed(file) : e.person = p).card
    BY DEF Init
  <2>4. ASSUME NEW p \in DOMAIN users PROVE users[p] \in Cards
    <3>1. (CHOOSE e \in Keyed(file) : e.person = p) \in Keyed(file)
      BY <2>3
    <3> QED BY <2>2, <2>3, <3>1 DEF Cards
  <2> QED BY <2>1, <2>2, <2>3, <2>4 DEF UserTypes, Persons
<1>5. DoorTypes /\ Timed
  BY <1>1 DEF Init, DoorTypes, Timed
<1> QED BY <1>2, <1>3, <1>4, <1>5 DEF Lasting, Types4

LEMMA RestartStep ==
  ASSUME Lasting, Restart
  PROVE  Lasting'
<1>1. ListTypes /\ UserTypes /\ Open \in Nat \ {0} /\ MaxPending \in Nat \ {0}
  BY Bounds DEF Lasting, Types4
<1>2. ListTypes'
  BY <1>1 DEF Restart, ListTypes
<1>3. ReaderTypes'
  BY <1>1 DEF Restart, ReaderTypes, Readers
<1>4. UserTypes'
  BY <1>1, EmptySequence DEF Restart, UserTypes
<1>5. DoorTypes' /\ Timed'
  BY <1>1 DEF Restart, DoorTypes, Timed
<1> QED BY <1>2, <1>3, <1>4, <1>5 DEF Lasting, Types4

LEMMA LastingStep == Lasting /\ [Next]_vars => Lasting'
<1> SUFFICES ASSUME Lasting, [Next]_vars PROVE Lasting'
  OBVIOUS
<1>1. CASE UNCHANGED vars
  BY <1>1 DEF vars, readers, doors, Lasting, Types4, ListTypes, ReaderTypes, UserTypes, DoorTypes, Timed
<1>2. CASE Host \/ Collect \/ \E l \in Lists : ServerChanges(l)
  BY <1>2, ListSteps, UserSteps DEF Host
<1>3. CASE \E r \in Readers : Reads(r)
  BY <1>3, ReaderSteps
<1>4. ASSUME NEW s \in Systems, System(s) PROVE Lasting'
  BY <1>4, ReaderSteps, DoorSteps DEF System
<1> QED BY <1>1, <1>2, <1>3, <1>4, RestartStep DEF Next

LEMMA LastingHolds == Spec => []Lasting
  BY LastingStart, LastingStep, PTL DEF Spec

\* Type correctness, for all lists, systems, queues and doors.
THEOREM TypeCorrect == Spec => []TypeOK
<1>1. Lasting => TypeOK
  BY TypesInParts DEF Lasting
<1> QED BY <1>1, LastingHolds, PTL

\* A door is shut when nobody has entered for the whole time, however often somebody
\* has entered meanwhile.
THEOREM DoorsStayOpen == Spec => DoorStaysOpen
<1> DEFINE A == \A s \in Systems : output[s] /\ ~output'[s] /\ s \in active' => since[s] = Open
<1>1. Lasting /\ [Next]_vars => A
  <2> SUFFICES ASSUME Lasting, [Next]_vars, NEW s \in Systems, output[s], ~output'[s], s \in active'
               PROVE  since[s] = Open
    OBVIOUS
  <2>1. DoorTypes /\ Timed /\ Open \in Nat
    BY Bounds DEF Lasting, Types4
  <2>2. ~ UNCHANGED output /\ active' # {}
    OBVIOUS
  <2>3. ~Restart
    BY <2>2 DEF Restart
  <2>4. PICK o \in Systems : ResetOutput(o) \/ \E card \in Cards : Access(o, card)
    BY <2>2, <2>3 DEF Next, Host, System, Answer, Save, Tell, AddUsers, Collect, Reads, Setup, Filter,
                      Counts, ServerChanges, doors, vars
  <2>5. ResetOutput(s)
    BY <2>1, <2>4 DEF ResetOutput, Access, DoorTypes
  <2>6. left[s] = 0 /\ left[s] + since[s] = Open /\ since[s] \in 0 .. Open
    BY <2>1, <2>5 DEF ResetOutput, Timed, DoorTypes
  <2> QED BY <2>1, <2>6
<1> QED BY <1>1, LastingHolds, PTL DEF Spec, DoorStaysOpen

-----------------------------------------------------------------------------
(***************************************************************************)
(* A reader that was overtaken by the assignment of the list, and may have *)
(* found anything, has a notification to come (Renewed): the host is on    *)
(* the way to send it, or it is in the reader's queue.                     *)
(***************************************************************************)
Renewed(r) == reading[r] = "raced" => phase # "idle" \/ pending[r] > 0

Listed(s) ==
  (phase = "idle" /\ pending[s] = 0 /\ reading[s] = "no" /\ CardsOf(list, s) # {})
    => cards[s] = CardsOf(list, s)

AccessInv ==
  /\ Lasting
  /\ Renewed(Plugin)
  /\ \A s \in active : Renewed(s) /\ Listed(s)

LEMMA RenewedStep ==
  ASSUME Lasting, [Next]_vars, NEW r \in Readers, Renewed(r)
  PROVE  Renewed(r)'
<1>1. ReaderTypes /\ Plugin \notin Systems
  BY Bounds DEF Lasting, Types4
<1>2. CASE UNCHANGED <<reading, phase, pending>>
  BY <1>2 DEF Renewed
<1>3. CASE Answer \/ Save
  BY <1>3 DEF Answer, Save, Renewed
<1>4. CASE Tell
  <2>1. CASE r \in Receivers
    BY <1>1, <1>4, <2>1 DEF Tell, Renewed, ReaderTypes
  <2>2. CASE r \notin Receivers
    <3>1. reading[r] = "no"
      BY <1>1, <1>4, <2>2 DEF Tell, Receivers, ReaderTypes, Readers
    <3> QED BY <1>4, <3>1 DEF Tell, Renewed
  <2> QED BY <2>1, <2>2
<1>5. ASSUME NEW q \in Readers, Reads(q) PROVE Renewed(r)'
  BY <1>1, <1>5 DEF Reads, Renewed, ReaderTypes
<1>6. ASSUME NEW s \in Systems, Setup(s) \/ Filter(s) PROVE Renewed(r)'
  BY <1>1, <1>6 DEF Setup, Filter, Renewed, ReaderTypes
<1>7. CASE Collect
  BY <1>1, <1>7 DEF Collect, Renewed, ReaderTypes
<1>8. CASE Restart
  BY <1>8 DEF Restart, Renewed
<1>9. CASE AddUsers \/ \E l \in Lists : ServerChanges(l)
  BY <1>2, <1>9 DEF AddUsers, ServerChanges, readers
<1>10. ASSUME NEW s \in Systems, (\E card \in Cards : Access(s, card)) \/ Counts(s) \/ ResetOutput(s)
       PROVE  Renewed(r)'
  BY <1>2, <1>10 DEF Access, Counts, ResetOutput, readers
<1>11. CASE UNCHANGED vars
  BY <1>2, <1>11 DEF vars, readers
<1> QED BY <1>3, <1>4, <1>5, <1>6, <1>7, <1>8, <1>9, <1>10, <1>11 DEF Next, Host, System

LEMMA ListedStep ==
  ASSUME Lasting, [Next]_vars, NEW s \in active', s \in active => Renewed(s) /\ Listed(s)
  PROVE  Listed(s)'
<1>1. ReaderTypes /\ DoorTypes /\ ListTypes /\ s \in Systems /\ s \in Readers /\ Plugin \notin Systems
      /\ ReaderTypes'
  BY Bounds, LastingStep DEF Lasting, Types4, ReaderTypes, Readers
<1>2. CASE UNCHANGED <<reading, phase, pending, list, cards, active>>
  BY <1>2 DEF Listed
<1>3. CASE Answer \/ Save
  BY <1>3 DEF Answer, Save, Listed
<1>4. CASE Tell
  <2>1. s \in Receivers /\ pending[s] \in 0 .. MaxPending /\ MaxPending \in Nat
    BY <1>1, <1>4, Bounds DEF Tell, Receivers, ReaderTypes
  <2>2. pending'[s] = pending[s] + 1
    BY <1>1, <1>4, <2>1 DEF Tell
  <2> QED BY <2>1, <2>2 DEF Listed
<1>5. ASSUME NEW q \in Readers, Reads(q) PROVE Listed(s)'
  <2>1. CASE q = s
    <3>1. reading'[s] = "clean"
      BY <1>1, <1>5, <2>1 DEF Reads, ReaderTypes
    <3> QED BY <3>1 DEF Listed
  <2>2. CASE q # s
    BY <1>1, <1>5, <2>2 DEF Reads, Listed, ReaderTypes
  <2> QED BY <2>1, <2>2
<1>6. ASSUME NEW q \in Systems, Setup(q) PROVE Listed(s)'
  <2>1. CASE q = s
    <3>1. reading'[s] = "clean"
      BY <1>1, <1>6, <2>1 DEF Setup, ReaderTypes
    <3> QED BY <3>1 DEF Listed
  <2>2. CASE q # s
    BY <1>1, <1>6, <2>2 DEF Setup, Listed, ReaderTypes
  <2> QED BY <2>1, <2>2
<1>7. ASSUME NEW q \in Systems, Filter(q) PROVE Listed(s)'
  <2>1. CASE q # s
    BY <1>1, <1>7, <2>1 DEF Filter, Listed, ReaderTypes, DoorTypes
  <2>2. CASE q = s
    <3> SUFFICES ASSUME phase = "idle", pending[s] = 0, CardsOf(list, s) # {}
                 PROVE  cards'[s] = CardsOf(list, s)
      BY <1>7 DEF Filter, Listed
    <3>1. s \in active /\ reading[s] = "clean"
      BY <1>1, <1>7, <2>2 DEF Filter, Renewed, ReaderTypes
    <3>2. cards' = [cards EXCEPT ![s] = Applied(cards[s], CardsOf(list, s))]
      BY <1>7, <2>2, <3>1 DEF Filter, Found
    <3> QED BY <1>1, <3>2 DEF Applied, DoorTypes
  <2> QED BY <2>1, <2>2
<1>8. CASE Collect
  BY <1>1, <1>8 DEF Collect, Listed, ReaderTypes
<1>9. CASE Restart
  BY <1>9 DEF Restart
<1>10. CASE AddUsers \/ \E l \in Lists : ServerChanges(l)
  BY <1>2, <1>10 DEF AddUsers, ServerChanges, readers
<1>11. ASSUME NEW q \in Systems, (\E card \in Cards : Access(q, card)) \/ Counts(q) \/ ResetOutput(q)
       PROVE  Listed(s)'
  BY <1>2, <1>11 DEF Access, Counts, ResetOutput, readers
<1>12. CASE UNCHANGED vars
  BY <1>2, <1>12 DEF vars, readers
<1> QED BY <1>3, <1>4, <1>5, <1>6, <1>7, <1>8, <1>9, <1>10, <1>11, <1>12 DEF Next, Host, System

\* A system that is not set up has read nothing.
LEMMA AccessStep == AccessInv /\ [Next]_vars => AccessInv'
<1> SUFFICES ASSUME AccessInv, [Next]_vars PROVE AccessInv'
  OBVIOUS
<1>1. Lasting'
  BY LastingStep DEF AccessInv
<1>2. Renewed(Plugin)'
  BY RenewedStep DEF AccessInv, Readers
<1>3. ASSUME NEW s \in active' PROVE Renewed(s)' /\ Listed(s)'
  <2>1. s \in Systems /\ s \in Readers /\ ReaderTypes
    BY <1>1, <1>3 DEF AccessInv, Lasting, Types4, ReaderTypes, Readers
  <2>2. Renewed(s)
    BY <2>1 DEF AccessInv, Renewed, ReaderTypes
  <2> QED BY <1>3, <2>1, <2>2, RenewedStep, ListedStep DEF AccessInv
<1> QED BY <1>1, <1>2, <1>3 DEF AccessInv

LEMMA AccessHolds == Spec => []AccessInv
<1>1. Init => AccessInv
  <2> SUFFICES ASSUME Init PROVE AccessInv
    OBVIOUS
  <2>1. active = {} /\ reading[Plugin] = "no"
    BY DEF Init, Readers
  <2> QED BY <2>1, LastingStart DEF AccessInv, Renewed
<1> QED BY <1>1, AccessStep, PTL DEF Spec

\* A card opens a door if and only if the list has it for that system, once the system
\* has handled what it was told, also if the list was assigned while it was read.
THEOREM AccessFollowsList == Spec => []AccessIsListed
<1>1. AccessInv => AccessIsListed
  BY DEF AccessInv, AccessIsListed, Listed
<1> QED BY <1>1, AccessHolds, PTL

\* Who was overtaken by the assignment of the list, and may have found anything in the
\* memory of the old one, reads it again: system or plugin, it has not been told yet, or
\* has the notification in its queue.  No lock makes the reader wait for that.
RacedIsRenewed ==
  \A r \in Readers : reading[r] = "raced" => phase # "idle" \/ pending[r] > 0

\* For all lists and systems, however often the list is assigned, as long as the
\* process goes on: what was found in the old memory never stays.
THEOREM RacedReadsAreRenewed == Spec => []RacedIsRenewed
<1>1. AccessInv => RacedIsRenewed
  <2> SUFFICES ASSUME AccessInv, NEW r \in Readers, reading[r] = "raced"
               PROVE  phase # "idle" \/ pending[r] > 0
    BY DEF RacedIsRenewed
  <2>1. ReaderTypes
    BY DEF AccessInv, Lasting, Types4
  <2>2. r = Plugin \/ r \in active
    BY <2>1 DEF Readers, ReaderTypes
  <2> QED BY <2>2 DEF AccessInv, Renewed
<1> QED BY <1>1, AccessHolds, PTL

\* No system is forgotten: one whose table is not that of the list is about to get it, by
\* a list on its way, a notification in its queue, or a reading that nothing has overtaken.
NobodyForgotten ==
  \A s \in active :
    CardsOf(list, s) # {} /\ cards[s] # CardsOf(list, s)
      => phase # "idle" \/ pending[s] > 0 \/ reading[s] = "clean"

\* For all lists, systems and queues, and over restarts: no step of the host, of a
\* system or of the plugin is the last one while a table is out of date.
THEOREM NoSystemIsForgotten == Spec => []NobodyForgotten
<1>1. AccessInv => NobodyForgotten
  <2> SUFFICES ASSUME AccessInv, NEW s \in active, CardsOf(list, s) # {}, cards[s] # CardsOf(list, s),
                      phase = "idle", ~(pending[s] > 0)
               PROVE  reading[s] = "clean"
    BY DEF NobodyForgotten
  <2>1. Renewed(s) /\ Listed(s) /\ ReaderTypes
    BY DEF AccessInv, Lasting, Types4
  <2>2. s \in Readers /\ pending[s] \in 0 .. MaxPending
    BY <2>1 DEF ReaderTypes, Readers
  <2>3. pending[s] = 0
    BY <2>2, Bounds
  <2> QED BY <2>1, <2>2, <2>3 DEF Renewed, Listed, ReaderTypes
<1> QED BY <1>1, AccessHolds, PTL

-----------------------------------------------------------------------------
(***************************************************************************)
(* The employees of the list are users, or the host is on the way to make  *)
(* them: the last that the plugin has sent are those of the list.          *)
(***************************************************************************)
HaveUsers(table, l) == \A e \in Keyed(l) : e.person \in DOMAIN table /\ table[e.person] = e.card

Told ==
  ~apart =>
    \/ phase # "idle" \/ pending[Plugin] > 0 \/ reading[Plugin] # "no"
    \/ posted # <<>> /\ posted[Len(posted)] = Keyed(list)
    \/ posted = <<>> /\ HaveUsers(users, list)

\* A person has one entry of a list.
LEMMA OnePerPerson ==
  ASSUME NEW l \in Lists \cup {{}}, NEW e \in Keyed(l)
  PROVE  (CHOOSE f \in Keyed(l) : f.person = e.person) = e
<1>1. \A f \in Keyed(l) : f.person = e.person => f = e
  BY ConstantsAssumption DEF Keyed
<1> QED BY <1>1

LEMMA TailEndsAlike ==
  ASSUME NEW S, NEW s \in Seq(S), s # <<>>, Len(s) # 1
  PROVE  Tail(s) # <<>> /\ Tail(s)[Len(Tail(s))] = s[Len(s)]
<1>1. PICK n \in Nat : n = Len(s)
  OBVIOUS
<1>2. n # 0 /\ n # 1
  BY <1>1
<1>3. Len(Tail(s)) = n - 1 /\ \A i \in 1 .. n - 1 : Tail(s)[i] = s[i + 1]
  BY <1>1
<1>4. n - 1 \in 1 .. n - 1 /\ (n - 1) + 1 = n /\ n - 1 # 0
  BY <1>2
<1>5. Tail(s)[n - 1] = s[n]
  BY <1>3, <1>4
<1>6. Tail(s) # <<>>
  BY <1>3, <1>4
<1> QED BY <1>1, <1>3, <1>5, <1>6

LEMMA UsersOfList ==
  ASSUME NEW l \in Lists \cup {{}}, NEW table,
         {e.person : e \in Keyed(l)} \subseteq DOMAIN table,
         \A e \in Keyed(l) : table[e.person] = (CHOOSE f \in Keyed(l) : f.person = e.person).card
  PROVE  HaveUsers(table, l)
  BY OnePerPerson DEF HaveUsers

LEMMA ToldStep ==
  ASSUME Lasting, Renewed(Plugin), Told, [Next]_vars
  PROVE  Told'
<1>1. ListTypes /\ ReaderTypes /\ UserTypes /\ Plugin \in Readers /\ Plugin \notin Systems
  BY Bounds DEF Lasting, Types4, Readers
<1>2. CASE UNCHANGED <<list, phase, pending, reading, posted, users, apart>>
  BY <1>2 DEF Told, HaveUsers
<1>3. CASE Answer \/ Save
  BY <1>3 DEF Answer, Save, Told
<1>4. CASE Tell
  <2>1. pending'[Plugin] = pending[Plugin] + 1 /\ pending[Plugin] \in 0 .. MaxPending
    BY <1>1, <1>4 DEF Tell, Receivers, ReaderTypes
  <2>2. pending'[Plugin] > 0
    BY <2>1, Bounds
  <2> QED BY <2>2 DEF Told
<1>5. ASSUME NEW r \in Readers, Reads(r) PROVE Told'
  <2>1. CASE r = Plugin
    <3>1. reading'[Plugin] = "clean"
      BY <1>1, <1>5, <2>1 DEF Reads, ReaderTypes
    <3> QED BY <3>1 DEF Told
  <2>2. CASE r # Plugin
    <3>1. /\ pending'[Plugin] = pending[Plugin] /\ reading'[Plugin] = reading[Plugin]
          /\ UNCHANGED <<list, phase, posted, users, apart>>
      BY <1>1, <1>5, <2>2 DEF Reads, ReaderTypes
    <3> QED BY <3>1 DEF Told, HaveUsers
  <2> QED BY <2>1, <2>2
<1>6. ASSUME NEW s \in Systems, Setup(s) \/ Filter(s) PROVE Told'
  <2>1. /\ reading'[Plugin] = reading[Plugin]
        /\ UNCHANGED <<list, phase, pending, posted, users, apart>>
    BY <1>1, <1>6 DEF Setup, Filter, ReaderTypes
  <2> QED BY <2>1 DEF Told, HaveUsers
<1>7. CASE Collect
  <2> SUFFICES ASSUME ~apart', phase' = "idle", pending'[Plugin] = 0
               PROVE  posted' # <<>> /\ posted'[Len(posted')] = Keyed(list')
    <3>1. pending'[Plugin] = pending[Plugin] /\ pending[Plugin] \in 0 .. MaxPending
      BY <1>1, <1>7 DEF Collect, ReaderTypes
    <3>2. ~(pending'[Plugin] > 0) => pending'[Plugin] = 0
      BY <3>1, Bounds
    <3> QED BY <3>2 DEF Told
  <2>1. reading[Plugin] = "clean"
    BY <1>1, <1>7 DEF Collect, Renewed, ReaderTypes
  <2>2. posted' = Append(posted, Keyed(list)) /\ list' = list
    BY <1>7, <2>1 DEF Collect, Found
  <2>3. posted \in Seq(SUBSET Entries) /\ Keyed(list) \in SUBSET Entries
    BY <1>1, EntriesOfLists DEF UserTypes, ListTypes
  <2> QED BY <2>2, <2>3
<1>8. CASE AddUsers
  <2>1. UNCHANGED <<list, phase, pending, reading, apart>>
    BY <1>8 DEF AddUsers, readers
  <2> SUFFICES ASSUME ~apart, phase = "idle", ~(pending[Plugin] > 0), reading[Plugin] = "no"
               PROVE  \/ posted' # <<>> /\ posted'[Len(posted')] = Keyed(list)
                      \/ posted' = <<>> /\ HaveUsers(users', list)
    BY <2>1 DEF Told
  <2>2. posted # <<>> /\ posted[Len(posted)] = Keyed(list) /\ posted' = Tail(posted)
    BY <1>8 DEF Told, AddUsers
  <2>3. posted \in Seq(SUBSET Entries)
    BY <1>1 DEF UserTypes
  <2>4. CASE Len(posted) = 1
    <3>1. posted' = <<>> /\ Head(posted) = Keyed(list)
      BY <2>2, <2>3, <2>4
    <3>2. users' = [p \in DOMAIN users \cup {e.person : e \in Keyed(list)} |->
                      IF \E e \in Keyed(list) : e.person = p
                      THEN (CHOOSE e \in Keyed(list) : e.person = p).card ELSE users[p]]
      BY <1>8, <3>1 DEF AddUsers, Added
    <3>3. HaveUsers(users', list)
      BY <1>1, <3>2, OnePerPerson DEF HaveUsers, ListTypes
    <3> QED BY <3>1, <3>3
  <2>5. CASE Len(posted) # 1
    <3>1. Tail(posted) # <<>> /\ Tail(posted)[Len(Tail(posted))] = posted[Len(posted)]
      BY <2>2, <2>3, <2>5, TailEndsAlike
    <3> QED BY <2>2, <3>1
  <2> QED BY <2>4, <2>5
<1>9. CASE Restart
  <2> SUFFICES ASSUME ~apart' PROVE posted' = <<>> /\ HaveUsers(users', list')
    BY DEF Told
  <2>1. ~apart /\ ~Behind /\ list' = list /\ users' = users /\ posted' = <<>>
    BY <1>9 DEF Restart
  <2>2. HaveUsers(users, list)
    BY <2>1 DEF Behind, Told
  <2> QED BY <2>1, <2>2
<1>10. CASE \E l \in Lists : ServerChanges(l)
  BY <1>2, <1>10 DEF ServerChanges, readers
<1>11. ASSUME NEW s \in Systems, (\E card \in Cards : Access(s, card)) \/ Counts(s) \/ ResetOutput(s)
       PROVE  Told'
  BY <1>2, <1>11 DEF Access, Counts, ResetOutput, readers
<1>12. CASE UNCHANGED vars
  BY <1>2, <1>12 DEF vars, readers
<1> QED BY <1>3, <1>4, <1>5, <1>6, <1>7, <1>8, <1>9, <1>10, <1>11, <1>12 DEF Next, Host, System

LEMMA ToldStart == Init => Told
<1> SUFFICES ASSUME Init PROVE Told
  OBVIOUS
<1>1. file \in Lists \cup {{}} /\ list = file /\ posted = <<>>
  BY DEF Init
<1>2. users = [p \in {e.person : e \in Keyed(list)} |-> (CHOOSE e \in Keyed(list) : e.person = p).card]
  BY <1>1 DEF Init
<1>3. /\ {e.person : e \in Keyed(list)} \subseteq DOMAIN users
      /\ \A e \in Keyed(list) : users[e.person] = (CHOOSE f \in Keyed(list) : f.person = e.person).card
  BY <1>2
<1>4. HaveUsers(users, list)
  BY <1>1, <1>3, UsersOfList
<1> QED BY <1>1, <1>4 DEF Told

\* Every employee of the list is a user with the card of the list, or has a card that
\* a later employee of the list has too, once plugin and host have handled what they
\* were told, unless the process ended before they had or without having saved it.
THEOREM EmployeesBecomeUsers == Spec => []EmployeesAreUsers
<1>1. AccessInv /\ Told /\ [Next]_vars => Told'
  BY ToldStep DEF AccessInv
<1>2. Spec => []Told
  BY <1>1, ToldStart, AccessHolds, PTL DEF Spec
<1>3. ASSUME AccessInv, Told, ~Behind, ~apart, NEW e \in list
      PROVE  \/ e.person \in DOMAIN users /\ users[e.person] = e.card
             \/ \E f \in list : f.card = e.card /\ f.person > e.person
  <2>1. HaveUsers(users, list)
    BY <1>3 DEF Told, Behind
  <2>2. \A f \in list : f.person \in Nat
    <3>1. list \in Lists \cup {{}}
      BY <1>3, TypesInParts DEF AccessInv, Lasting, TypeOK
    <3> QED
      BY <3>1, ConstantsAssumption DEF Entry
  <2>3. CASE e \in Keyed(list)
    BY <2>1, <2>3 DEF HaveUsers
  <2>4. CASE e \notin Keyed(list)
    BY <2>2, <2>4 DEF Keyed
  <2> QED
    BY <2>3, <2>4
<1>4. AccessInv /\ Told => EmployeesAreUsers
  BY <1>3 DEF EmployeesAreUsers
<1> QED BY <1>2, <1>4, AccessHolds, PTL
=============================================================================

-------------------------- MODULE UserSession_proofs --------------------------
(***************************************************************************)
(* Theorems about UserSession, for all users, levels and intervals: whose  *)
(* level a session has, that a session above the base level is timed, and  *)
(* that the page takes cards only for a dialog that waits for one.         *)
(*                                                                         *)
(* Everything rests on the base level being less than that of every user   *)
(* whenever it is up to date (BaseBelow, BaseIsOfUsers): only then does a  *)
(* login raise the level above it and start the timer.                     *)
(***************************************************************************)
EXTENDS UserSession, NaturalsInduction, WellFoundedInduction, FiniteSetTheorems, TLAPS

LEMMA Bounds ==
  /\ User \in Levels /\ Levels \subseteq 2 .. 9 /\ Interval \in Nat
  /\ NoUser # Default /\ NoUser \notin Ids /\ Default \notin Ids
  /\ NoUser \notin Forms /\ Ids \cap Forms = {}
  /\ NoCard \notin Cards
  BY ConstantsAssumption DEF User, Admin

LEMMA LeastNatural ==
  ASSUME NEW T \in SUBSET Nat, T # {}
  PROVE  \E x \in T : \A y \in T : x <= y
<1>1. PICK x \in T : \A y \in T : ~ (<<y, x>> \in OpToRel(<, Nat))
  BY NatLessThanWellFounded, WFMin
<1>2. \A y \in T : ~ (y < x)
  BY <1>1 DEF OpToRel
<1> QED BY <1>2

\* What is at most 0 can be added to a number without passing its bound.
LEMMA SumBelow ==
  ASSUME NEW n \in Nat, NEW m \in Nat, NEW k \in Nat, m <= k, n <= 0
  PROVE  m + n <= k
  OBVIOUS

-----------------------------------------------------------------------------
\* Tables of users: what they hold, and what changes them.
LEMMA TableHolds ==
  ASSUME NEW t \in Tables
  PROVE  /\ DOMAIN t \subseteq Ids
         /\ \A i \in DOMAIN t : t[i] \in Record /\ t[i].level \in 2 .. 9
<1>1. PICK S \in SUBSET Ids : t \in [S -> Record]
  BY DEF Tables
<1> QED BY <1>1, Bounds DEF Record

LEMMA TableOf ==
  ASSUME NEW S \in SUBSET Ids, NEW t \in [S -> Record]
  PROVE  t \in Tables
  BY DEF Tables

LEMMA PutTable ==
  ASSUME NEW t \in Tables, NEW id \in Ids, NEW r \in Record
  PROVE  Put(t, id, r) \in Tables /\ DOMAIN Put(t, id, r) = DOMAIN t \cup {id}
<1>1. Put(t, id, r) \in [DOMAIN t \cup {id} -> Record]
  BY TableHolds DEF Put
<1>2. DOMAIN t \cup {id} \in SUBSET Ids
  BY TableHolds
<1> QED BY <1>1, <1>2, TableOf DEF Put

LEMMA WithoutTable ==
  ASSUME NEW t \in Tables, NEW id \in Ids
  PROVE  Without(t, id) \in Tables /\ DOMAIN Without(t, id) = DOMAIN t \ {id}
<1>1. Without(t, id) \in [DOMAIN t \ {id} -> Record]
  BY TableHolds DEF Without
<1>2. DOMAIN t \ {id} \in SUBSET Ids
  BY TableHolds
<1> QED BY <1>1, <1>2, TableOf DEF Without

\* setBaseAccessLevel yields a level below that of every user.
LEMMA BaseBelow ==
  ASSUME NEW t \in Tables
  PROVE  BaseOf(t) \in 0 .. 9 /\ \A i \in DOMAIN t : BaseOf(t) < t[i].level
<1>1. CASE DOMAIN t = {}
  BY <1>1 DEF BaseOf, Admin
<1>2. CASE DOMAIN t # {}
  <2> DEFINE L == {t[i].level : i \in DOMAIN t}
             lowest == CHOOSE l \in L : \A i \in DOMAIN t : l <= t[i].level
  <2>1. L # {} /\ L \subseteq 2 .. 9
    BY <1>2, TableHolds
  <2>2. \E l \in L : \A y \in L : l <= y
    <3> HIDE DEF L
    <3> QED BY <2>1, LeastNatural
  <2>3. lowest \in L /\ \A i \in DOMAIN t : lowest <= t[i].level
    BY <2>2
  <2>4. lowest \in 2 .. 9
    BY <2>1, <2>3
  <2>5. BaseOf(t) = Larger(lowest - 1, 0)
    BY <1>2 DEF BaseOf
  <2> HIDE DEF lowest, L
  <2>6. BaseOf(t) = lowest - 1
    BY <2>4, <2>5 DEF Larger
  <2> QED BY <2>3, <2>4, <2>6, TableHolds
<1> QED BY <1>1, <1>2

-----------------------------------------------------------------------------
SessionTypes ==
  /\ current \in 0 .. 10 /\ name \in Ids \cup {NoUser, Default}
  /\ timer \in 0 .. Interval /\ idle \in 0 .. Interval

PageTypes ==
  /\ widgets \subseteq DOMAIN users /\ asking \subseteq widgets
  /\ dialog \in widgets \cup Forms \cup {NoUser} /\ waiting \in BOOLEAN

UsersTypes ==
  /\ users \in Tables /\ base \in 0 .. 9
  /\ stale \in BOOLEAN /\ basis \in Bases

LEMMA TypesInParts == TypeOK <=> UsersTypes /\ SessionTypes /\ PageTypes
  BY DEF TypeOK, UsersTypes, SessionTypes, PageTypes, Guest, Admin, DefaultLevel

LEMMA TypesInPartsNext == UsersTypes' /\ SessionTypes' /\ PageTypes' => TypeOK'
  BY DEF TypeOK, UsersTypes, SessionTypes, PageTypes, Guest, Admin, DefaultLevel

\* The timer never has more left than the interval lacks.
TimerCounts == timer + idle <= Interval

\* The base level is that of the users, but for an import since it was computed.
BaseIsOfUsers == ~stale => base = BaseOf(users)

\* A session that is "exact" was set when the base level was right, for a user
\* who is still there.
ExactIsFresh == basis = "exact" => ~stale /\ name \in DOMAIN users \cup {NoUser, Default}

SessionInv ==
  /\ TimerCounts /\ ExactIsFresh
  /\ LevelIsOfUser /\ LogoutWhenIdle /\ SessionIsTimed

IInv == TypeOK /\ BaseIsOfUsers /\ SessionInv

\* A level that a login may set is above an up to date base level.
LEMMA LevelAboveBase ==
  ASSUME UsersTypes, BaseIsOfUsers, NEW who \in DOMAIN users \cup {Default}
  PROVE  LevelOf(who) \in 0 .. 10 /\ (~stale => LevelOf(who) > base)
<1>1. base \in 0 .. 9 /\ BaseOf(users) \in 0 .. 9
  BY BaseBelow DEF UsersTypes
<1>2. CASE who = Default
  BY <1>1, <1>2 DEF LevelOf, DefaultLevel
<1>3. CASE who \in DOMAIN users /\ who # Default
  <2>1. users[who].level \in 2 .. 9 /\ BaseOf(users) < users[who].level
    BY <1>3, TableHolds, BaseBelow DEF UsersTypes
  <2> QED BY <1>1, <1>3, <2>1 DEF LevelOf, BaseIsOfUsers
<1> QED BY <1>2, <1>3

\* setAccessLevel sets a session as it should be, whoever logs in.
LEMMA LogInKeeps ==
  ASSUME IInv, NEW who \in DOMAIN users \cup {Default}, LogIn(who)
  PROVE  IInv'
<1> DEFINE level == LevelOf(who)
<1>1. UsersTypes /\ SessionTypes /\ PageTypes
  BY TypesInParts DEF IInv
<1>2. level \in 0 .. 10 /\ base \in 0 .. 9 /\ (~stale => level > base)
  BY <1>1, LevelAboveBase DEF IInv, UsersTypes
<1>3. /\ current' = LevelSet(level) /\ name' = who
      /\ timer' = TimerAt(LevelSet(level)) /\ idle' = 0
      /\ basis' = IF stale THEN "stale" ELSE "exact"
      /\ UNCHANGED <<users, base, widgets, asking, dialog, waiting, stale>>
  BY DEF LogIn, SetAccessLevel, page
<1>4. stale \in BOOLEAN /\ timer \in 0 .. Interval /\ Interval \in Nat
  BY <1>1, Bounds DEF UsersTypes, SessionTypes
<1> HIDE DEF level
<1>5. /\ current' \in 0 .. 10 /\ (~stale => current' = level)
      /\ timer' \in 0 .. Interval
      /\ ~stale /\ Interval > 0 => timer' = Interval
  BY <1>2, <1>3, <1>4 DEF LevelSet, TimerAt, Larger
<1>6. who \in Ids \cup {NoUser, Default} /\ who # NoUser
  BY <1>1, Bounds, TableHolds DEF UsersTypes
<1>7. TypeOK'
  <2>1. UsersTypes' /\ PageTypes'
    BY <1>1, <1>3, <1>4 DEF UsersTypes, PageTypes, Bases
  <2>2. SessionTypes'
    BY <1>3, <1>4, <1>5, <1>6 DEF SessionTypes
  <2> QED BY <2>1, <2>2, TypesInPartsNext
<1>8. BaseIsOfUsers'
  BY <1>3 DEF IInv, BaseIsOfUsers
<1>9. TimerCounts' /\ ExactIsFresh'
  BY <1>3, <1>4, <1>5 DEF TimerCounts, ExactIsFresh
<1>10. LevelIsOfUser'
  BY <1>3, <1>4, <1>5, <1>6 DEF LevelIsOfUser, LevelOf, level
<1>11. LogoutWhenIdle' /\ SessionIsTimed'
  BY <1>3, <1>4, <1>5 DEF LogoutWhenIdle, SessionIsTimed
<1> QED BY <1>7, <1>8, <1>9, <1>10, <1>11 DEF IInv, SessionInv

\* So does it when it logs out, or when the timer does.
LEMMA LogOutKeeps ==
  ASSUME IInv, LogOut \/ Timeout
  PROVE  IInv'
<1>1. UsersTypes /\ SessionTypes /\ PageTypes
  BY TypesInParts DEF IInv
<1>2. /\ base \in 0 .. 9 /\ stale \in BOOLEAN /\ timer \in 0 .. Interval /\ Interval \in Nat
      /\ ~stale => \A i \in DOMAIN users : base < users[i].level
  BY <1>1, BaseBelow, Bounds DEF IInv, UsersTypes, SessionTypes, BaseIsOfUsers
<1>3. /\ current' = base /\ name' = NoUser
      /\ timer' \in {0, timer} /\ idle' = 0
      /\ basis' = IF stale THEN "stale" ELSE "exact"
      /\ UNCHANGED <<users, base, widgets, asking, dialog, waiting, stale>>
  BY <1>2 DEF LogOut, Timeout, SetAccessLevel, page, LevelSet, TimerAt, Larger, Guest
<1>4. TypeOK'
  <2>1. UsersTypes' /\ PageTypes'
    BY <1>1, <1>2, <1>3 DEF UsersTypes, PageTypes, Bases
  <2>2. SessionTypes'
    BY <1>2, <1>3 DEF SessionTypes
  <2> QED BY <2>1, <2>2, TypesInPartsNext
<1>5. /\ BaseIsOfUsers'
      /\ TimerCounts' /\ ExactIsFresh'
  <2>1. BaseIsOfUsers'
    BY <1>3 DEF IInv, BaseIsOfUsers
  <2>2. TimerCounts'
    <3>1. timer' \in Nat /\ timer' <= Interval /\ Interval \in Nat
      BY <1>2, <1>3
    <3>2. idle' \in Nat /\ idle' <= 0
      BY <1>3
    <3>3. timer' + idle' <= Interval
      BY <3>1, <3>2, SumBelow
    <3> QED BY <3>3 DEF TimerCounts
  <2>3. ExactIsFresh'
    BY <1>2, <1>3 DEF ExactIsFresh
  <2> QED BY <2>1, <2>2, <2>3
<1>6. LevelIsOfUser'
  BY <1>2, <1>3 DEF LevelIsOfUser
<1>7. LogoutWhenIdle' /\ SessionIsTimed'
  BY <1>3 DEF LogoutWhenIdle, SessionIsTimed
<1> QED BY <1>4, <1>5, <1>6, <1>7 DEF IInv, SessionInv

\* Movements of the mouse and the passing of time.
LEMMA TimeKeeps ==
  ASSUME IInv, HoverMove \/ Counts
  PROVE  IInv'
<1>1. UsersTypes /\ SessionTypes /\ PageTypes
  BY TypesInParts DEF IInv
<1>2. /\ UNCHANGED <<users, base, current, name, widgets, asking, dialog, waiting, stale, basis>>
      /\ \/ timer' = TimerAt(current) /\ idle' = 0
         \/ timer > 1 /\ timer' = timer - 1 /\ idle' = idle + 1
  BY DEF HoverMove, Counts, page
<1>3. /\ timer \in 0 .. Interval /\ idle \in 0 .. Interval /\ Interval \in Nat
      /\ current \in 0 .. 10 /\ base \in 0 .. 9 /\ timer + idle <= Interval
  BY <1>1, Bounds DEF SessionTypes, UsersTypes, IInv, SessionInv, TimerCounts
<1>4. timer' \in 0 .. Interval /\ idle' \in 0 .. Interval /\ timer' + idle' <= Interval
  BY <1>2, <1>3 DEF TimerAt
<1>5. TypeOK'
  <2>1. UsersTypes' /\ PageTypes' /\ SessionTypes'
    BY <1>1, <1>2, <1>4 DEF UsersTypes, PageTypes, SessionTypes
  <2> QED BY <2>1, TypesInPartsNext
<1>6. BaseIsOfUsers' /\ TimerCounts' /\ ExactIsFresh'
  BY <1>2, <1>4 DEF IInv, SessionInv, BaseIsOfUsers, TimerCounts, ExactIsFresh
<1>7. LevelIsOfUser'
  BY <1>2 DEF IInv, SessionInv, LevelIsOfUser, LevelOf
<1>8. name # NoUser /\ basis = "exact" => current > base
  <2> SUFFICES ASSUME name # NoUser, basis = "exact" PROVE current > base
    OBVIOUS
  <2>1. ~stale /\ name \in DOMAIN users \cup {Default} /\ current = LevelOf(name)
    BY DEF IInv, SessionInv, ExactIsFresh, LevelIsOfUser
  <2> QED BY <2>1, <1>1, LevelAboveBase DEF IInv
<1>9. LogoutWhenIdle'
  <2>1. Interval > 0 /\ name # NoUser /\ basis = "exact" => timer = Interval - idle
    BY DEF IInv, SessionInv, LogoutWhenIdle
  <2>2. Interval > 0 /\ name # NoUser /\ basis = "exact" => timer' = Interval - idle'
    BY <1>2, <1>3, <1>8, <2>1 DEF TimerAt
  <2> QED BY <1>2, <2>2 DEF LogoutWhenIdle
<1>10. SessionIsTimed'
  <2>1. Interval > 0 /\ timer > 0 => timer' > 0
    BY <1>2, <1>3 DEF TimerAt
  <2> QED BY <1>2, <2>1 DEF IInv, SessionInv, SessionIsTimed
<1> QED BY <1>5, <1>6, <1>7, <1>9, <1>10 DEF IInv, SessionInv

\* A change of the users leaves the session alone, and is noted.
LEMMA UsersKeep ==
  ASSUME IInv, users' \in Tables, PageTypes', UNCHANGED session,
         basis' = IF basis = "exact" THEN "edited" ELSE basis,
         \/ base' = BaseOf(users') /\ stale' = FALSE
         \/ base' = base /\ stale' = TRUE
  PROVE  IInv'
<1>1. UsersTypes /\ SessionTypes
  BY TypesInParts DEF IInv
<1>2. base' \in 0 .. 9 /\ basis' # "exact" /\ basis' \in Bases /\ (basis' = "stale" <=> basis = "stale")
  BY <1>1, BaseBelow DEF UsersTypes, Bases
<1>3. UNCHANGED <<current, name, timer, idle>>
  BY DEF session
<1>4. TypeOK'
  <2>1. UsersTypes' /\ SessionTypes'
    BY <1>1, <1>2, <1>3 DEF UsersTypes, SessionTypes
  <2> QED BY <2>1, TypesInPartsNext
<1>5. BaseIsOfUsers' /\ TimerCounts' /\ ExactIsFresh'
  BY <1>2, <1>3 DEF IInv, SessionInv, BaseIsOfUsers, TimerCounts, ExactIsFresh
<1>6. LevelIsOfUser' /\ LogoutWhenIdle' /\ SessionIsTimed'
  BY <1>2, <1>3 DEF IInv, SessionInv, LevelIsOfUser, LogoutWhenIdle, SessionIsTimed
<1> QED BY <1>4, <1>5, <1>6 DEF IInv, SessionInv

\* Steps of the page that change no user.
LEMMA PageKeeps ==
  ASSUME IInv, PageTypes', UNCHANGED <<users, base, session, stale, basis>>
  PROVE  IInv'
<1>1. UsersTypes /\ SessionTypes
  BY TypesInParts DEF IInv
<1>2. UNCHANGED <<users, base, current, name, timer, idle, stale, basis>>
  BY DEF session
<1>3. UsersTypes' /\ SessionTypes'
  BY <1>1, <1>2 DEF UsersTypes, SessionTypes
<1>4. BaseIsOfUsers' /\ TimerCounts' /\ ExactIsFresh'
  BY <1>2 DEF IInv, SessionInv, BaseIsOfUsers, TimerCounts, ExactIsFresh
<1>5. LevelIsOfUser' /\ LogoutWhenIdle' /\ SessionIsTimed'
  BY <1>2 DEF IInv, SessionInv, LevelIsOfUser, LevelOf, LogoutWhenIdle, SessionIsTimed
<1> QED BY <1>3, <1>4, <1>5, TypesInPartsNext DEF IInv, SessionInv

-----------------------------------------------------------------------------
LEMMA StartKeeps ==
  ASSUME users \in Tables, Init
  PROVE  IInv
<1>1. /\ base = BaseOf(users) /\ current = base /\ name = NoUser
      /\ timer = Interval /\ idle = 0
      /\ widgets = DOMAIN users /\ asking = {} /\ dialog = NoUser /\ waiting = FALSE
      /\ stale = FALSE /\ basis = "exact"
  BY DEF Init
<1>2. base \in 0 .. 9 /\ (\A i \in DOMAIN users : base < users[i].level) /\ Interval \in Nat
  BY <1>1, BaseBelow, Bounds
<1>3. UsersTypes /\ SessionTypes /\ PageTypes
  <2>1. UsersTypes
    BY <1>1, <1>2 DEF UsersTypes, Bases
  <2>2. SessionTypes
    BY <1>1, <1>2 DEF SessionTypes
  <2>3. PageTypes
    BY <1>1 DEF PageTypes
  <2> QED BY <2>1, <2>2, <2>3
<1>4. BaseIsOfUsers /\ TimerCounts /\ ExactIsFresh
  BY <1>1, <1>2 DEF BaseIsOfUsers, TimerCounts, ExactIsFresh
<1>5. LevelIsOfUser /\ LogoutWhenIdle /\ SessionIsTimed
  BY <1>1, <1>2 DEF LevelIsOfUser, LogoutWhenIdle, SessionIsTimed
<1> QED BY <1>3, <1>4, <1>5, TypesInParts DEF IInv, SessionInv

LEMMA RestartKeeps ==
  ASSUME IInv, Restart
  PROVE  IInv'
<1>1. users \in Tables
  BY TypesInParts DEF IInv, UsersTypes
<1>2. /\ users' = users
      /\ base' = BaseOf(users) /\ current' = base' /\ name' = NoUser
      /\ timer' = Interval /\ idle' = 0
      /\ widgets' = DOMAIN users /\ asking' = {} /\ dialog' = NoUser /\ waiting' = FALSE
      /\ stale' = FALSE /\ basis' = "exact"
  BY DEF Restart
<1>3. base' \in 0 .. 9 /\ (\A i \in DOMAIN users : base' < users[i].level) /\ Interval \in Nat
  BY <1>1, <1>2, BaseBelow, Bounds
<1>4. UsersTypes' /\ SessionTypes' /\ PageTypes'
  <2>1. UsersTypes'
    BY <1>1, <1>2, <1>3 DEF UsersTypes, Bases
  <2>2. SessionTypes'
    BY <1>2, <1>3 DEF SessionTypes
  <2>3. PageTypes'
    BY <1>2 DEF PageTypes
  <2> QED BY <2>1, <2>2, <2>3
<1>5. BaseIsOfUsers' /\ TimerCounts' /\ ExactIsFresh'
  BY <1>2, <1>3 DEF BaseIsOfUsers, TimerCounts, ExactIsFresh
<1>6. LevelIsOfUser' /\ LogoutWhenIdle' /\ SessionIsTimed'
  BY <1>2, <1>3 DEF LevelIsOfUser, LogoutWhenIdle, SessionIsTimed
<1> QED BY <1>4, <1>5, <1>6, TypesInPartsNext DEF IInv, SessionInv

\* Users that are added, edited or deleted, by an administrator or the plugin.
LEMMA EditsKeep ==
  ASSUME IInv, NEW id \in Ids,
         \/ \E level \in Levels : AddUser(id, level) \/ EditLevel(id, level)
         \/ DeleteUser(id)
         \/ \E card \in Cards : UpdateUsers(id, card)
  PROVE  IInv'
<1>1. UsersTypes /\ PageTypes
  BY TypesInParts DEF IInv
<1>2. users \in Tables /\ NoUser \notin Ids
  BY <1>1, Bounds DEF UsersTypes
<1>3. ASSUME NEW level \in Levels, AddUser(id, level) PROVE IInv'
  <2>1. users' \in Tables
    BY <1>2, <1>3, PutTable DEF AddUser, Record
  <2>2. PageTypes'
    BY <1>1, <1>3 DEF AddUser, Refresh, PageTypes
  <2> QED BY <1>3, <2>1, <2>2, UsersKeep DEF AddUser, Rebase
<1>4. ASSUME NEW level \in Levels, EditLevel(id, level) PROVE IInv'
  <2>1. id \in DOMAIN users /\ users[id] \in Record
    BY <1>1, <1>2, <1>4, TableHolds DEF EditLevel, PageTypes
  <2>2. users' \in Tables /\ DOMAIN users' = DOMAIN users \cup {id}
    BY <1>2, <1>4, <2>1, PutTable DEF EditLevel, Record
  <2>3. PageTypes'
    BY <1>1, <1>4, <2>2 DEF EditLevel, page, PageTypes
  <2> QED BY <1>4, <2>2, <2>3, UsersKeep DEF EditLevel, Rebase
<1>5. ASSUME DeleteUser(id) PROVE IInv'
  <2>1. users' \in Tables /\ DOMAIN users' = DOMAIN users \ {id}
    BY <1>2, <1>5, WithoutTable DEF DeleteUser
  <2>2. PageTypes'
    BY <1>1, <1>5, <2>1 DEF DeleteUser, ByAdmin, RemoveRow, PageTypes
  <2> QED BY <1>5, <2>1, <2>2, UsersKeep DEF DeleteUser, Rebase
<1>6. ASSUME NEW card \in Cards, UpdateUsers(id, card) PROVE IInv'
  <2>1. [level |-> User, card |-> card] \in Record
    BY <1>6, Bounds DEF UpdateUsers, Record
  <2>2. users' \in Tables /\ DOMAIN users' = DOMAIN users \cup {id}
    BY <1>2, <1>6, <2>1, PutTable DEF UpdateUsers
  <2>3. PageTypes'
    BY <1>1, <1>6, <2>2 DEF UpdateUsers, page, PageTypes
  <2> QED BY <1>6, <2>2, <2>3, UsersKeep DEF UpdateUsers, Rebase
<1> QED BY <1>3, <1>4, <1>5, <1>6

LEMMA ImportKeeps ==
  ASSUME IInv, NEW option, NEW file \in Files, Import(option, file)
  PROVE  IInv'
<1>1. UsersTypes /\ PageTypes
  BY TypesInParts DEF IInv
<1>2. PICK S \in SUBSET Ids : file \in [S -> [level : Levels, card : {NoCard}]]
  BY DEF Files
<1>3. users \in Tables /\ DOMAIN users \subseteq Ids /\ \A i \in DOMAIN users : users[i] \in Record
  BY <1>1, TableHolds DEF UsersTypes
<1> DEFINE D == S \cup (IF option = "append" THEN DOMAIN users ELSE {})
<1>4. users' = [i \in D |-> IF option = "append" /\ i \in DOMAIN users THEN users[i] ELSE file[i]]
  BY <1>2 DEF Import, Imported
<1>5. D \in SUBSET Ids
  BY <1>3
<1>6. ASSUME NEW i \in D PROVE users'[i] \in Record
  <2>1. CASE option = "append" /\ i \in DOMAIN users
    BY <1>3, <1>4, <2>1
  <2>2. CASE ~(option = "append" /\ i \in DOMAIN users)
    <3>1. i \in S
      BY <2>2
    <3>2. file[i] \in [level : Levels, card : {NoCard}]
      BY <1>2, <3>1
    <3> QED BY <1>4, <2>2, <3>2 DEF Record
  <2> QED BY <2>1, <2>2
<1>7. users' \in [D -> Record]
  <2> HIDE DEF D
  <2> QED BY <1>4, <1>6
<1>8. users' \in Tables
  <2> HIDE DEF D
  <2> QED BY <1>5, <1>7, TableOf
<1>9. PageTypes'
  BY <1>1 DEF Import, Refresh, PageTypes
<1> QED BY <1>8, <1>9, UsersKeep DEF Import

\* The dialogs: waiting for a card, and what a card does then.
LEMMA EnrolmentKeeps ==
  ASSUME IInv,
         \/ \E form \in Forms : OpenForm(form)
         \/ \E id \in Ids : WaitForCard(id)
         \/ Cancel
         \/ \E card \in Cards : RefuseCard(card) \/ \E id \in Ids : EnrolCard(card, id)
  PROVE  IInv'
<1>1. UsersTypes /\ PageTypes
  BY TypesInParts DEF IInv
<1>2. ASSUME NEW id \in Ids, WaitForCard(id) PROVE IInv'
  <2>1. PageTypes'
    BY <1>1, <1>2 DEF WaitForCard, PageTypes
  <2> QED BY <1>2, <2>1, PageKeeps DEF WaitForCard
<1>3. ASSUME Cancel \/ \E card \in Cards : RefuseCard(card) PROVE IInv'
  <2>1. PageTypes' /\ UNCHANGED <<users, base, session, stale, basis>>
    BY <1>1, <1>3 DEF Cancel, RefuseCard, Closed, PageTypes
  <2> QED BY <2>1, PageKeeps
<1>4. ASSUME NEW card \in Cards, NEW id \in Ids, EnrolCard(card, id) PROVE IInv'
  <2>1. users \in Tables /\ id \in DOMAIN users /\ users[id] \in Record
    BY <1>1, <1>4, TableHolds DEF EnrolCard, UsersTypes, PageTypes
  <2>2. [users[id] EXCEPT !.card = card] \in Record
    BY <2>1 DEF Record
  <2>3. users' \in Tables /\ DOMAIN users' = DOMAIN users \cup {id}
    BY <1>4, <2>1, <2>2, PutTable DEF EnrolCard
  <2>4. PageTypes'
    BY <1>1, <1>4, <2>3 DEF EnrolCard, Closed, PageTypes
  <2> QED BY <1>4, <2>3, <2>4, UsersKeep DEF EnrolCard, Rebase
<1>5. ASSUME NEW form \in Forms, OpenForm(form) PROVE IInv'
  <2>1. PageTypes' /\ UNCHANGED <<users, base, session, stale, basis>>
    BY <1>1, <1>5 DEF OpenForm, PageTypes
  <2> QED BY <2>1, PageKeeps
<1> QED BY <1>2, <1>3, <1>4, <1>5

LEMMA Inductive == Init => IInv
  BY StartKeeps DEF Init

LEMMA Step == IInv /\ [Next]_vars => IInv'
<1> SUFFICES ASSUME IInv, [Next]_vars PROVE IInv'
  OBVIOUS
<1>1. ASSUME Operator PROVE IInv'
  <2>1. ASSUME NEW who \in DOMAIN users \cup {Default}, Password(who) PROVE IInv'
    BY <2>1, LogInKeeps DEF Password
  <2>2. CASE NoPassword
    BY <2>2, LogOutKeeps DEF NoPassword
  <2>3. CASE HoverMove
    BY <2>3, TimeKeeps
  <2>4. CASE \E id \in Ids, level \in Levels : AddUser(id, level) \/ EditLevel(id, level)
    BY <2>4, EditsKeep
  <2>5. ASSUME NEW id \in Ids, DeleteUser(id) \/ WaitForCard(id) PROVE IInv'
    BY <2>5, EditsKeep, EnrolmentKeeps
  <2>6. CASE Cancel
    BY <2>6, EnrolmentKeeps
  <2>7. ASSUME NEW option \in {"append", "replace"}, NEW file \in Files, Import(option, file)
        PROVE IInv'
    BY <2>7, ImportKeeps
  <2>8. CASE \E form \in Forms : OpenForm(form)
    BY <2>8, EnrolmentKeeps
  <2> QED BY <1>1, <2>1, <2>2, <2>3, <2>4, <2>5, <2>6, <2>7, <2>8 DEF Operator, Administrates
<1>2. ASSUME Reader PROVE IInv'
  <2>1. PICK card \in Cards :
          \/ CardLogsIn(card) \/ UnknownCard(card)
          \/ \E id \in Ids : EnrolCard(card, id)
          \/ RefuseCard(card)
    BY <1>2 DEF Reader
  <2>2. CASE CardLogsIn(card)
    BY <2>2, LogInKeeps DEF CardLogsIn, Uses
  <2>3. CASE UnknownCard(card)
    BY <2>3, LogOutKeeps DEF UnknownCard
  <2>4. CASE RefuseCard(card) \/ \E id \in Ids : EnrolCard(card, id)
    BY <2>4, EnrolmentKeeps
  <2> QED BY <2>1, <2>2, <2>3, <2>4
<1>3. CASE Counts
  BY <1>3, TimeKeeps
<1>4. CASE Timeout \/ SetLevelValue
  BY <1>4, LogOutKeeps DEF SetLevelValue
<1>5. ASSUME NEW id \in Ids, NEW card \in Cards, UpdateUsers(id, card) PROVE IInv'
  BY <1>5, EditsKeep
<1>6. CASE Restart
  BY <1>6, RestartKeeps
<1>7. CASE UNCHANGED vars
  <2>1. UNCHANGED <<users, base, session, page, stale, basis>>
    BY <1>7 DEF vars
  <2>2. PageTypes'
    BY <2>1, TypesInParts DEF IInv, PageTypes, page
  <2> QED BY <2>1, <2>2, PageKeeps
<1> QED BY <1>1, <1>2, <1>3, <1>4, <1>5, <1>6, <1>7 DEF Next

-----------------------------------------------------------------------------
LEMMA Invariance == Spec => []IInv
  BY Inductive, Step, PTL DEF Spec

\* Type correctness, for all users, levels and intervals.
THEOREM TypeCorrect == Spec => []TypeOK
<1>1. IInv => TypeOK
  BY DEF IInv
<1> QED BY <1>1, Invariance, PTL

\* While the users are those of the login, who is logged in has the level of that
\* user, and who is not has less than any user: logging out never leaves a level,
\* though setAccessLevel only knows the base level.
THEOREM LevelsKept == Spec => []LevelIsOfUser
<1>1. IInv => LevelIsOfUser
  BY DEF IInv, SessionInv
<1> QED BY <1>1, Invariance, PTL

\* The logout timer measures from the last login or movement of the mouse, also
\* after sessions that it did not end.
THEOREM LogsOutWhenIdle == Spec => []LogoutWhenIdle
<1>1. IInv => LogoutWhenIdle
  BY DEF IInv, SessionInv
<1> QED BY <1>1, Invariance, PTL

\* No login on an up to date base level is without a running logout timer,
\* whatever is done to the users while it lasts.
THEOREM SessionsAreTimed == Spec => []SessionIsTimed
<1>1. IInv => SessionIsTimed
  BY DEF IInv, SessionInv
<1> QED BY <1>1, Invariance, PTL

\* A step that changes nothing of the page, or opens or closes a dialog as the code does.
LEMMA DialogKept ==
  ASSUME IInv, DialogIsServed, [Next]_vars
  PROVE  DialogIsServed'
<1>1. /\ NoUser \notin Ids /\ NoUser \notin Forms /\ Ids \cap Forms = {}
      /\ widgets \subseteq Ids /\ asking \subseteq Ids
  BY Bounds, TypesInParts, TableHolds DEF IInv, UsersTypes, PageTypes
<1>2. UNCHANGED page => DialogIsServed'
  BY DEF DialogIsServed, page
<1>3. dialog' = NoUser /\ waiting' = FALSE => DialogIsServed'
  BY <1>1 DEF DialogIsServed
<1>4. CASE UNCHANGED vars \/ Restart
  BY <1>2, <1>3, <1>4 DEF vars, Restart
<1>5. ASSUME Operator PROVE DialogIsServed'
  <2>1. CASE HoverMove \/ NoPassword \/ \E who \in DOMAIN users \cup {Default} : Password(who)
    BY <1>2, <2>1 DEF HoverMove, NoPassword, Password, LogIn, LogOut, SetAccessLevel
  <2>2. ASSUME NEW id \in Ids, NEW level \in Levels, AddUser(id, level) PROVE DialogIsServed'
    BY <1>1, <2>2 DEF AddUser, Refresh, Forms, DialogIsServed
  <2>3. ASSUME NEW id \in Ids, NEW level \in Levels, EditLevel(id, level) PROVE DialogIsServed'
    BY <1>2, <2>3 DEF EditLevel
  <2>4. ASSUME NEW id \in Ids, DeleteUser(id) PROVE DialogIsServed'
    <3>1. dialog = NoUser /\ UNCHANGED <<dialog, waiting>>
      BY <2>4 DEF DeleteUser, ByAdmin
    <3> QED BY <1>1, <3>1 DEF DialogIsServed
  <2>5. ASSUME NEW id \in Ids, WaitForCard(id) PROVE DialogIsServed'
    BY <2>5 DEF WaitForCard, DialogIsServed
  <2>6. ASSUME NEW form \in Forms, OpenForm(form) PROVE DialogIsServed'
    <3>1. dialog = NoUser /\ dialog' = form /\ UNCHANGED waiting
      BY <2>6 DEF OpenForm, ByAdmin
    <3> QED BY <1>1, <3>1 DEF DialogIsServed
  <2>7. CASE Cancel
    BY <1>3, <2>7 DEF Cancel
  <2>8. ASSUME NEW option, NEW file, Import(option, file) PROVE DialogIsServed'
    BY <1>1, <2>8 DEF Import, Refresh, Forms, DialogIsServed
  <2> QED BY <1>5, <2>1, <2>2, <2>3, <2>4, <2>5, <2>6, <2>7, <2>8 DEF Operator, Administrates
<1>6. ASSUME Reader PROVE DialogIsServed'
  <2>1. PICK card \in Cards :
          \/ CardLogsIn(card) \/ UnknownCard(card)
          \/ \E id \in Ids : EnrolCard(card, id)
          \/ RefuseCard(card)
    BY <1>6 DEF Reader
  <2>2. CASE CardLogsIn(card) \/ UnknownCard(card)
    BY <1>2, <2>2 DEF CardLogsIn, UnknownCard, LogIn, LogOut, SetAccessLevel
  <2>3. CASE RefuseCard(card) \/ \E id \in Ids : EnrolCard(card, id)
    <3>1. waiting /\ waiting' = FALSE /\ dialog' = Closed
      BY <2>3 DEF RefuseCard, EnrolCard
    <3>2. dialog' = NoUser
      BY <3>1 DEF DialogIsServed, Closed
    <3> QED BY <1>3, <3>1, <3>2
  <2> QED BY <2>1, <2>2, <2>3
<1>7. CASE Counts \/ Timeout \/ SetLevelValue \/ \E id \in Ids, card \in Cards : UpdateUsers(id, card)
  BY <1>2, <1>7 DEF Counts, Timeout, SetLevelValue, LogOut, SetAccessLevel, UpdateUsers
<1> QED BY <1>4, <1>5, <1>6, <1>7 DEF Next

\* The page takes a card exactly while the dialog of a row is open, and that row
\* asks for it: no list of the plugin, deleted row or card of another row that
\* still asks leaves a dialog that no card closes, or a page that takes the card
\* of somebody who wants to log in.
THEOREM DialogsAreServed == Spec => []DialogIsServed
<1>1. Init => DialogIsServed
  BY Bounds DEF Init, DialogIsServed
<1>2. IInv /\ DialogIsServed /\ [Next]_vars => DialogIsServed'
  BY DialogKept
<1> QED BY <1>1, <1>2, Invariance, PTL DEF Spec
=============================================================================

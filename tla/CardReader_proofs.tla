-------------------------- MODULE CardReader_proofs --------------------------
(***************************************************************************)
(* Theorems about CardReader: with every fault, type correctness and that  *)
(* login and logout alternate; with one fault of any kind, or with any     *)
(* number of them that are not late, that a login carries a serial number  *)
(* asked for in the same poll, and that whoever is logged in is the card   *)
(* the reader speaks of.                                                   *)
(***************************************************************************)
EXTENDS CardReader, SequenceTheorems, TLAPS

LEMMA ShortLists ==
  ASSUME NEW x, NEW y
  PROVE  /\ Append(<<>>, x) = <<x>> /\ Append(<<x>>, y) = <<x, y>>
         /\ Head(<<x>>) = x /\ Tail(<<x>>) = <<>> /\ Head(<<x, y>>) = x /\ Tail(<<x, y>>) = <<y>>
         /\ <<x>> # <<>> /\ <<x, y>> # <<>>
<1>1. Append(<<>>, x) = <<x>> /\ Append(<<x>>, y) = <<x, y>>
  <2> DEFINE s == Append(<<x>>, y)
  <2>1. <<x>> \in Seq({x, y}) /\ Len(<<x>>) = 1 /\ <<x>>[1] = x
    OBVIOUS
  <2>2. s \in Seq({x, y}) /\ Len(s) = 2 /\ s[1] = x /\ s[2] = y
    BY <2>1
  <2>3. <<x, y>> \in Seq({x, y}) /\ Len(<<x, y>>) = 2 /\ <<x, y>>[1] = x /\ <<x, y>>[2] = y
    OBVIOUS
  <2> DEFINE t == <<x, y>>
  <2> HIDE DEF s, t
  <2>4. s \in Seq({x, y}) /\ t \in Seq({x, y}) /\ Len(s) = Len(t) /\ \A i \in 1 .. Len(s) : s[i] = t[i]
    BY <2>2, <2>3 DEF t
  <2>5. s = t
    BY <2>4, SeqEqual
  <2>6. Append(<<>>, x) = <<x>>
    OBVIOUS
  <2> QED BY <2>5, <2>6 DEF s, t
<1>2. Head(<<x>>) = x /\ Tail(<<x>>) = <<>>
  OBVIOUS
<1>3. Head(<<x, y>>) = x /\ Tail(<<x, y>>) = <<y>>
  OBVIOUS
<1>4. <<x>> # <<>> /\ <<x, y>> # <<>>
  OBVIOUS
<1> QED BY <1>1, <1>2, <1>3, <1>4

LEMMA Bounds == MaxFaults \in Nat /\ MaxMoves \in Nat /\ NoCard \notin Cards
  BY ConstantsAssumption

\* What is left to send in a poll is never a question to the card.
Rest == Seq({"port", "reset"})

Types == TypeOK /\ todo \in Rest

\* How a step of checkID ends: with the next command on the line, or with the
\* poll; the serial number is asked for only after a card was selected.
LEMMA SendsList ==
  ASSUME NEW cs, NEW rest, Sends(cs, rest),
         \/ cs = <<>>
         \/ \E first \in Commands : \E others \in Rest :
              cs # <<>> /\ Head(cs) = first /\ Tail(cs) = others
  PROVE  /\ todo' \in Rest
         /\ \/ cs = <<>> /\ waiting' = "none" /\ commands' = rest
            \/ /\ cs # <<>> /\ waiting' = Head(cs) /\ waiting' \in Commands
               /\ commands' = Append(rest, [cmd |-> waiting', old |-> FALSE])
<1>1. CASE cs = <<>>
  <2>1. <<>> \in Rest
    BY DEF Rest
  <2> QED BY <1>1, <2>1 DEF Sends
<1>2. CASE cs # <<>>
  BY <1>2 DEF Sends
<1> QED BY <1>1, <1>2

LEMMA OneOrTwo ==
  ASSUME NEW c \in Commands, NEW d \in {"port", "reset"}
  PROVE  /\ <<c>> # <<>> /\ Head(<<c>>) = c /\ Tail(<<c>>) \in Rest
         /\ <<c, d>> # <<>> /\ Head(<<c, d>>) = c /\ Tail(<<c, d>>) \in Rest
<1>1. Tail(<<c>>) = <<>> /\ Tail(<<c, d>>) = <<d>>
  BY ShortLists
<1>2. <<>> \in Rest /\ <<d>> \in Rest
  BY DEF Rest
<1> QED BY <1>1, <1>2, ShortLists

LEMMA AfterStep ==
  ASSUME Types, NEW status, NEW card, NEW rest, After(status, card, rest)
  PROVE  /\ todo' \in Rest
         /\ \/ waiting' = "none" /\ commands' = rest
            \/ /\ waiting' \in Commands
               /\ commands' = Append(rest, [cmd |-> waiting', old |-> FALSE])
         /\ waiting' = "snr" => waiting = "select" /\ status = "ok"
<1> DEFINE Goal(cs) ==
             \/ cs = <<>>
             \/ \E first \in Commands : \E others \in Rest :
                  cs # <<>> /\ Head(cs) = first /\ Tail(cs) = others
<1>0. {"port", "reset", "snr"} \subseteq Commands
  BY DEF Commands
<1>1. Goal(<<>>) /\ Goal(<<"snr">>) /\ Goal(<<"reset">>) /\ Goal(<<"port">>)
      /\ Goal(<<"port", "port">>) /\ Goal(<<"port", "reset">>)
  BY <1>0, OneOrTwo
<1>2. Goal(todo) /\ (todo # <<>> => Head(todo) \in {"port", "reset"})
  <2>1. todo \in Seq({"port", "reset"})
    BY DEF Types, Rest
  <2>2. todo # <<>> => Head(todo) \in {"port", "reset"} /\ Tail(todo) \in Seq({"port", "reset"})
    BY <2>1
  <2> QED BY <1>0, <2>2 DEF Rest
<1>3. Head(<<"snr">>) = "snr" /\ Head(<<"reset">>) = "reset" /\ Head(<<"port">>) = "port"
      /\ Head(<<"port", "port">>) = "port" /\ Head(<<"port", "reset">>) = "port"
  BY ShortLists
<1> HIDE DEF Goal
<1>4. ASSUME NEW cs, Goal(cs), Sends(cs, rest),
             cs # <<>> /\ Head(cs) = "snr" => waiting = "select" /\ status = "ok"
      PROVE  /\ todo' \in Rest
             /\ \/ waiting' = "none" /\ commands' = rest
                \/ /\ waiting' \in Commands
                   /\ commands' = Append(rest, [cmd |-> waiting', old |-> FALSE])
             /\ waiting' = "snr" => waiting = "select" /\ status = "ok"
  <2>1. /\ todo' \in Rest
        /\ \/ cs = <<>> /\ waiting' = "none" /\ commands' = rest
           \/ /\ cs # <<>> /\ waiting' = Head(cs) /\ waiting' \in Commands
              /\ commands' = Append(rest, [cmd |-> waiting', old |-> FALSE])
    BY <1>4, SendsList DEF Goal
  <2> QED BY <1>4, <2>1
<1>5. CASE waiting = "select" /\ AfterSelect(status, rest)
  <2>1. PICK cs : /\ Sends(cs, rest)
                  /\ \/ cs = <<"snr">> /\ status = "ok"
                     \/ cs = <<"reset">> \/ cs = <<>>
    BY <1>5 DEF AfterSelect
  <2> QED BY <1>1, <1>3, <1>4, <1>5, <2>1
<1>6. CASE waiting = "snr" /\ AfterSnr(status, card, rest)
  <2>1. PICK cs : Sends(cs, rest) /\ cs \in {<<"port", "port">>, <<"reset">>, <<>>}
    BY <1>6 DEF AfterSnr
  <2> QED BY <1>1, <1>3, <1>4, <2>1
<1>7. CASE waiting = "selected" /\ AfterSelected(status, rest)
  <2>1. PICK cs : Sends(cs, rest) /\ cs \in {<<>>, <<"port", "reset">>, <<"port">>}
    BY <1>7 DEF AfterSelected
  <2> QED BY <1>1, <1>3, <1>4, <2>1
<1>8. CASE waiting \in {"port", "reset"} /\ AfterOther(rest)
  BY <1>2, <1>4, <1>8 DEF AfterOther
<1> QED BY <1>5, <1>6, <1>7, <1>8 DEF After
-----------------------------------------------------------------------------
LEMMA OutdatedTypes ==
  ASSUME NEW cs \in Seq(Command)
  PROVE  Outdated(cs) \in Seq(Command)
<1>1. ASSUME NEW i \in 1 .. Len(cs) PROVE [cs[i] EXCEPT !.old = TRUE] \in Command
  <2>1. cs[i] \in Command
    BY ElementOfSeq
  <2> QED BY <2>1 DEF Command
<1>2. Outdated(cs) = [i \in 1 .. Len(cs) |-> [cs[i] EXCEPT !.old = TRUE]]
  BY DEF Outdated
<1> QED BY <1>1, <1>2

LEMMA SentTypes ==
  ASSUME Types, NEW status, NEW card \in Cards \cup {NoCard}, NEW rest \in Seq(Command),
         After(status, card, rest)
  PROVE  /\ todo' \in Rest /\ waiting' \in Commands \cup {"none"}
         /\ commands' \in Seq(Command)
         /\ user' \in Cards \cup {NoCard} /\ open' \in BOOLEAN /\ detected' \in BOOLEAN
<1>1. /\ todo' \in Rest
      /\ \/ waiting' = "none" /\ commands' = rest
         \/ /\ waiting' \in Commands
            /\ commands' = Append(rest, [cmd |-> waiting', old |-> FALSE])
  BY AfterStep
<1>2. commands' \in Seq(Command)
  <2>1. CASE waiting' \in Commands
    <3>1. [cmd |-> waiting', old |-> FALSE] \in Command
      BY <2>1 DEF Command
    <3> QED BY <1>1, <3>1
  <2> QED BY <1>1, <2>1
<1>3. user' \in Cards \cup {NoCard} /\ open' \in BOOLEAN /\ detected' \in BOOLEAN
  <2>1. CASE waiting = "select" /\ AfterSelect(status, rest)
    BY <2>1 DEF Types, TypeOK, AfterSelect
  <2>2. CASE waiting = "snr" /\ AfterSnr(status, card, rest)
    BY <2>2 DEF Types, TypeOK, AfterSnr, DetectedAfterSnr, UserAfterSnr
  <2>3. CASE waiting = "selected" /\ AfterSelected(status, rest)
    BY <2>3 DEF Types, TypeOK, AfterSelected, StaysLoggedIn
  <2>4. CASE waiting \in {"port", "reset"} /\ AfterOther(rest)
    BY <2>4 DEF Types, TypeOK, AfterOther
  <2> QED BY <2>1, <2>2, <2>3, <2>4 DEF After
<1> QED BY <1>1, <1>2, <1>3

\* What comes back for a command is of its code and age, unless it is lost.
LEMMA Executed ==
  ASSUME Types, NEW c \in Command, Executes(c)
  PROVE  /\ selected' \in Cards \cup {NoCard}
         /\ \/ \E y \in Answer : y.cmd = c.cmd /\ y.old = c.old /\ inbox' = Append(inbox, y)
            \/ inbox' = inbox /\ May("lost")
         /\ faults' \in 0 .. MaxFaults /\ faults' >= faults
<1>1. selected' \in Cards \cup {NoCard}
  BY DEF Executes, Types, TypeOK
<1>2. ASSUME NEW s \in {"ok", "none", "unknown", "garbled"}, NEW card \in Cards \cup {NoCard}
      PROVE  Reply(c, s, card) \in Answer /\ Reply(c, s, card).cmd = c.cmd /\ Reply(c, s, card).old = c.old
  BY DEF Reply, Answer, Command
<1>3. \/ \E s \in {"ok", "none", "unknown", "garbled"}, card \in Cards \cup {NoCard} :
           inbox' = Append(inbox, Reply(c, s, card))
      \/ inbox' = inbox /\ May("lost")
  <2>1. CASE inbox' = Append(inbox,
               CASE c.cmd \in {"port", "reset"} -> Reply(c, "ok", NoCard)
                 [] selected' = NoCard -> Reply(c, "none", NoCard)
                 [] OTHER -> Reply(c, "ok", selected'))
    BY <1>1, <2>1
  <2> QED BY <2>1 DEF Executes
<1>4. faults' \in 0 .. MaxFaults /\ faults' >= faults
  BY Bounds DEF Executes, May, Types, TypeOK
<1> QED BY <1>1, <1>2, <1>3, <1>4

LEMMA TypesInit == Init => Types
<1> SUFFICES ASSUME Init PROVE Types
  OBVIOUS
<1>1. todo \in Rest /\ todo \in Seq(Commands)
  BY DEF Init, Rest
<1>2. commands \in Seq(Command) /\ inbox \in Seq(Answer)
  BY DEF Init
<1>3. {field, selected, user} \subseteq Cards \cup {NoCard}
  BY DEF Init
<1>4. open \in BOOLEAN /\ detected \in BOOLEAN
  BY DEF Init
<1>5. waiting \in Commands \cup {"none"}
  BY DEF Init
<1>6. faults \in 0 .. MaxFaults /\ moves \in 0 .. MaxMoves
  <2>1. faults = 0 /\ moves = 0
    BY DEF Init
  <2> QED BY <2>1, Bounds
<1> QED BY <1>1, <1>2, <1>3, <1>4, <1>5, <1>6 DEF Types, TypeOK

LEMMA TypesNext == Types /\ [Next]_vars => Types'
<1> SUFFICES ASSUME Types, [Next]_vars PROVE Types'
  OBVIOUS
<1>1. ASSUME NEW card \in Cards, CardEnters(card) PROVE Types'
  BY <1>1, Bounds DEF CardEnters, Types, TypeOK, host, line
<1>2. CASE CardLeaves
  BY <1>2 DEF CardLeaves, Types, TypeOK, host, line
<1>3. CASE ReaderAnswers
  <2>1. Head(commands) \in Command /\ Tail(commands) \in Seq(Command)
    <3>1. commands \in Seq(Command) /\ commands # <<>>
      BY <1>3 DEF ReaderAnswers, Types, TypeOK
    <3> QED BY <3>1, HeadTailProperties
  <2>2. Executes(Head(commands)) /\ commands' = Tail(commands)
        /\ UNCHANGED <<field, host, moves>>
    BY <1>3 DEF ReaderAnswers
  <2>3. inbox' \in Seq(Answer)
    <3>1. inbox \in Seq(Answer)
      BY DEF Types, TypeOK
    <3>2. (\E y \in Answer : inbox' = Append(inbox, y)) \/ inbox' = inbox
      BY <2>1, <2>2, Executed
    <3> QED BY <3>1, <3>2
  <2>4. selected' \in Cards \cup {NoCard} /\ faults' \in 0 .. MaxFaults
    BY <2>1, <2>2, Executed
  <2> QED BY <2>1, <2>2, <2>3, <2>4 DEF Types, TypeOK, host
<1>4. CASE Reopen
  BY <1>4 DEF Reopen, Types, TypeOK, line
<1>5. CASE Poll
  <2>1. Sends(<<Question>>, commands) /\ Question \in Commands
    BY <1>5 DEF Poll, Question, Commands
  <2>2. <<Question>> # <<>> /\ Head(<<Question>>) = Question /\ Tail(<<Question>>) = <<>>
    BY ShortLists
  <2>3. /\ waiting' \in Commands /\ todo' \in Rest
        /\ commands' = Append(commands, [cmd |-> Question, old |-> FALSE])
    BY <2>1, <2>2 DEF Sends, Rest
  <2>4. commands' \in Seq(Command)
    <3>1. [cmd |-> Question, old |-> FALSE] \in Command
      BY <2>1 DEF Command
    <3> QED BY <2>3, <3>1 DEF Types, TypeOK
  <2>5. Rest \subseteq Seq(Commands)
    BY DEF Rest, Commands
  <2> QED BY <1>5, <2>3, <2>4, <2>5 DEF Poll, Types, TypeOK
<1>6. ASSUME NEW status, NEW card \in Cards \cup {NoCard}, NEW rest \in Seq(Command),
             After(status, card, rest), UNCHANGED <<field, selected, moves>>,
             inbox' \in Seq(Answer), faults' \in 0 .. MaxFaults
      PROVE  Types'
  <2>1. Rest \subseteq Seq(Commands)
    BY DEF Rest, Commands
  <2>2. /\ todo' \in Rest /\ waiting' \in Commands \cup {"none"}
        /\ commands' \in Seq(Command)
        /\ user' \in Cards \cup {NoCard} /\ open' \in BOOLEAN /\ detected' \in BOOLEAN
    BY <1>6, SentTypes
  <2> QED BY <1>6, <2>1, <2>2 DEF Types, TypeOK
<1>7. CASE Read
  <2>1. Head(inbox).card \in Cards \cup {NoCard}
    <3>1. inbox \in Seq(Answer) /\ inbox # <<>>
      BY <1>7 DEF Read, Types, TypeOK
    <3>2. Head(inbox) \in Answer
      BY <3>1, HeadTailProperties
    <3> QED BY <3>2 DEF Answer
  <2>2. Outdated(commands) \in Seq(Command)
    BY OutdatedTypes DEF Types, TypeOK
  <2>3. inbox' \in Seq(Answer) /\ faults' \in 0 .. MaxFaults
    BY <1>7 DEF Read, Types, TypeOK
  <2> QED BY <1>6, <1>7, <2>1, <2>2, <2>3 DEF Read
<1>8. CASE TimesOut
  <2>1. Outdated(commands) \in Seq(Command)
    BY OutdatedTypes DEF Types, TypeOK
  <2>2. inbox' \in Seq(Answer) /\ faults' \in 0 .. MaxFaults
    BY <1>8, Bounds DEF TimesOut, May, Types, TypeOK
  <2> QED BY <1>6, <1>8, <2>1, <2>2 DEF TimesOut
<1>9. CASE WriteFails
  <2>1. SubSeq(commands, 1, Len(commands) - 1) \in Seq(Command)
    BY DEF Types, TypeOK
  <2>2. Outdated(SubSeq(commands, 1, Len(commands) - 1)) \in Seq(Command)
    BY <2>1, OutdatedTypes
  <2>3. inbox' \in Seq(Answer) /\ faults' \in 0 .. MaxFaults
    BY <1>9, Bounds DEF WriteFails, May, Types, TypeOK
  <2> QED BY <1>6, <1>9, <2>2, <2>3 DEF WriteFails
<1>10. CASE UNCHANGED vars
  BY <1>10 DEF vars, Types, TypeOK, host, line
<1> QED BY <1>1, <1>2, <1>3, <1>4, <1>5, <1>7, <1>8, <1>9, <1>10 DEF Next

LEMMA TypesInvariant == Spec => []Types
BY TypesInit, TypesNext, PTL DEF Spec

\* The type invariant holds for all cards, every bound and every fault.
THEOREM TypeCorrect == Spec => []TypeOK
<1>1. Types => TypeOK
  BY DEF Types
<1> QED BY <1>1, TypesInvariant, PTL
-----------------------------------------------------------------------------
\* What is on the line and in the buffer, oldest first: what the host waits
\* for, and before it at most one command or answer it no longer waits for.
\* Where the host asks for the serial number, that one is from a search.
Awaited(c) == ~c.old /\ c.cmd = waiting
Overtaken(o) == o.old /\ (waiting = "snr" => o.cmd = "select") /\ faults >= MaxFaults

One(c) ==
  \/ commands = <<c>> /\ inbox = <<>>
  \/ commands = <<>> /\ inbox = <<c>>
Two(o, c) ==
  \/ commands = <<o, c>> /\ inbox = <<>>
  \/ commands = <<c>> /\ inbox = <<o>>
  \/ commands = <<>> /\ inbox = <<o, c>>

LineInv ==
  \/ commands = <<>> /\ inbox = <<>>
  \/ waiting = "none" /\ \E o : Overtaken(o) /\ One(o)
  \/ waiting # "none" /\ \E c : Awaited(c) /\ One(c)
  \/ waiting # "none" /\ \E o, c : Overtaken(o) /\ Awaited(c) /\ Two(o, c)

LEMMA OutdatedOne ==
  ASSUME NEW c \in Command
  PROVE  /\ Outdated(<<>>) = <<>>
         /\ Outdated(<<c>>) = <<[c EXCEPT !.old = TRUE]>>
         /\ [c EXCEPT !.old = TRUE].old /\ [c EXCEPT !.old = TRUE].cmd = c.cmd
<1>1. Outdated(<<>>) = <<>>
  BY DEF Outdated
<1>2. Outdated(<<c>>) = <<[c EXCEPT !.old = TRUE]>>
  <2> DEFINE out == Outdated(<<c>>)
             d == [c EXCEPT !.old = TRUE]
  <2>1. <<c>> \in Seq(Command) /\ DOMAIN <<c>> = 1 .. 1 /\ <<c>>[1] = c
    OBVIOUS
  <2>2. out \in Seq(Command)
    BY <2>1, OutdatedTypes
  <2>3. DOMAIN out = 1 .. 1 /\ out[1] = d
    <3>1. out = [i \in DOMAIN <<c>> |-> [<<c>>[i] EXCEPT !.old = TRUE]]
      BY DEF Outdated
    <3>2. 1 \in DOMAIN <<c>>
      BY <2>1
    <3>3. out[1] = [<<c>>[1] EXCEPT !.old = TRUE] /\ DOMAIN out = DOMAIN <<c>>
      BY <3>1, <3>2, Zenon
    <3> QED BY <2>1, <3>3
  <2> HIDE DEF out, d
  <2>4. Len(out) = 1 /\ d \in Command
    BY <2>2, <2>3
  <2>5. <<d>> \in Seq(Command) /\ Len(<<d>>) = 1 /\ <<d>>[1] = d
    BY <2>4
  <2>6. \A i \in 1 .. Len(out) : out[i] = <<d>>[i]
    BY <2>3, <2>4, <2>5
  <2>7. out = <<d>>
    BY <2>2, <2>4, <2>5, <2>6, SeqEqual
  <2> QED BY <2>7 DEF out, d
<1>3. [c EXCEPT !.old = TRUE].old /\ [c EXCEPT !.old = TRUE].cmd = c.cmd
  BY DEF Command
<1> QED BY <1>1, <1>2, <1>3

\* A step of checkID that leaves nothing on the line.
LEMMA NothingLeft ==
  ASSUME Types, NEW status, NEW card, After(status, card, <<>>), inbox' = <<>>
  PROVE  LineInv'
<1>1. \/ waiting' = "none" /\ commands' = <<>>
      \/ /\ waiting' \in Commands
         /\ commands' = Append(<<>>, [cmd |-> waiting', old |-> FALSE])
  BY AfterStep
<1>2. CASE waiting' \in Commands /\ commands' = Append(<<>>, [cmd |-> waiting', old |-> FALSE])
  <2>1. PICK c : ~c.old /\ c.cmd = waiting' /\ commands' = Append(<<>>, c)
    <3>1. [cmd |-> waiting', old |-> FALSE].cmd = waiting' /\ ~[cmd |-> waiting', old |-> FALSE].old
      OBVIOUS
    <3> QED BY <1>2, <3>1
  <2>2. commands' = <<c>> /\ waiting' # "none"
    BY <1>2, <2>1, ShortLists DEF Commands
  <2>3. Awaited(c)' /\ One(c)'
    BY <2>1, <2>2 DEF Awaited, One
  <2> QED BY <2>2, <2>3 DEF LineInv
<1> QED BY <1>1, <1>2 DEF LineInv

\* One that leaves what it waited for behind.
LEMMA OneLeft ==
  ASSUME Types, NEW status, NEW card, NEW o, After(status, card, <<o>>), inbox' = <<>>,
         o.old, o.cmd = waiting, faults' >= MaxFaults
  PROVE  LineInv'
<1>1. /\ \/ waiting' = "none" /\ commands' = <<o>>
         \/ /\ waiting' \in Commands
            /\ commands' = Append(<<o>>, [cmd |-> waiting', old |-> FALSE])
      /\ waiting' = "snr" => waiting = "select"
  BY AfterStep
<1>2. Overtaken(o)'
  BY <1>1 DEF Overtaken
<1>3. CASE waiting' \in Commands /\ commands' = Append(<<o>>, [cmd |-> waiting', old |-> FALSE])
  <2>1. PICK c : ~c.old /\ c.cmd = waiting' /\ commands' = Append(<<o>>, c)
    <3>1. [cmd |-> waiting', old |-> FALSE].cmd = waiting' /\ ~[cmd |-> waiting', old |-> FALSE].old
      OBVIOUS
    <3> QED BY <1>3, <3>1
  <2>2. commands' = <<o, c>> /\ waiting' # "none"
    BY <1>3, <2>1, ShortLists DEF Commands
  <2>3. Awaited(c)' /\ Two(o, c)'
    BY <2>1, <2>2 DEF Awaited, Two
  <2> QED BY <1>2, <2>2, <2>3 DEF LineInv
<1>4. CASE waiting' = "none" /\ commands' = <<o>>
  BY <1>2, <1>4 DEF One, LineInv
<1> QED BY <1>1, <1>3, <1>4

LEMMA LineAnswer ==
  ASSUME Types, LineInv, ReaderAnswers
  PROVE  LineInv'
<1> DEFINE first == Head(commands)
<1>1. commands # <<>> /\ commands' = Tail(commands) /\ waiting' = waiting /\ Executes(first)
  BY DEF ReaderAnswers, host
<1>2. first \in Command
  BY <1>1, HeadTailProperties DEF Types, TypeOK
<1>3. /\ \/ \E y : y.cmd = first.cmd /\ y.old = first.old /\ inbox' = Append(inbox, y)
         \/ inbox' = inbox /\ faults < MaxFaults
      /\ faults' >= faults
  BY <1>1, <1>2, Executed DEF May
<1>4. faults \in Nat /\ faults' \in Nat /\ MaxFaults \in Nat
  <2>1. faults' \in 0 .. MaxFaults
    BY <1>1, <1>2, Executed
  <2> QED BY <2>1, Bounds DEF Types, TypeOK
<1> HIDE DEF first
<1>5. ASSUME NEW o, Overtaken(o) PROVE Overtaken(o)' /\ ~(faults < MaxFaults)
  BY <1>1, <1>3, <1>4, <1>5 DEF Overtaken
<1>6. ASSUME NEW c, commands = <<c>>, inbox = <<>> PROVE first = c /\ commands' = <<>>
  BY <1>1, <1>6, ShortLists DEF first
<1>7. CASE waiting = "none" /\ \E o : Overtaken(o) /\ One(o)
  <2>1. PICK o : Overtaken(o) /\ One(o)
    BY <1>7
  <2>2. commands = <<o>> /\ inbox = <<>>
    BY <1>1, <2>1 DEF One
  <2>3. PICK y : y.cmd = o.cmd /\ y.old = o.old /\ inbox' = Append(<<>>, y)
    BY <1>3, <1>5, <1>6, <2>1, <2>2
  <2>4. inbox' = <<y>> /\ commands' = <<>>
    BY <1>6, <2>2, <2>3, ShortLists
  <2>5. Overtaken(y)'
    BY <1>5, <2>1, <2>3 DEF Overtaken
  <2> QED BY <1>1, <1>7, <2>4, <2>5 DEF One, LineInv
<1>8. CASE waiting # "none" /\ \E c : Awaited(c) /\ One(c)
  <2>1. PICK c : Awaited(c) /\ One(c)
    BY <1>8
  <2>2. commands = <<c>> /\ inbox = <<>>
    BY <1>1, <2>1 DEF One
  <2>3. commands' = <<>>
    BY <1>6, <2>2
  <2>4. CASE inbox' = inbox
    BY <2>2, <2>3, <2>4 DEF LineInv
  <2>5. ASSUME NEW y, y.cmd = c.cmd, y.old = c.old, inbox' = Append(<<>>, y) PROVE LineInv'
    <3>1. inbox' = <<y>>
      BY <2>5, ShortLists
    <3>2. Awaited(y)'
      BY <1>1, <2>1, <2>5 DEF Awaited
    <3> QED BY <1>1, <1>8, <2>3, <3>1, <3>2 DEF One, LineInv
  <2> QED BY <1>3, <1>6, <2>2, <2>4, <2>5
<1>9. CASE waiting # "none" /\ \E o, c : Overtaken(o) /\ Awaited(c) /\ Two(o, c)
  <2>1. PICK o, c : Overtaken(o) /\ Awaited(c) /\ Two(o, c)
    BY <1>9
  <2>2. PICK y : y.cmd = first.cmd /\ y.old = first.old /\ inbox' = Append(inbox, y)
    BY <1>3, <1>5, <2>1
  <2>3. CASE commands = <<o, c>> /\ inbox = <<>>
    <3>1. first = o /\ commands' = <<c>> /\ inbox' = <<y>>
      BY <1>1, <2>2, <2>3, ShortLists DEF first
    <3>2. Overtaken(y)' /\ Awaited(c)'
      BY <1>1, <1>5, <2>1, <2>2, <3>1 DEF Overtaken, Awaited
    <3> QED BY <1>1, <1>9, <3>1, <3>2 DEF Two, LineInv
  <2>4. CASE commands = <<c>> /\ inbox = <<o>>
    <3>1. first = c /\ commands' = <<>> /\ inbox' = <<o, y>>
      BY <1>1, <2>2, <2>4, ShortLists DEF first
    <3>2. Overtaken(o)' /\ Awaited(y)'
      BY <1>1, <1>5, <2>1, <2>2, <3>1 DEF Awaited
    <3> QED BY <1>1, <1>9, <3>1, <3>2 DEF Two, LineInv
  <2> QED BY <1>1, <2>1, <2>3, <2>4 DEF Two
<1> QED BY <1>1, <1>7, <1>8, <1>9 DEF LineInv

LEMMA LinePoll ==
  ASSUME Types, LineInv, Poll
  PROVE  LineInv'
<1>1. waiting = "none" /\ inbox' = inbox /\ faults' = faults /\ Sends(<<Question>>, commands)
  BY DEF Poll
<1>2. /\ waiting' = Question /\ Question \notin {"none", "snr"}
      /\ \E c : ~c.old /\ c.cmd = Question /\ commands' = Append(commands, c)
  <2>1. Head(<<Question>>) = Question /\ <<Question>> # <<>>
    BY ShortLists
  <2>2. [cmd |-> Question, old |-> FALSE].cmd = Question /\ ~[cmd |-> Question, old |-> FALSE].old
    OBVIOUS
  <2> QED BY <1>1, <2>1, <2>2 DEF Sends, Question
<1>3. PICK c : ~c.old /\ c.cmd = Question /\ commands' = Append(commands, c)
  BY <1>2
<1>4. waiting' # "none" /\ Awaited(c)'
  BY <1>2, <1>3 DEF Awaited
<1>5. CASE commands = <<>> /\ inbox = <<>>
  BY <1>1, <1>3, <1>4, <1>5, ShortLists DEF One, LineInv
<1>6. CASE \E o : Overtaken(o) /\ One(o)
  <2>1. PICK o : Overtaken(o) /\ One(o)
    BY <1>6
  <2>2. Overtaken(o)'
    BY <1>1, <1>2, <2>1 DEF Overtaken
  <2>3. Two(o, c)'
    BY <1>1, <1>3, <2>1, ShortLists DEF One, Two
  <2> QED BY <1>4, <2>2, <2>3 DEF LineInv
<1> QED BY <1>1, <1>5, <1>6 DEF LineInv

LEMMA LineRead ==
  ASSUME Types, LineInv, Read
  PROVE  LineInv'
<1>1. /\ waiting # "none" /\ inbox # <<>> /\ inbox' = <<>> /\ faults' = faults
      /\ \E status, card : After(status, card, Outdated(commands))
  BY DEF Read
<1>2. CASE commands = <<>>
  <2>1. Outdated(commands) = <<>>
    BY <1>2 DEF Outdated
  <2> QED BY <1>1, <2>1, NothingLeft
<1>3. ASSUME NEW o, NEW c, Overtaken(o), Awaited(c), commands = <<c>> PROVE LineInv'
  <2>1. c \in Command
    BY <1>3 DEF Types, TypeOK
  <2>2. PICK d : d.old /\ d.cmd = waiting /\ Outdated(commands) = <<d>>
    BY <1>3, <2>1, OutdatedOne DEF Awaited
  <2>3. faults' >= MaxFaults
    BY <1>1, <1>3 DEF Overtaken
  <2> QED BY <1>1, <2>2, <2>3, OneLeft
<1> QED BY <1>1, <1>2, <1>3 DEF LineInv, One, Two

LEMMA LineTimesOut ==
  ASSUME Types, LineInv, TimesOut, "late" \notin Faults \/ MaxFaults <= 1
  PROVE  LineInv'
<1>1. /\ waiting # "none" /\ inbox = <<>> /\ inbox' = <<>>
      /\ After("timeout", NoCard, Outdated(commands))
      /\ \/ commands = <<>>
         \/ commands # <<>> /\ May("late") /\ faults' = faults + 1
  BY DEF TimesOut
<1>2. CASE commands = <<>>
  <2>1. Outdated(commands) = <<>>
    BY <1>2 DEF Outdated
  <2> QED BY <1>1, <2>1, NothingLeft
<1>3. CASE commands # <<>> /\ May("late") /\ faults' = faults + 1
  <2>1. faults \in Nat /\ faults < MaxFaults /\ faults' >= MaxFaults
    BY <1>3, Bounds DEF May, Types, TypeOK
  <2>2. PICK c : Awaited(c) /\ One(c)
    BY <1>1, <1>3, <2>1, Bounds DEF LineInv, Overtaken
  <2>3. commands = <<c>>
    BY <1>1, <1>3, <2>2 DEF One
  <2>4. c \in Command
    BY <2>3 DEF Types, TypeOK
  <2>5. PICK d : d.old /\ d.cmd = waiting /\ Outdated(commands) = <<d>>
    BY <2>2, <2>3, <2>4, OutdatedOne DEF Awaited
  <2> QED BY <1>1, <2>1, <2>5, OneLeft
<1> QED BY <1>1, <1>2, <1>3

LEMMA LineWriteFails ==
  ASSUME Types, LineInv, WriteFails
  PROVE  LineInv'
<1>1. /\ waiting # "none" /\ commands # <<>> /\ May("refused")
      /\ After("frame", NoCard, Outdated(SubSeq(commands, 1, Len(commands) - 1)))
      /\ inbox' = inbox
  BY DEF WriteFails
<1>2. faults \in Nat /\ faults < MaxFaults
  BY <1>1, Bounds DEF May, Types, TypeOK
<1>3. PICK c : Awaited(c) /\ One(c)
  BY <1>1, <1>2, Bounds DEF LineInv, Overtaken
<1>4. commands = <<c>> /\ inbox = <<>>
  BY <1>1, <1>3 DEF One
<1>5. SubSeq(commands, 1, Len(commands) - 1) = <<>>
  <2>1. Len(commands) - 1 = 0
    BY <1>4
  <2> QED BY <1>4, <2>1
<1>6. Outdated(<<>>) = <<>>
  BY DEF Outdated
<1> QED BY <1>1, <1>4, <1>5, <1>6, NothingLeft

LEMMA LineKept ==
  ASSUME LineInv, UNCHANGED <<waiting, commands, inbox, faults>>
  PROVE  LineInv'
BY DEF LineInv, Awaited, Overtaken, One, Two

LEMMA LineInvariant ==
  ASSUME "late" \notin Faults \/ MaxFaults <= 1
  PROVE  Spec => []LineInv
<1>1. Init => LineInv
  BY DEF Init, LineInv
<1>2. Types /\ LineInv /\ [Next]_vars => LineInv'
  <2> SUFFICES ASSUME Types, LineInv, [Next]_vars PROVE LineInv'
    OBVIOUS
  <2>1. ASSUME UNCHANGED <<waiting, commands, inbox, faults>> PROVE LineInv'
    BY <2>1, LineKept
  <2>2. CASE \E card \in Cards : CardEnters(card)
    BY <2>1, <2>2 DEF CardEnters, host, line
  <2>3. CASE CardLeaves \/ Reopen \/ UNCHANGED vars
    BY <2>1, <2>3 DEF CardLeaves, Reopen, vars, host, line
  <2> QED BY <2>2, <2>3, LineAnswer, LinePoll, LineRead, LineTimesOut, LineWriteFails DEF Next
<1> QED BY <1>1, <1>2, TypesInvariant, PTL DEF Spec

\* A login carries a serial number that was asked for in the same poll, with any
\* number of faults if none of them is late, and with one that is.
THEOREM SerialsAreFresh ==
  ASSUME "late" \notin Faults \/ MaxFaults <= 1
  PROVE  Spec => []SerialIsFresh
<1>1. LineInv => SerialIsFresh
  <2> SUFFICES ASSUME LineInv, waiting = "snr", inbox # <<>>, StatusOf("snr", inbox) = "ok"
               PROVE  ~Head(inbox).old
    BY DEF SerialIsFresh
  <2>1. Head(inbox).cmd = "snr"
    BY DEF StatusOf, Confirms
  <2>2. CASE \E c : Awaited(c) /\ One(c)
    BY <2>2, ShortLists DEF Awaited, One
  <2>3. CASE \E o, c : Overtaken(o) /\ Awaited(c) /\ Two(o, c)
    BY <2>1, <2>3, ShortLists DEF Overtaken, Awaited, Two
  <2> QED BY <2>2, <2>3 DEF LineInv
<1> QED BY <1>1, LineInvariant, PTL
-----------------------------------------------------------------------------
\* What an undamaged answer to the question for the serial number says.
SnrAnswered(i) == i.cmd = "snr" /\ i.status = "ok"
AnswersName == \A i \in DOMAIN inbox : SnrAnswered(inbox[i]) => inbox[i].card \in Cards

\* _isCardDetected is that somebody is logged in, and what checkID asks fits it.
DetectedIsUser ==
  /\ detected <=> user # NoCard
  /\ waiting \in {"select", "snr"} => ~detected
  /\ waiting = "selected" => detected

SessionInv == AnswersName /\ DetectedIsUser

LEMMA NamesStep ==
  ASSUME Types, AnswersName, [Next]_vars
  PROVE  AnswersName'
<1>0. inbox \in Seq(Answer)
  BY DEF Types, TypeOK
<1>1. CASE ReaderAnswers
  <2>1. Executes(Head(commands)) /\ Head(commands) \in Command
    <3>1. commands \in Seq(Command) /\ commands # <<>>
      BY <1>1 DEF ReaderAnswers, Types, TypeOK
    <3> QED BY <1>1, <3>1, HeadTailProperties DEF ReaderAnswers
  <2>2. PICK c \in Command : Executes(c)
    BY <2>1
  <2>3. selected' \in Cards \cup {NoCard}
    BY <2>2, Executed
  <2>4. ASSUME NEW y, inbox' = Append(inbox, y), SnrAnswered(y) => y.card \in Cards
        PROVE  AnswersName'
    <3>1. /\ DOMAIN inbox' = 1 .. (Len(inbox) + 1) /\ DOMAIN inbox = 1 .. Len(inbox)
          /\ \A i \in 1 .. Len(inbox) : inbox'[i] = inbox[i]
          /\ inbox'[Len(inbox) + 1] = y
      BY <1>0, <2>4
    <3>2. Len(inbox) \in Nat
      BY <1>0
    <3>3. ASSUME NEW i \in DOMAIN inbox', SnrAnswered(inbox'[i])
          PROVE  inbox'[i].card \in Cards
      BY <2>4, <3>1, <3>2, <3>3 DEF AnswersName
    <3> QED BY <3>3 DEF AnswersName
  <2>5. ASSUME NEW st \in {"none", "unknown", "garbled"}
        PROVE  ~SnrAnswered(Reply(c, st, NoCard))
    BY DEF Reply, SnrAnswered
  <2>6. SnrAnswered(Reply(c, "ok", selected')) => Reply(c, "ok", selected').card = selected'
    BY DEF Reply
  <2>7. c.cmd \in {"port", "reset"} => ~SnrAnswered(Reply(c, "ok", NoCard))
    BY DEF Reply, SnrAnswered
  <2>8. CASE inbox' = inbox
    BY <2>8 DEF AnswersName
  <2>9. \/ \E st \in {"none", "unknown", "garbled"} : inbox' = Append(inbox, Reply(c, st, NoCard))
        \/ c.cmd \in {"port", "reset"} /\ inbox' = Append(inbox, Reply(c, "ok", NoCard))
        \/ selected' # NoCard /\ inbox' = Append(inbox, Reply(c, "ok", selected'))
        \/ inbox' = inbox
    BY <2>2 DEF Executes
  <2> QED BY <2>3, <2>4, <2>5, <2>6, <2>7, <2>8, <2>9
<1>2. CASE inbox' = <<>>
  <2>1. DOMAIN inbox' = {}
    BY <1>2
  <2> QED BY <2>1 DEF AnswersName
<1>3. CASE inbox' = inbox
  BY <1>3 DEF AnswersName
<1> QED BY <1>1, <1>2, <1>3
        DEF Next, CardEnters, CardLeaves, Reopen, Poll, Read, TimesOut, WriteFails, vars, line

\* A step of checkID logs in somebody when nobody is logged in, or logs out.
LEMMA SessionAfter ==
  ASSUME Types, DetectedIsUser, NEW status, NEW card, NEW rest, After(status, card, rest),
         waiting = "snr" /\ status = "ok" => card \in Cards
  PROVE  DetectedIsUser' /\ (user' # user => NoCard \in {user, user'})
<1> USE DEF DetectedIsUser
<1>1. PICK w : w = waiting' /\ (w = "none" \/ w \in Commands) /\ (w = "snr" => waiting = "select")
  BY AfterStep
<1>2. waiting' \notin {"select", "selected"}
  <2>1. \A cs : cs \in {<<>>, <<"snr">>, <<"reset">>, <<"port">>, <<"port", "port">>,
                        <<"port", "reset">>}
                  /\ Sends(cs, rest) => waiting' \in {"none", "snr", "reset", "port"}
    BY ShortLists DEF Sends
  <2>2. Sends(todo, rest) => waiting' \in {"none", "reset", "port"}
    <3>1. todo \in Seq({"port", "reset"})
      BY DEF Types, Rest
    <3> QED BY <3>1 DEF Sends
  <2>3. \/ \E cs : /\ Sends(cs, rest)
                   /\ cs \in {<<>>, <<"snr">>, <<"reset">>, <<"port">>, <<"port", "port">>,
                              <<"port", "reset">>}
        \/ Sends(todo, rest)
    BY DEF After, AfterSelect, AfterSnr, AfterSelected, AfterOther
  <2> QED BY <2>1, <2>2, <2>3
<1>3. CASE waiting = "select" /\ AfterSelect(status, rest)
  BY <1>2, <1>3 DEF AfterSelect
<1>4. CASE waiting = "snr" /\ AfterSnr(status, card, rest)
  <2>1. waiting' # "snr"
    BY <1>1, <1>4
  <2>2. card \in Cards => card # NoCard
    BY Bounds
  <2> QED BY <1>2, <1>4, <2>1, <2>2 DEF AfterSnr, DetectedAfterSnr, UserAfterSnr
<1>5. CASE waiting = "selected" /\ AfterSelected(status, rest)
  <2>1. waiting' # "snr"
    BY <1>1, <1>5
  <2> QED BY <1>2, <1>5, <2>1 DEF AfterSelected, StaysLoggedIn
<1>6. CASE waiting \in {"port", "reset"} /\ AfterOther(rest)
  <2>1. waiting' # "snr"
    BY <1>1, <1>6
  <2> QED BY <1>2, <1>6, <2>1 DEF AfterOther
<1> QED BY <1>3, <1>4, <1>5, <1>6 DEF After

LEMMA SessionStep ==
  ASSUME Types, SessionInv, [Next]_vars
  PROVE  SessionInv' /\ (user' # user => NoCard \in {user, user'})
<1>0. AnswersName' /\ DetectedIsUser
  BY NamesStep DEF SessionInv
<1>1. CASE Read
  <2>1. waiting = "snr" /\ StatusOf(waiting, inbox) = "ok" => Head(inbox).card \in Cards
    <3>1. inbox \in Seq(Answer) /\ inbox # <<>>
      BY <1>1 DEF Read, Types, TypeOK
    <3>2. Head(inbox) = inbox[1] /\ 1 \in DOMAIN inbox
      BY <3>1
    <3> QED BY <3>2 DEF StatusOf, Confirms, SessionInv, AnswersName, SnrAnswered
  <2> QED BY <1>0, <1>1, <2>1, SessionAfter DEF Read, SessionInv
<1>2. CASE TimesOut
  BY <1>0, <1>2, SessionAfter DEF TimesOut, SessionInv
<1>3. CASE WriteFails
  BY <1>0, <1>3, SessionAfter DEF WriteFails, SessionInv
<1>4. CASE Poll
  <2>1. waiting' = Question
    <3>1. Head(<<Question>>) = Question /\ <<Question>> # <<>>
      BY ShortLists
    <3> QED BY <1>4, <3>1 DEF Poll, Sends
  <2> QED BY <1>0, <1>4, <2>1 DEF Poll, Question, SessionInv, DetectedIsUser
<1>5. CASE UNCHANGED <<waiting, detected, user>>
  BY <1>0, <1>5 DEF SessionInv, DetectedIsUser
<1> QED BY <1>1, <1>2, <1>3, <1>4, <1>5
        DEF Next, CardEnters, CardLeaves, ReaderAnswers, Reopen, vars, host

LEMMA SessionInvariant == Spec => []SessionInv
<1>1. Init => SessionInv
  BY DEF Init, SessionInv, AnswersName, DetectedIsUser
<1>2. Types /\ SessionInv /\ [Next]_vars => SessionInv'
  BY SessionStep
<1> QED BY <1>1, <1>2, TypesInvariant, PTL DEF Spec

\* Login and logout alternate, whatever is late, lost, damaged or unknown: the
\* plugin is never told of a card while another one is logged in.
LoginsAlternate == [][user' # user => NoCard \in {user, user'}]_vars

\* For all cards and every number of faults of any kind: a logout always comes between
\* two logins, though it is decided from answers that can be of an earlier poll.
THEOREM LoginsDoAlternate == Spec => LoginsAlternate
<1>1. Types /\ SessionInv /\ [Next]_vars => [user' # user => NoCard \in {user, user'}]_vars
  BY SessionStep
<1> QED BY <1>1, TypesInvariant, SessionInvariant, PTL DEF Spec, LoginsAlternate
-----------------------------------------------------------------------------
\* Whoever is logged in is the card the reader has selected, unless it has left:
\* nobody is logged in while the reader speaks of another card.
UserIsAtReader == user # NoCard => selected \in {user, NoCard}

\* While somebody is logged in no search is on the line.
NoSearch == \A i \in DOMAIN commands : commands[i].cmd # "select"
NoSearchInSession == user # NoCard => NoSearch

\* The answer to the question for the serial number is of the card selected.
AnswerIsSelected ==
  waiting = "snr" /\ inbox # <<>> /\ StatusOf("snr", inbox) = "ok" =>
    selected \in {Head(inbox).card, NoCard}

ReaderInv == UserIsAtReader /\ NoSearchInSession /\ AnswerIsSelected

\* When the answer is there, nothing else is on the line.
LEMMA SnrIsAlone ==
  ASSUME LineInv, waiting = "snr", inbox # <<>>, StatusOf("snr", inbox) = "ok"
  PROVE  commands = <<>> /\ \E c : inbox = <<c>>
<1>1. Head(inbox).cmd = "snr"
  BY DEF StatusOf, Confirms
<1>2. CASE \E c : Awaited(c) /\ One(c)
  BY <1>2 DEF One
<1>3. CASE \E o, c : Overtaken(o) /\ Awaited(c) /\ Two(o, c)
  <2>1. PICK o, c : Overtaken(o) /\ Two(o, c)
    BY <1>3
  <2>2. Head(inbox) = o
    BY <2>1, ShortLists DEF Two
  <2> QED BY <1>1, <2>1, <2>2 DEF Overtaken
<1> QED BY <1>2, <1>3 DEF LineInv

LEMMA SearchLemmas ==
  ASSUME NEW cs \in Seq(Command), \A i \in DOMAIN cs : cs[i].cmd # "select"
  PROVE  /\ \A i \in DOMAIN Outdated(cs) : Outdated(cs)[i].cmd # "select"
         /\ \A c : c.cmd # "select" =>
              \A i \in DOMAIN Append(cs, c) : Append(cs, c)[i].cmd # "select"
         /\ cs # <<>> => Head(cs).cmd # "select" /\ \A i \in DOMAIN Tail(cs) : Tail(cs)[i].cmd # "select"
         /\ \A i \in DOMAIN SubSeq(cs, 1, Len(cs) - 1) : SubSeq(cs, 1, Len(cs) - 1)[i].cmd # "select"
<1>1. ASSUME NEW i \in DOMAIN Outdated(cs) PROVE Outdated(cs)[i].cmd # "select"
  <2>1. i \in DOMAIN cs /\ Outdated(cs)[i] = [cs[i] EXCEPT !.old = TRUE] /\ cs[i] \in Command
    BY <1>1, ElementOfSeq DEF Outdated
  <2>2. [cs[i] EXCEPT !.old = TRUE].cmd = cs[i].cmd
    BY <2>1 DEF Command
  <2> QED BY <2>1, <2>2
<1>2. ASSUME NEW c, c.cmd # "select", NEW i \in DOMAIN Append(cs, c)
      PROVE  Append(cs, c)[i].cmd # "select"
  <2>1. /\ DOMAIN Append(cs, c) = 1 .. (Len(cs) + 1) /\ DOMAIN cs = 1 .. Len(cs) /\ Len(cs) \in Nat
        /\ \A j \in 1 .. Len(cs) : Append(cs, c)[j] = cs[j]
        /\ Append(cs, c)[Len(cs) + 1] = c
    OBVIOUS
  <2> QED BY <1>2, <2>1
<1>3. ASSUME cs # <<>>
      PROVE  Head(cs).cmd # "select" /\ \A i \in DOMAIN Tail(cs) : Tail(cs)[i].cmd # "select"
  <2>1. /\ Head(cs) = cs[1] /\ 1 \in DOMAIN cs
        /\ \A i \in DOMAIN Tail(cs) : i + 1 \in DOMAIN cs /\ Tail(cs)[i] = cs[i + 1]
    BY <1>3
  <2> QED BY <2>1
<1>4. ASSUME NEW i \in DOMAIN SubSeq(cs, 1, Len(cs) - 1)
      PROVE  SubSeq(cs, 1, Len(cs) - 1)[i].cmd # "select"
  <2>1. i \in DOMAIN cs /\ SubSeq(cs, 1, Len(cs) - 1)[i] = cs[i]
    BY <1>4
  <2> QED BY <2>1
<1> QED BY <1>1, <1>2, <1>3, <1>4

\* A step of checkID.
LEMMA ReaderAfter ==
  ASSUME Types, DetectedIsUser, ReaderInv, NEW status, NEW card, NEW rest \in Seq(Command),
         After(status, card, rest), inbox' = <<>>, selected' = selected,
         NoSearch => \A i \in DOMAIN rest : rest[i].cmd # "select",
         waiting = "snr" /\ status = "ok" =>
           card \in Cards /\ selected \in {card, NoCard} /\ rest = <<>>
  PROVE  ReaderInv'
<1> USE DEF ReaderInv, UserIsAtReader
<1>1. AnswerIsSelected'
  BY DEF AnswerIsSelected
<1>2. DetectedIsUser'
  BY SessionAfter
<1>3. \/ waiting' = "none" /\ commands' = rest
      \/ waiting' \in Commands /\ commands' = Append(rest, [cmd |-> waiting', old |-> FALSE])
  BY AfterStep
<1>4. CASE user' = NoCard
  BY <1>1, <1>4 DEF NoSearchInSession
<1>5. CASE user' # NoCard
  <2>1. waiting' # "select"
    BY <1>2, <1>5 DEF DetectedIsUser
  <2>2. \/ user' = user
        \/ waiting = "snr" /\ status = "ok" /\ user' = card
    BY <1>5 DEF After, AfterSelect, AfterSnr, AfterSelected, AfterOther, UserAfterSnr
  <2>3. \A i \in DOMAIN rest : rest[i].cmd # "select"
    <3>1. CASE user' = user
      BY <1>5, <3>1 DEF NoSearchInSession
    <3>2. CASE rest = <<>>
      BY <3>2
    <3> QED BY <2>2, <3>1, <3>2
  <2>4. NoSearch'
    <3>1. CASE commands' = rest
      BY <2>3, <3>1 DEF NoSearch
    <3>2. CASE commands' = Append(rest, [cmd |-> waiting', old |-> FALSE])
      <4>1. PICK c : c.cmd = waiting' /\ commands' = Append(rest, c)
        <5>1. [cmd |-> waiting', old |-> FALSE].cmd = waiting'
          OBVIOUS
        <5> QED BY <3>2, <5>1
      <4> QED BY <2>1, <2>3, <4>1, SearchLemmas DEF NoSearch
    <3> QED BY <1>3, <3>1, <3>2
  <2>5. UserIsAtReader'
    BY <2>2
  <2> QED BY <1>1, <2>4, <2>5 DEF NoSearchInSession
<1> QED BY <1>4, <1>5

LEMMA ReaderStep ==
  ASSUME Types, LineInv, SessionInv, ReaderInv, [Next]_vars
  PROVE  ReaderInv'
<1>0. DetectedIsUser /\ commands \in Seq(Command) /\ inbox \in Seq(Answer)
  BY DEF SessionInv, Types, TypeOK
<1>a. /\ Outdated(commands) \in Seq(Command)
      /\ NoSearch => \A i \in DOMAIN Outdated(commands) : Outdated(commands)[i].cmd # "select"
  BY <1>0, OutdatedTypes, SearchLemmas DEF NoSearch
<1>1. CASE Read
  <2>1. waiting = "snr" /\ StatusOf(waiting, inbox) = "ok" =>
          /\ Head(inbox).card \in Cards /\ selected \in {Head(inbox).card, NoCard}
          /\ Outdated(commands) = <<>>
    <3> SUFFICES ASSUME waiting = "snr", StatusOf("snr", inbox) = "ok"
                 PROVE  /\ Head(inbox).card \in Cards /\ selected \in {Head(inbox).card, NoCard}
                        /\ Outdated(commands) = <<>>
      OBVIOUS
    <3>1. inbox # <<>> /\ commands = <<>>
      BY <1>1, SnrIsAlone DEF Read
    <3>2. Head(inbox) = inbox[1] /\ 1 \in DOMAIN inbox
      BY <1>0, <3>1
    <3>3. Head(inbox).card \in Cards
      BY <3>2 DEF StatusOf, Confirms, SessionInv, AnswersName, SnrAnswered
    <3>4. Outdated(commands) = <<>>
      BY <3>1 DEF Outdated
    <3> QED BY <3>1, <3>3, <3>4 DEF ReaderInv, AnswerIsSelected
  <2>2. /\ After(StatusOf(waiting, inbox), Head(inbox).card, Outdated(commands))
        /\ inbox' = <<>> /\ selected' = selected
    BY <1>1 DEF Read
  <2> QED BY <1>0, <1>a, <2>1, <2>2, ReaderAfter
<1>2. CASE TimesOut
  <2>1. /\ After("timeout", NoCard, Outdated(commands))
        /\ inbox' = <<>> /\ selected' = selected
    BY <1>2 DEF TimesOut
  <2> QED BY <1>0, <1>a, <2>1, ReaderAfter
<1>3. CASE WriteFails
  <2> DEFINE left == SubSeq(commands, 1, Len(commands) - 1)
  <2>1. left \in Seq(Command) /\ (NoSearch => \A i \in DOMAIN left : left[i].cmd # "select")
    BY <1>0, SearchLemmas DEF NoSearch
  <2>2. /\ Outdated(left) \in Seq(Command)
        /\ NoSearch => \A i \in DOMAIN Outdated(left) : Outdated(left)[i].cmd # "select"
    BY <2>1, OutdatedTypes, SearchLemmas
  <2>3. waiting # "none" /\ faults < MaxFaults /\ commands # <<>>
    BY <1>3 DEF WriteFails, May
  <2>4. inbox = <<>>
    <3>1. faults \in Nat /\ MaxFaults \in Nat
      BY Bounds DEF Types, TypeOK
    <3>2. \E c : Awaited(c) /\ One(c)
      BY <2>3, <3>1 DEF LineInv, Overtaken
    <3> QED BY <2>3, <3>2 DEF One
  <2>5. /\ After("frame", NoCard, Outdated(left))
        /\ inbox' = <<>> /\ selected' = selected
    BY <1>3, <2>4 DEF WriteFails
  <2> QED BY <1>0, <2>2, <2>5, ReaderAfter
<1>4. CASE Poll
  <2>1. /\ waiting' = Question /\ UNCHANGED <<user, selected>>
        /\ \E c : c.cmd = Question /\ commands' = Append(commands, c)
    <3>1. Head(<<Question>>) = Question /\ <<Question>> # <<>>
      BY ShortLists
    <3>2. [cmd |-> Question, old |-> FALSE].cmd = Question
      OBVIOUS
    <3> QED BY <1>4, <3>1, <3>2 DEF Poll, Sends
  <2>2. user # NoCard => Question # "select" /\ NoSearch
    BY <1>0 DEF Question, DetectedIsUser, ReaderInv, NoSearchInSession
  <2>3. user # NoCard => NoSearch'
    BY <1>0, <2>1, <2>2, SearchLemmas DEF NoSearch
  <2> QED BY <2>1, <2>3
          DEF ReaderInv, UserIsAtReader, NoSearchInSession, AnswerIsSelected, Question
<1>5. CASE ReaderAnswers
  <2>1. /\ commands # <<>> /\ commands' = Tail(commands) /\ UNCHANGED <<waiting, user>>
        /\ Executes(Head(commands))
    BY <1>5 DEF ReaderAnswers, host
  <2>2. user # NoCard => NoSearch' /\ Head(commands).cmd # "select"
    BY <1>0, <2>1, SearchLemmas DEF NoSearch, ReaderInv, NoSearchInSession
  <2>3. UserIsAtReader'
    BY <2>1, <2>2 DEF Executes, ReaderInv, UserIsAtReader
  <2>4. AnswerIsSelected'
    <3> SUFFICES ASSUME waiting = "snr", inbox' # <<>>, StatusOf("snr", inbox)' = "ok"
                 PROVE  selected' \in {Head(inbox)'.card, NoCard}
      BY <2>1 DEF AnswerIsSelected
    <3>1. LineInv'
      BY <1>5, LineAnswer
    <3>2. commands' = <<>> /\ \E c : inbox' = <<c>>
      <4>1. waiting' = "snr"
        BY <2>1
      <4>2. Head(inbox').cmd = "snr"
        BY DEF StatusOf, Confirms
      <4>3. CASE \E c : Awaited(c)' /\ One(c)'
        BY <4>3 DEF One
      <4>4. CASE \E o, c : Overtaken(o)' /\ Awaited(c)' /\ Two(o, c)'
        <5>1. PICK o, c : Overtaken(o)' /\ Two(o, c)'
          BY <4>4
        <5>2. Head(inbox') = o
          BY <5>1, ShortLists DEF Two
        <5> QED BY <4>1, <4>2, <5>1, <5>2 DEF Overtaken
      <4> QED BY <3>1, <4>1, <4>3, <4>4 DEF LineInv
    <3>3. inbox = <<>>
      <4>1. CASE inbox' = inbox
        <5>1. inbox # <<>> /\ StatusOf("snr", inbox) = "ok"
          BY <4>1 DEF StatusOf, Confirms
        <5> QED BY <2>1, <5>1, SnrIsAlone
      <4>2. ASSUME NEW y, inbox' = Append(inbox, y) PROVE inbox = <<>>
        <5>1. PICK n \in Nat : n = Len(inbox) /\ Len(Append(inbox, y)) = n + 1
          BY <1>0
        <5>2. PICK c : Append(inbox, y) = <<c>>
          BY <3>2, <4>2
        <5>3. Len(<<c>>) = 1
          OBVIOUS
        <5>4. n = 0
          BY <5>1, <5>2, <5>3
        <5> QED BY <1>0, <5>1, <5>4
      <4>3. inbox' = inbox \/ \E y : inbox' = Append(inbox, y)
        BY <2>1 DEF Executes
      <4> QED BY <4>1, <4>2, <4>3
    <3>4. PICK y : /\ inbox' = Append(<<>>, y)
                   /\ y.cmd = "snr" /\ y.status = "ok" => y.card = selected'
      <4> DEFINE c == Head(commands)
      <4>1. ASSUME NEW st \in {"none", "unknown", "garbled"} PROVE Reply(c, st, NoCard).status = st
        BY DEF Reply
      <4>2. Reply(c, "ok", selected').card = selected'
        BY DEF Reply
      <4>3. c.cmd \in {"port", "reset"} => Reply(c, "ok", NoCard).cmd # "snr"
        BY DEF Reply
      <4>4. \/ \E st \in {"none", "unknown", "garbled"} : inbox' = Append(inbox, Reply(c, st, NoCard))
            \/ c.cmd \in {"port", "reset"} /\ inbox' = Append(inbox, Reply(c, "ok", NoCard))
            \/ inbox' = Append(inbox, Reply(c, "ok", selected'))
            \/ inbox' = inbox
        BY <2>1 DEF Executes
      <4> HIDE DEF c
      <4>5. inbox' # inbox
        BY <3>3
      <4> QED BY <3>3, <4>1, <4>2, <4>3, <4>4, <4>5
    <3>5. Head(inbox') = y
      BY <3>4, ShortLists
    <3> QED BY <3>4, <3>5 DEF StatusOf, Confirms
  <2> QED BY <2>1, <2>2, <2>3, <2>4 DEF ReaderInv, NoSearchInSession
<1>6. CASE UNCHANGED <<waiting, user, commands, inbox>> /\ selected' \in {selected, NoCard}
  BY <1>6 DEF ReaderInv, UserIsAtReader, NoSearchInSession, NoSearch, AnswerIsSelected, StatusOf,
              Confirms
<1> QED BY <1>1, <1>2, <1>3, <1>4, <1>5, <1>6
        DEF Next, CardEnters, CardLeaves, Reopen, vars, host, line

\* Where the line gets out of step by at most one late answer, or by other
\* faults only, the card that is logged in is the one the reader speaks of,
\* until it leaves the field: a booking is never made for a card while another
\* one has been selected since.
THEOREM UsersAreAtReader ==
  ASSUME "late" \notin Faults \/ MaxFaults <= 1
  PROVE  Spec => []UserIsAtReader
<1>1. Init => ReaderInv
  BY DEF Init, ReaderInv, UserIsAtReader, NoSearchInSession, AnswerIsSelected
<1>2. Types /\ LineInv /\ SessionInv /\ ReaderInv /\ [Next]_vars => ReaderInv'
  BY ReaderStep
<1>3. ReaderInv => UserIsAtReader
  BY DEF ReaderInv
<1> QED BY <1>1, <1>2, <1>3, TypesInvariant, LineInvariant, SessionInvariant, PTL DEF Spec
=============================================================================

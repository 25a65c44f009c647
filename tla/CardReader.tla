------------------------------ MODULE CardReader ------------------------------
(***************************************************************************)
(* BSimaticIdent polls a card reader over a serial line, from a thread of  *)
(* its own that it blocks meanwhile: one command at a time, waiting for    *)
(* the answer for a limited time, and says login with the card's serial    *)
(* number, then logout.  The line keeps the order of what it carries; an   *)
(* answer that comes after the wait is over stays in the receive buffer.   *)
(*                                                                         *)
(* The reader and its field are external.  It answers "ok" or "none" (no   *)
(* card, or the selected card is gone), or with a status code the host     *)
(* does not know.                                                          *)
(***************************************************************************)
EXTENDS Integers, Sequences

CONSTANTS
  Cards,      \* serial numbers
  NoCard,
  Faults,     \* which of FaultKinds happen
  MaxFaults,  \* bound: number of faults
  MaxMoves    \* bound: times a card enters the field

FaultKinds == {
  "refused",  \* a command cannot be written
  "late",     \* an answer comes after the host has stopped waiting
  "lost",     \* a command is not answered
  "garbled",  \* an answer arrives damaged
  "unknown" } \* the reader answers with an unknown status code

ASSUME ConstantsAssumption ==
  /\ NoCard \notin Cards
  /\ Faults \subseteq FaultKinds
  /\ {MaxFaults, MaxMoves} \subseteq Nat

VARIABLES
  field,     \* the card in the field
  selected,  \* the card the reader has selected
  open,      \* the serial port is open
  waiting,   \* the command the host waits for, or "none" between two polls
  todo,      \* what checkID still sends in this poll
  detected,  \* _isCardDetected
  user,      \* ghost: serial number of the last login without a logout
  commands,  \* commands on their way to the reader
  inbox,     \* answers the host has not read
  faults, moves  \* ghosts: counts against the bounds

line == <<commands, inbox>>
host == <<open, waiting, todo, detected, user>>
vars == <<field, selected, host, line, faults, moves>>

Commands == {"select", "snr", "selected", "port", "reset"}

\* "old": the host no longer waits for it (ghost).
Command == [cmd : Commands, old : BOOLEAN]
Answer == [cmd : Commands, status : {"ok", "none", "unknown", "garbled"},
           card : Cards \cup {NoCard}, old : BOOLEAN]

May(fault) == fault \in Faults /\ faults < MaxFaults

Init ==
  /\ field = NoCard /\ selected = NoCard
  /\ open = FALSE /\ waiting = "none" /\ todo = <<>>
  /\ detected = FALSE /\ user = NoCard
  /\ commands = <<>> /\ inbox = <<>>
  /\ faults = 0 /\ moves = 0

-----------------------------------------------------------------------------
\* The field and the reader.
CardEnters(card) ==
  /\ field = NoCard /\ moves < MaxMoves
  /\ field' = card
  /\ moves' = moves + 1
  /\ UNCHANGED <<selected, host, line, faults>>

CardLeaves ==
  /\ field # NoCard
  /\ field' = NoCard /\ selected' = NoCard
  /\ UNCHANGED <<host, line, faults, moves>>

Reply(c, s, card) == [cmd |-> c.cmd, status |-> s, card |-> card, old |-> c.old]

\* What the reader does with a command: VHL_Select takes the card in the
\* field, the others speak of the card taken.
Executes(c) ==
  /\ selected' = IF c.cmd = "select" THEN field ELSE selected
  /\ \/ /\ inbox' = Append(inbox,
             CASE c.cmd \in {"port", "reset"} -> Reply(c, "ok", NoCard)
               [] selected' = NoCard -> Reply(c, "none", NoCard)
               [] OTHER -> Reply(c, "ok", selected'))
        /\ UNCHANGED faults
     \/ May("unknown") /\ inbox' = Append(inbox, Reply(c, "unknown", NoCard)) /\ faults' = faults + 1
     \/ May("garbled") /\ inbox' = Append(inbox, Reply(c, "garbled", NoCard)) /\ faults' = faults + 1
     \/ May("lost") /\ UNCHANGED inbox /\ faults' = faults + 1

ReaderAnswers ==
  /\ commands # <<>>
  /\ Executes(Head(commands))
  /\ commands' = Tail(commands)
  /\ UNCHANGED <<field, host, moves>>

-----------------------------------------------------------------------------
\* Seeded faults: some of the definitions below with a bug one could make, for
\* the mutation runs only.

\* Of Question: it always searches.
SelectAgain == "select"

\* Of Confirms: the command codes are not compared.
ConfirmsAny(c, response) == \A i \in DOMAIN response : response[i].status # "garbled"

\* Of DetectedAfterSnr: set before the status is looked at.
DetectedAnyhow(status) == TRUE

\* Of UserAfterSnr: another field of the answer.
UserIsStatus(status, card) == IF status = "ok" THEN status ELSE user

-----------------------------------------------------------------------------
\* confirmResponse, of all that readAll returns: it begins with the code of
\* this command, and the checksum is right.  Two undamaged answers in one pass
\* as one, since each adds up to zero.
Confirms(c, response) ==
  /\ Head(response).cmd = c
  /\ \A i \in DOMAIN response : response[i].status # "garbled"

StatusOf(c, response) == IF Confirms(c, response) THEN Head(response).status ELSE "checksum"

\* Commands on the line are old from the end of their poll step on.
Outdated(cs) == [i \in DOMAIN cs |-> [cs[i] EXCEPT !.old = TRUE]]

\* Send the first of cs, and the others after its answer; or end the poll.
Sends(cs, rest) ==
  IF cs = <<>>
    THEN waiting' = "none" /\ todo' = <<>> /\ commands' = rest
    ELSE /\ waiting' = Head(cs) /\ todo' = Tail(cs)
         /\ commands' = Append(rest, [cmd |-> Head(cs), old |-> FALSE])

\* checkID after vhl_select: ask for the serial number, or stop.
AfterSelect(status, rest) ==
  /\ Sends(CASE status = "ok" -> <<"snr">> [] status = "unknown" -> <<"reset">> [] OTHER -> <<>>,
           rest)
  /\ UNCHANGED <<open, detected, user>>

\* checkID after vhl_get_snr: login; whoever listens sets the LED twice.
DetectedAfterSnr(status) == status = "ok"
UserAfterSnr(status, card) == IF status = "ok" THEN card ELSE user

AfterSnr(status, card, rest) ==
  /\ Sends(CASE status = "ok" -> <<"port", "port">> [] status = "unknown" -> <<"reset">>
             [] OTHER -> <<>>, rest)
  /\ detected' = DetectedAfterSnr(status)
  /\ user' = UserAfterSnr(status, card)
  /\ UNCHANGED open

\* checkID after vhl_is_selcted: logout with anything but OK.
StaysLoggedIn(status) == status = "ok"

AfterSelected(status, rest) ==
  /\ Sends(CASE StaysLoggedIn(status) -> <<>> [] status = "unknown" -> <<"port", "reset">>
             [] OTHER -> <<"port">>, rest)
  /\ detected' = StaysLoggedIn(status)
  /\ user' = IF StaysLoggedIn(status) THEN user ELSE NoCard
  /\ UNCHANGED open

\* The result of setting the LED or of a reset is not looked at; after a reset
\* the port is closed.
AfterOther(rest) ==
  /\ Sends(todo, rest)
  /\ open' = (waiting # "reset")
  /\ UNCHANGED <<detected, user>>

After(status, card, rest) ==
  \/ waiting = "select" /\ AfterSelect(status, rest)
  \/ waiting = "snr" /\ AfterSnr(status, card, rest)
  \/ waiting = "selected" /\ AfterSelected(status, rest)
  \/ waiting \in {"port", "reset"} /\ AfterOther(rest)

\* The timer: open the port, or ask whether the card is still there, or search
\* for one.  An attempt to open it that fails changes nothing and is made again
\* at the next timer; this is the one that succeeds.
Reopen ==
  /\ waiting = "none" /\ ~open
  /\ open' = TRUE
  /\ UNCHANGED <<field, selected, waiting, todo, detected, user, line, faults, moves>>

Question == IF detected THEN "selected" ELSE "select"

Poll ==
  /\ waiting = "none" /\ open
  /\ Sends(<<Question>>, commands)
  /\ UNCHANGED <<field, selected, open, detected, user, inbox, faults, moves>>

\* waitForReadyRead and readAll.
Read ==
  /\ waiting # "none" /\ inbox # <<>>
  /\ After(StatusOf(waiting, inbox), Head(inbox).card, Outdated(commands))
  /\ inbox' = <<>>
  /\ UNCHANGED <<field, selected, faults, moves>>

\* The wait ends without an answer; the answer may still come.
TimesOut ==
  /\ waiting # "none" /\ inbox = <<>>
  /\ \/ commands = <<>> /\ UNCHANGED faults
     \/ commands # <<>> /\ May("late") /\ faults' = faults + 1
  /\ After("timeout", NoCard, Outdated(commands))
  /\ UNCHANGED <<field, selected, inbox, moves>>

\* write returns fewer bytes than the command has.
WriteFails ==
  /\ waiting # "none" /\ commands # <<>> /\ May("refused")
  /\ LET n == Len(commands)
     IN  /\ ~commands[n].old
         /\ After("frame", NoCard, Outdated(SubSeq(commands, 1, n - 1)))
  /\ faults' = faults + 1
  /\ UNCHANGED <<field, selected, inbox, moves>>

Next ==
  \/ \E card \in Cards : CardEnters(card)
  \/ CardLeaves \/ ReaderAnswers \/ Reopen \/ Poll \/ Read \/ TimesOut \/ WriteFails

Spec == Init /\ [][Next]_vars

\* The timer goes on firing, a port that is opened again and again opens in the
\* end, the reader answers, and waiting ends.  Nobody owes a movement of a card
\* or a fault.
Fairness ==
  WF_vars(Reopen) /\ WF_vars(Poll) /\ WF_vars(Read) /\ WF_vars(TimesOut)
    /\ WF_vars(ReaderAnswers)

FairSpec == Spec /\ Fairness

-----------------------------------------------------------------------------
\* Type invariant.
TypeOK ==
  /\ {field, selected, user} \subseteq Cards \cup {NoCard}
  /\ open \in BOOLEAN /\ detected \in BOOLEAN
  /\ waiting \in Commands \cup {"none"}
  /\ todo \in Seq(Commands)
  /\ commands \in Seq(Command) /\ inbox \in Seq(Answer)
  /\ faults \in 0..MaxFaults /\ moves \in 0..MaxMoves

\* The serial number of a login was asked for in the same poll: it is never
\* that of a card of an earlier poll whose answer came late.
SerialIsFresh ==
  waiting = "snr" /\ inbox # <<>> /\ StatusOf("snr", inbox) = "ok" => ~Head(inbox).old

\* A card that has left is logged out, whatever happens to its last answers.
CardLogsOut == \A c \in Cards : user = c /\ field # c ~> user # c

\* The line is out of step: an answer is to come, or in the buffer, that the
\* host has stopped waiting for.
OutOfStep ==
  \/ \E i \in DOMAIN commands : commands[i].old
  \/ \E i \in DOMAIN inbox : inbox[i].old

\* A card that stays in the field is logged in, unless a late answer puts the
\* line out of step.
CardLogsIn == \A c \in Cards : field = c ~> user = c \/ field # c \/ OutOfStep

\* "A function is executed cyclically that searches for a transponder.  When
\* one is found its serial number is read and a login given out"
\* (BSimaticident.cpp): a card that stays is logged in.
CardIsFound == \A c \in Cards : field = c ~> user = c \/ field # c
=============================================================================

---------------------------- MODULE BPNSerialPort ----------------------------
(***************************************************************************)
(* BPNSerialPort: a serial port behind a Profinet station.  Four threads   *)
(* share it: the caller (BSimaticIdent, one command after the other, each  *)
(* a write, a wait and a read), two threads that poll the station's send   *)
(* and receive inputs every 10 ms, and the Profinet driver, which changes  *)
(* the inputs and answers records.  A step is what lies between two        *)
(* accesses to something shared; what runs under _readWriteLock is one     *)
(* step.  The station and the card reader behind it are external.          *)
(*                                                                         *)
(* Commands are numbered: a telegram carries its command's number and so   *)
(* does the answer.                                                        *)
(***************************************************************************)
EXTENDS Integers, Sequences

CONSTANTS
  SeqMax,       \* 255, after which the sequence numbers begin at 1 again
  Faults,       \* which of FaultKinds happen
  MaxCommands,  \* bound: commands the caller sends
  MaxFailures   \* bound: telegrams failed, reads failed and links lost

FaultKinds == {
  "timeout",   \* an answer can take longer than the caller waits
  "error",     \* the station fails to send a telegram
  "invalid",   \* a read record comes back without data
  "lag",       \* a record is confirmed before the inputs show it
  "preempt",   \* checkSendStatus is overtaken by a whole write
  "unplug" }   \* the station is disconnected

ASSUME ConstantsAssumption ==
  /\ SeqMax \in Nat /\ SeqMax > 1
  /\ Faults \subseteq FaultKinds
  /\ {MaxCommands, MaxFailures} \subseteq Nat

VARIABLES
  plugged,       \* the station is reachable
  isConnected,   \* _isConnected
  no,            \* ghost: the number of the caller's command
  caller,        \* where the caller's thread is
  callerStatus,  \* writeData's copy of SEND_Status
  sender,        \* where the thread of checkSendStatus is
  senderStatus,  \* its copy of SEND_Status
  receiver,      \* where the thread of checkRCVStatus is
  newRcv,        \* its copy of _sequenznumber_RCV
  got,           \* the answer its record read has returned, or 0
  lastRcv,       \* _lastSequenznumberRCV
  first,         \* _firstReadRecord
  seq,           \* _sequenznumber
  data,          \* _data, the answers received and not read
  semWriteReq, semWrite, semReadyReq, semReady,
  status,        \* input _SEND_Status
  receipt,       \* input _SEND_Receipt
  rcv,           \* input _sequenznumber_RCV
  telegram,      \* the telegram the station has to send, or NoTelegram
  answers,       \* commands the card reader will answer
  record,        \* the two read records
  side,          \* TRUE: the station fills the first record next
  accepted,      \* ghost: the last command the station has sent on
  failures,      \* ghost: faults so far
  missed         \* ghost: writes in a row that failed since the last fault

callerVars == <<isConnected, no, caller, callerStatus, missed>>
senderVars == <<sender, senderStatus>>
receiverVars == <<receiver, newRcv, got, lastRcv, first>>
writeSems == <<semWriteReq, semWrite>>
readySems == <<semReadyReq, semReady>>
station == <<telegram, answers, record, side, accepted>>
environment == <<plugged, status, receipt, rcv, station, failures>>
vars == <<callerVars, senderVars, receiverVars, seq, data, writeSems, readySems, environment>>

InProgress == {"0x7001"}  \* and 0x7002, which is treated alike
SequenceError == "0x81D7"
Statuses == {"0", "failed", SequenceError} \cup InProgress

NoTelegram == [seq |-> 0, no |-> 0]

Init ==
  /\ plugged = TRUE /\ isConnected = FALSE
  /\ no = 0 /\ caller = "closed" /\ callerStatus = "0"
  /\ sender = "off" /\ senderStatus = "0"
  /\ receiver = "off" /\ newRcv = 0 /\ got = 0 /\ lastRcv = 0 /\ first = TRUE
  /\ seq = 0 /\ data = <<>>
  /\ semWriteReq = 0 /\ semWrite = 0 /\ semReadyReq = 0 /\ semReady = 0
  /\ status = "0" /\ receipt = SeqMax /\ rcv = 0
  /\ telegram = NoTelegram /\ answers = <<>>
  /\ record = [s \in BOOLEAN |-> 0] /\ side = TRUE
  /\ accepted = 0 /\ failures = 0 /\ missed = 0

May(fault) == fault \in Faults /\ failures < MaxFailures

-----------------------------------------------------------------------------
\* Seeded faults: some of the definitions below with a bug one could make, for
\* the mutation runs only.

\* Of Successor: no wrap.
SuccessorUp(n) == n + 1

\* Of WriteSucceeds: the status is not looked at.
WriteSucceedsReceipt == receipt = seq

\* Of SenderTests: only the receipt counts.
SenderTestsReceipt ==
  /\ sender = "test"
  /\ sender' = IF receipt = seq THEN "try" ELSE "sleep"
  /\ UNCHANGED <<callerVars, senderStatus, receiverVars, seq, data, writeSems, readySems,
                 environment>>

\* Of TakeRequest: it stays there.
LookAtRequest == semWriteReq > 0 /\ sender' = "settle" /\ UNCHANGED semWriteReq

\* Of ResetSequenznumber: forgotten.
ResetForgotten == UNCHANGED seq

\* Of Toggle: forgotten.
ToggleForgotten == UNCHANGED first

-----------------------------------------------------------------------------
\* writeData's and the station's successor of a sequence number.
Successor(n) == (n % SeqMax) + 1

\* setValues, delivered in the caller's thread, so never while it is blocked.
\* The first connection starts the polling threads.
SetValues ==
  /\ caller \in {"closed", "idle"} /\ isConnected # plugged
  /\ isConnected' = plugged
  /\ sender' = IF plugged /\ sender = "off" THEN "sleep" ELSE sender
  /\ receiver' = IF plugged /\ receiver = "off" THEN "sleep" ELSE receiver
  /\ UNCHANGED <<no, caller, callerStatus, missed, senderStatus, newRcv, got, lastRcv, first, seq,
                 data, writeSems, readySems, environment>>

\* open, called by the caller's timer; close, after an answer it cannot read.
Open ==
  /\ caller = "closed" /\ isConnected
  /\ caller' = "idle"
  /\ UNCHANGED <<isConnected, no, callerStatus, missed, senderVars, receiverVars, seq, data,
                 writeSems, readySems, environment>>

Close ==
  /\ caller = "idle"
  /\ caller' = "closed"
  /\ UNCHANGED <<isConnected, no, callerStatus, missed, senderVars, receiverVars, seq, data,
                 writeSems, readySems, environment>>

\* writeData up to the request to write the record, which blocks.
Write ==
  /\ caller = "idle" /\ no < MaxCommands
  /\ no' = no + 1
  /\ seq' = Successor(seq)
  /\ caller' = "confirm"
  /\ UNCHANGED <<isConnected, callerStatus, missed, senderVars, receiverVars, data, writeSems,
                 readySems, environment>>

\* The record is written: the station has the telegram, writeData asks for the
\* send status.  The inputs show at once that the station is busy, unless they
\* lag behind.
RecordConfirmed ==
  /\ caller = "confirm" /\ plugged /\ telegram = NoTelegram
  /\ sender \in {"test", "try"} => "preempt" \in Faults
  /\ telegram' = [seq |-> seq, no |-> no]
  /\ \/ status' = "0x7001"
     \/ "lag" \in Faults /\ UNCHANGED status
  /\ semWriteReq' = semWriteReq + 1
  /\ caller' = "acquire"
  /\ UNCHANGED <<isConnected, no, callerStatus, missed, senderVars, receiverVars, seq, data,
                 semWrite, readySems, plugged, receipt, rcv, answers, record, side,
                 accepted, failures>>

\* The record is not written: no connection, or the station is still busy.
RecordRefused ==
  /\ caller = "confirm" /\ (~plugged \/ telegram # NoTelegram)
  /\ caller' = "idle"
  /\ missed' = missed + 1
  /\ UNCHANGED <<isConnected, no, callerStatus, senderVars, receiverVars, seq, data, writeSems,
                 readySems, environment>>

\* _sem_write.acquire(), without a timeout, and the copy of the status.
AcquireWrite ==
  /\ caller = "acquire" /\ semWrite > 0
  /\ semWrite' = semWrite - 1
  /\ callerStatus' = status
  /\ caller' = "verify"
  /\ UNCHANGED <<isConnected, no, missed, senderVars, receiverVars, seq, data, semWriteReq,
                 readySems, environment>>

WriteSucceeds == receipt = seq /\ callerStatus = "0"

WriteReturns ==
  /\ caller = "verify"
  /\ IF WriteSucceeds THEN caller' = "written" /\ missed' = 0
                      ELSE caller' = "idle" /\ missed' = missed + 1
  /\ UNCHANGED <<isConnected, no, callerStatus, senderVars, receiverVars, seq, data, writeSems,
                 readySems, environment>>

\* waitForReadyRead up to tryAcquire: data is there already, or asked for.
WaitForReadyRead ==
  /\ caller = "written"
  /\ \/ data # <<>> /\ caller' = "read" /\ UNCHANGED semReadyReq
     \/ data = <<>> /\ caller' = "wait" /\ semReadyReq' = semReadyReq + 1
  /\ UNCHANGED <<isConnected, no, callerStatus, missed, senderVars, receiverVars, seq, data,
                 writeSems, semReady, environment>>

TryAcquireReady ==
  /\ caller = "wait" /\ semReady > 0
  /\ semReady' = semReady - 1
  /\ caller' = "read"
  /\ UNCHANGED <<isConnected, no, callerStatus, missed, senderVars, receiverVars, seq, data,
                 writeSems, semReadyReq, environment>>

\* tryAcquire gives up ...
Expires ==
  /\ "timeout" \in Faults
  /\ caller = "wait" /\ semReady = 0
  /\ caller' = "expired"
  /\ UNCHANGED <<isConnected, no, callerStatus, missed, senderVars, receiverVars, seq, data,
                 writeSems, readySems, environment>>

\* ... and the request is taken back, if saveNewData has not taken it.
TakeBack == semReadyReq' = IF semReadyReq > 0 THEN semReadyReq - 1 ELSE semReadyReq

WaitReturnsFalse ==
  /\ caller = "expired"
  /\ TakeBack
  /\ caller' = "idle"
  /\ UNCHANGED <<isConnected, no, callerStatus, missed, senderVars, receiverVars, seq, data,
                 writeSems, semReady, environment>>

\* readAll: readData until nothing is left.
ReadAll ==
  /\ caller = "read"
  /\ data' = <<>>
  /\ caller' = "idle"
  /\ UNCHANGED <<isConnected, no, callerStatus, missed, senderVars, receiverVars, seq, writeSems,
                 readySems, environment>>

-----------------------------------------------------------------------------
\* checkSendStatus, every 10 ms: copy the status, ...
SenderReads ==
  /\ sender = "sleep"
  /\ senderStatus' = status
  /\ sender' = "test"
  /\ UNCHANGED <<callerVars, receiverVars, seq, data, writeSems, readySems, environment>>

\* ... test whether there is something to report, ...
SenderTests ==
  /\ sender = "test"
  /\ sender' = IF senderStatus # "0" \/ receipt = seq THEN "try" ELSE "sleep"
  /\ UNCHANGED <<callerVars, senderStatus, receiverVars, seq, data, writeSems, readySems,
                 environment>>

\* ... take the caller's request, if there is one, ...
TakeRequest == semWriteReq > 0 /\ semWriteReq' = semWriteReq - 1 /\ sender' = "settle"

SenderTries ==
  /\ sender = "try"
  /\ \/ TakeRequest
     \/ semWriteReq = 0 /\ sender' = "sleep" /\ UNCHANGED semWriteReq
  /\ UNCHANGED <<callerVars, senderStatus, receiverVars, seq, data, semWrite, readySems,
                 environment>>

\* ... and put it back while the transfer is in progress, or answer it; after
\* a sequence error with _sequenznumber reset to the last valid one.
ResetSequenznumber == seq' = IF senderStatus = SequenceError THEN receipt ELSE seq

SenderSettles ==
  /\ sender = "settle"
  /\ sender' = "sleep"
  /\ IF senderStatus \in InProgress
       THEN semWriteReq' = semWriteReq + 1 /\ UNCHANGED <<semWrite, seq>>
       ELSE semWrite' = semWrite + 1 /\ UNCHANGED semWriteReq /\ ResetSequenznumber
  /\ UNCHANGED <<callerVars, senderStatus, receiverVars, data, readySems, environment>>

-----------------------------------------------------------------------------
\* checkRCVStatus, every 10 ms: the station has something new.
ReceiverReads ==
  /\ receiver = "sleep" /\ rcv # lastRcv
  /\ newRcv' = rcv
  /\ receiver' = "read"
  /\ UNCHANGED <<callerVars, senderVars, got, lastRcv, first, seq, data, writeSems,
                 readySems, environment>>

\* readReq returns the record, in turn one and the other; nothing useful when
\* the station is away or the record is not valid.
ReceiverGets ==
  /\ receiver = "read"
  /\ \/ plugged /\ got' = record[first] /\ UNCHANGED failures
     \/ ~plugged /\ got' = 0 /\ UNCHANGED failures
     \/ May("invalid") /\ got' = 0 /\ failures' = failures + 1
  /\ receiver' = "save"
  /\ UNCHANGED <<callerVars, senderVars, newRcv, lastRcv, first, seq, data, writeSems,
                 readySems, plugged, status, receipt, rcv, station>>

\* The record that is read next time.
Toggle == first' = ~first

\* saveNewData, and what checkRCVStatus notes about it.
SaveNewData ==
  /\ data' = Append(data, got)
  /\ \/ semReadyReq > 0 /\ semReadyReq' = semReadyReq - 1 /\ semReady' = semReady + 1
     \/ semReadyReq = 0 /\ UNCHANGED readySems

ReceiverSaves ==
  /\ receiver = "save"
  /\ receiver' = "sleep"
  /\ Toggle
  /\ \/ got # 0 /\ SaveNewData /\ lastRcv' = newRcv
     \/ got = 0 /\ UNCHANGED <<data, readySems, lastRcv>>
  /\ UNCHANGED <<callerVars, senderVars, newRcv, got, seq, writeSems, environment>>

-----------------------------------------------------------------------------
\* The station and the card reader.
program == <<callerVars, senderVars, receiverVars, seq, data, writeSems, readySems>>

\* With "lag", the busy station shows up late.
StationShowsBusy ==
  /\ plugged /\ telegram # NoTelegram /\ status \notin InProgress
  /\ status' = "0x7001"
  /\ UNCHANGED <<program, plugged, receipt, rcv, station, failures>>

\* The station sends a telegram that follows the last one: first the receipt
\* changes, then the status.
StationSends ==
  /\ plugged /\ telegram # NoTelegram /\ status \in InProgress
  /\ telegram.seq = Successor(receipt)
  /\ receipt' = telegram.seq
  /\ accepted' = telegram.no
  /\ answers' = Append(answers, telegram.no)
  /\ telegram' = NoTelegram
  /\ UNCHANGED <<program, plugged, status, rcv, record, side, failures>>

StationDone ==
  /\ plugged /\ telegram = NoTelegram /\ status \in InProgress
  /\ status' = "0"
  /\ UNCHANGED <<program, plugged, receipt, rcv, station, failures>>

StationRejects ==
  /\ plugged /\ telegram # NoTelegram /\ status \in InProgress
  /\ telegram.seq # Successor(receipt)
  /\ status' = SequenceError
  /\ telegram' = NoTelegram
  /\ UNCHANGED <<program, plugged, receipt, rcv, answers, record, side, accepted, failures>>

StationFails ==
  /\ May("error")
  /\ plugged /\ telegram # NoTelegram /\ status \in InProgress
  /\ status' = "failed"
  /\ telegram' = NoTelegram
  /\ failures' = failures + 1 /\ missed' = 0
  /\ UNCHANGED <<isConnected, no, caller, callerStatus, senderVars, receiverVars, seq,
                 data, writeSems, readySems, plugged, receipt, rcv, answers, record,
                 side, accepted>>

\* The card reader answers; the station stores the answer in its records in
\* turn, then changes the sequence number.
ReaderAnswers ==
  /\ plugged /\ answers # <<>>
  /\ record' = [record EXCEPT ![side] = Head(answers)]
  /\ side' = ~side
  /\ rcv' = Successor(rcv)
  /\ answers' = Tail(answers)
  /\ UNCHANGED <<program, plugged, status, receipt, telegram, accepted, failures>>

\* What is under way is lost with the connection.
Unplug ==
  /\ May("unplug") /\ plugged
  /\ plugged' = FALSE
  /\ telegram' = NoTelegram /\ answers' = <<>>
  /\ status' = "0"
  /\ failures' = failures + 1
  /\ UNCHANGED <<program, receipt, rcv, record, side, accepted>>

Plug ==
  /\ ~plugged
  /\ plugged' = TRUE
  /\ UNCHANGED <<program, status, receipt, rcv, station, failures>>

Caller ==
  \/ SetValues \/ Open \/ Close \/ Write \/ RecordConfirmed \/ RecordRefused
  \/ AcquireWrite \/ WriteReturns \/ WaitForReadyRead \/ TryAcquireReady
  \/ Expires \/ WaitReturnsFalse \/ ReadAll
Sender == SenderReads \/ SenderTests \/ SenderTries \/ SenderSettles
Receiver == ReceiverReads \/ ReceiverGets \/ ReceiverSaves
Station ==
  \/ StationShowsBusy \/ StationSends \/ StationDone \/ StationRejects
  \/ StationFails \/ ReaderAnswers \/ Unplug \/ Plug

Next == Caller \/ Sender \/ Receiver \/ Station

Spec == Init /\ [][Next]_vars

\* Every thread goes on when it can, the station finishes what it has begun
\* and the card reader answers.  A record takes longer than a pass of
\* checkSendStatus, so a pass cannot keep it back for ever.  Nobody owes a new
\* command or a failure.
Fairness ==
  /\ WF_vars(SetValues) /\ WF_vars(Open)
  /\ SF_vars(RecordConfirmed) /\ WF_vars(RecordRefused)
  /\ WF_vars(AcquireWrite) /\ WF_vars(WriteReturns)
  /\ WF_vars(WaitForReadyRead) /\ WF_vars(TryAcquireReady) /\ WF_vars(Expires)
  /\ WF_vars(WaitReturnsFalse) /\ WF_vars(ReadAll)
  /\ WF_vars(Sender) /\ WF_vars(Receiver)
  /\ WF_vars(StationShowsBusy) /\ WF_vars(StationSends \/ StationRejects)
  /\ WF_vars(StationDone) /\ WF_vars(ReaderAnswers) /\ WF_vars(Plug)

FairSpec == Spec /\ Fairness

-----------------------------------------------------------------------------
\* Type invariant.
TypeOK ==
  /\ plugged \in BOOLEAN /\ isConnected \in BOOLEAN
  /\ no \in 0..MaxCommands
  /\ caller \in {"closed", "idle", "confirm", "acquire", "verify", "written", "wait",
                 "expired", "read"}
  /\ callerStatus \in Statuses /\ senderStatus \in Statuses /\ status \in Statuses
  /\ sender \in {"off", "sleep", "test", "try", "settle"}
  /\ receiver \in {"off", "sleep", "read", "save"}
  /\ {newRcv, lastRcv, rcv, seq, receipt} \subseteq 0..SeqMax
  /\ got \in 0..MaxCommands /\ first \in BOOLEAN /\ side \in BOOLEAN
  /\ data \in Seq(1..MaxCommands) /\ answers \in Seq(1..MaxCommands)
  /\ {semWriteReq, semWrite, semReadyReq, semReady} \subseteq Nat
  /\ telegram \in [seq : 1..SeqMax, no : 1..MaxCommands] \cup {NoTelegram}
  /\ record \in [BOOLEAN -> 0..MaxCommands]
  /\ accepted \in 0..MaxCommands /\ failures \in 0..MaxFailures /\ missed \in Nat

One(condition) == IF condition THEN 1 ELSE 0

\* While writeData is blocked there is exactly one token between it and the
\* thread of checkSendStatus, and none otherwise: no write is released by a
\* token meant for another, whatever fails.
WriteHandshake == semWriteReq + semWrite + One(sender = "settle") = One(caller = "acquire")

\* writeData never reports success for a telegram the station has not sent
\* on, although it judges by inputs that can be those of an earlier telegram
\* and by a sequence number the other thread resets.
SuccessIsAccepted == caller \in {"written", "wait", "read", "expired"} => accepted = no

\* What readAll returns is the answer to the command just written, and only
\* that.
AnswerMatches == caller = "read" => data = <<no>>

\* After a failed telegram the sequence numbers agree again at the latest
\* with the second write after it.
RecoversSoon == missed <= 2

\* A write ends, in whatever way, unless the station is disconnected before.
WriteEnds == caller = "confirm" ~> caller \in {"idle", "written"} \/ ~plugged

\* "When the connection is lost the reader is disconnected and reconnects on
\* its own" (BSimaticIdent): after a loss the caller comes back to where it
\* opens the port or writes its next command.
Reconnects == ~plugged ~> plugged /\ caller \in {"closed", "idle"}
=============================================================================

------------------------ MODULE BPNSerialPort_proofs ------------------------
(***************************************************************************)
(* Theorems about BPNSerialPort, for every limit of the sequence numbers:  *)
(* with every fault, type correctness, the handshake between writeData and *)
(* the thread of checkSendStatus, and that no answer is slept through; on  *)
(* a connection that lasts, that no write is forgotten and, with inputs    *)
(* that do not lag, that what is acknowledged was sent, and that the       *)
(* numbers agree again after a failed telegram; with neither lag nor       *)
(* preemption, that a write that fails was not sent; with answers in time, *)
(* that what is read is the answer to what was written.                    *)
(***************************************************************************)
EXTENDS BPNSerialPort, TLAPS

\* Sequence numbers stay in 1..SeqMax: writeData's (_sequenznumber % 255) + 1.
LEMMA SuccessorRange ==
  ASSUME NEW n \in Nat
  PROVE  Successor(n) \in 1..SeqMax
  BY ConstantsAssumption DEF Successor

LEMMA Bounds == SeqMax \in Nat /\ SeqMax > 1 /\ MaxCommands \in Nat /\ MaxFailures \in Nat
  BY ConstantsAssumption

LEMMA SequenceTail ==
  ASSUME NEW S, NEW s \in Seq(S), s # <<>>
  PROVE  Tail(s) \in Seq(S) /\ Head(s) \in S
  OBVIOUS

LEMMA EmptySequence == ASSUME NEW S PROVE <<>> \in Seq(S)
  OBVIOUS

-----------------------------------------------------------------------------
\* The types, in parts: the caller's thread, the polling threads, what they
\* share, and the environment.
CallerTypes ==
  /\ isConnected \in BOOLEAN
  /\ no \in 0..MaxCommands
  /\ caller \in {"closed", "idle", "confirm", "acquire", "verify", "written", "wait",
                 "expired", "read"}
  /\ callerStatus \in Statuses
  /\ missed \in Nat

PollingTypes ==
  /\ sender \in {"off", "sleep", "test", "try", "settle"} /\ senderStatus \in Statuses
  /\ receiver \in {"off", "sleep", "read", "save"}
  /\ newRcv \in 0..SeqMax /\ lastRcv \in 0..SeqMax
  /\ got \in 0..MaxCommands /\ first \in BOOLEAN

SharedTypes ==
  /\ seq \in 0..SeqMax
  /\ data \in Seq(1..MaxCommands)
  /\ semWriteReq \in Nat /\ semWrite \in Nat /\ semReadyReq \in Nat /\ semReady \in Nat

EnvironmentTypes ==
  /\ plugged \in BOOLEAN
  /\ status \in Statuses
  /\ receipt \in 1..SeqMax /\ rcv \in 0..SeqMax
  /\ telegram \in [seq : 1..SeqMax, no : 1..MaxCommands] \cup {NoTelegram}
  /\ answers \in Seq(1..MaxCommands)
  /\ record \in [BOOLEAN -> 0..MaxCommands] /\ side \in BOOLEAN
  /\ accepted \in 0..MaxCommands
  /\ failures \in 0..MaxFailures

\* A command has its number and its sequence number before the record with
\* its telegram is written.
Numbered == caller = "confirm" => no > 0 /\ seq > 0

Types == CallerTypes /\ PollingTypes /\ SharedTypes /\ EnvironmentTypes /\ Numbered

LEMMA InitTypes == Init => Types
<1> SUFFICES ASSUME Init PROVE Types
  OBVIOUS
<1>1. CallerTypes
  <2>1. no \in 0..MaxCommands /\ missed \in Nat
    BY Bounds DEF Init
  <2>2. caller = "closed" /\ callerStatus \in Statuses /\ isConnected \in BOOLEAN
    BY DEF Init, Statuses
  <2> QED BY <2>1, <2>2 DEF CallerTypes
<1>2. PollingTypes
  BY Bounds DEF Init, PollingTypes, Statuses
<1>3. SharedTypes
  BY Bounds, EmptySequence DEF Init, SharedTypes
<1>4. EnvironmentTypes
  BY Bounds, EmptySequence DEF Init, EnvironmentTypes, Statuses
<1> QED BY <1>1, <1>2, <1>3, <1>4 DEF Types, Numbered, Init

\* What a step does not touch keeps its type.
LEMMA Frames ==
  /\ CallerTypes /\ UNCHANGED callerVars => CallerTypes'
  /\ PollingTypes /\ UNCHANGED <<senderVars, receiverVars>> => PollingTypes'
  /\ SharedTypes /\ UNCHANGED <<seq, data, writeSems, readySems>> => SharedTypes'
  /\ EnvironmentTypes /\ UNCHANGED environment => EnvironmentTypes'
  /\ Numbered /\ UNCHANGED <<callerVars, seq>> => Numbered'
<1>1. CallerTypes /\ UNCHANGED callerVars => CallerTypes'
  BY DEF CallerTypes, callerVars
<1>2. PollingTypes /\ UNCHANGED <<senderVars, receiverVars>> => PollingTypes'
  BY DEF PollingTypes, senderVars, receiverVars
<1>3. SharedTypes /\ UNCHANGED <<seq, data, writeSems, readySems>> => SharedTypes'
  BY DEF SharedTypes, writeSems, readySems
<1>4. EnvironmentTypes /\ UNCHANGED environment => EnvironmentTypes'
  BY DEF EnvironmentTypes, environment, station
<1>5. Numbered /\ UNCHANGED <<callerVars, seq>> => Numbered'
  BY DEF Numbered, callerVars
<1> QED BY <1>1, <1>2, <1>3, <1>4, <1>5

\* The caller's steps: only a new command changes what it has, only the
\* confirmed record changes the environment.
LEMMA CallerStep == Types /\ Caller => Types'
<1> SUFFICES ASSUME Types, Caller PROVE Types'
  OBVIOUS
<1>0. CallerTypes /\ PollingTypes /\ SharedTypes /\ EnvironmentTypes /\ Numbered
  BY DEF Types
<1>1. CASE SetValues
  <2>1. CallerTypes'
    BY <1>0, <1>1 DEF SetValues, CallerTypes, EnvironmentTypes
  <2>2. PollingTypes'
    BY <1>0, <1>1 DEF SetValues, PollingTypes
  <2>3. Numbered' /\ SharedTypes' /\ EnvironmentTypes'
    BY <1>0, <1>1, Frames DEF SetValues, Numbered
  <2> QED BY <2>1, <2>2, <2>3 DEF Types
<1>2. CASE Open \/ Close
  <2>1. CallerTypes' /\ Numbered'
    BY <1>0, <1>2 DEF Open, Close, CallerTypes, Numbered
  <2>2. PollingTypes' /\ SharedTypes' /\ EnvironmentTypes'
    BY <1>0, <1>2, Frames DEF Open, Close
  <2> QED BY <2>1, <2>2 DEF Types
<1>3. CASE Write
  <2>1. seq \in Nat
    BY <1>0, Bounds DEF SharedTypes
  <2>2. seq' \in 1..SeqMax
    BY <1>3, <2>1, SuccessorRange DEF Write
  <2>3. no' \in 1..MaxCommands
    BY <1>0, <1>3, Bounds DEF Write, CallerTypes
  <2>4. CallerTypes'
    BY <1>0, <1>3, <2>3 DEF Write, CallerTypes
  <2>5. SharedTypes'
    BY <1>0, <1>3, <2>2 DEF Write, SharedTypes, writeSems, readySems
  <2>6. Numbered'
    BY <2>2, <2>3 DEF Numbered
  <2>7. PollingTypes' /\ EnvironmentTypes'
    BY <1>0, <1>3, Frames DEF Write
  <2> QED BY <2>4, <2>5, <2>6, <2>7 DEF Types
<1>4. CASE RecordConfirmed
  <2>1. telegram' \in [seq : 1..SeqMax, no : 1..MaxCommands]
    BY <1>0, <1>4 DEF RecordConfirmed, Numbered, CallerTypes, SharedTypes
  <2>2. status' \in Statuses
    BY <1>0, <1>4 DEF RecordConfirmed, EnvironmentTypes, Statuses, InProgress
  <2>3. EnvironmentTypes'
    BY <1>0, <1>4, <2>1, <2>2 DEF RecordConfirmed, EnvironmentTypes
  <2>4. CallerTypes' /\ Numbered'
    BY <1>0, <1>4 DEF RecordConfirmed, CallerTypes, Numbered
  <2>5. SharedTypes'
    BY <1>0, <1>4 DEF RecordConfirmed, SharedTypes, readySems
  <2>6. PollingTypes'
    BY <1>0, <1>4, Frames DEF RecordConfirmed
  <2> QED BY <2>3, <2>4, <2>5, <2>6 DEF Types
<1>5. CASE RecordRefused \/ WriteReturns
  <2>1. CallerTypes' /\ Numbered'
    BY <1>0, <1>5 DEF RecordRefused, WriteReturns, CallerTypes, Numbered
  <2>2. PollingTypes' /\ SharedTypes' /\ EnvironmentTypes'
    BY <1>0, <1>5, Frames DEF RecordRefused, WriteReturns
  <2> QED BY <2>1, <2>2 DEF Types
<1>6. CASE AcquireWrite
  <2>1. CallerTypes' /\ Numbered'
    BY <1>0, <1>6 DEF AcquireWrite, CallerTypes, EnvironmentTypes, Numbered
  <2>2. SharedTypes'
    BY <1>0, <1>6 DEF AcquireWrite, SharedTypes, readySems
  <2>3. PollingTypes' /\ EnvironmentTypes'
    BY <1>0, <1>6, Frames DEF AcquireWrite
  <2> QED BY <2>1, <2>2, <2>3 DEF Types
<1>7. CASE WaitForReadyRead \/ TryAcquireReady \/ Expires \/ WaitReturnsFalse \/ ReadAll
  <2>1. CallerTypes' /\ Numbered'
    BY <1>0, <1>7 DEF WaitForReadyRead, TryAcquireReady, Expires, WaitReturnsFalse, ReadAll,
                      CallerTypes, Numbered
  <2>2. data' \in Seq(1..MaxCommands)
    BY <1>0, <1>7, EmptySequence DEF WaitForReadyRead, TryAcquireReady, Expires,
                                     WaitReturnsFalse, ReadAll, SharedTypes
  <2>3. semReadyReq' \in Nat /\ semReady' \in Nat
    BY <1>0, <1>7 DEF WaitForReadyRead, TryAcquireReady, Expires, WaitReturnsFalse, TakeBack,
                      ReadAll, SharedTypes, readySems
  <2>4. SharedTypes'
    BY <1>0, <1>7, <2>2, <2>3 DEF WaitForReadyRead, TryAcquireReady, Expires,
                                  WaitReturnsFalse, ReadAll, SharedTypes, writeSems
  <2>5. PollingTypes' /\ EnvironmentTypes'
    BY <1>0, <1>7, Frames DEF WaitForReadyRead, TryAcquireReady, Expires, WaitReturnsFalse,
                              ReadAll
  <2> QED BY <2>1, <2>4, <2>5 DEF Types
<1> QED BY <1>1, <1>2, <1>3, <1>4, <1>5, <1>6, <1>7 DEF Caller

\* saveNewData appends one answer and moves at most one token.
LEMMA SaveTypes ==
  ASSUME SharedTypes, got \in 1..MaxCommands, SaveNewData
  PROVE  data' \in Seq(1..MaxCommands) /\ semReadyReq' \in Nat /\ semReady' \in Nat
<1>1. data' \in Seq(1..MaxCommands)
  BY DEF SharedTypes, SaveNewData
<1>2. CASE semReadyReq > 0
  BY <1>1, <1>2 DEF SharedTypes, SaveNewData, readySems
<1>3. CASE semReadyReq = 0
  BY <1>1, <1>3 DEF SharedTypes, SaveNewData, readySems
<1> QED BY <1>1, <1>2, <1>3 DEF SharedTypes

\* The steps of the two polling threads.
LEMMA PollingStep == Types /\ (Sender \/ Receiver) => Types'
<1> SUFFICES ASSUME Types, Sender \/ Receiver PROVE Types'
  OBVIOUS
<1>0. CallerTypes /\ PollingTypes /\ SharedTypes /\ EnvironmentTypes /\ Numbered
  BY DEF Types
<1>1. CASE SenderReads \/ SenderTests
  <2>1. PollingTypes'
    BY <1>0, <1>1 DEF SenderReads, SenderTests, PollingTypes, EnvironmentTypes, receiverVars
  <2>2. CallerTypes' /\ Numbered' /\ SharedTypes' /\ EnvironmentTypes'
    BY <1>0, <1>1, Frames DEF SenderReads, SenderTests
  <2> QED BY <2>1, <2>2 DEF Types
<1>2. CASE SenderTries
  <2>1. PollingTypes'
    BY <1>0, <1>2 DEF SenderTries, TakeRequest, PollingTypes, receiverVars
  <2>2. semWriteReq' \in Nat
    BY <1>0, <1>2 DEF SenderTries, TakeRequest, SharedTypes
  <2>3. SharedTypes'
    BY <1>0, <1>2, <2>2 DEF SenderTries, SharedTypes, readySems
  <2>4. CallerTypes' /\ Numbered' /\ EnvironmentTypes'
    BY <1>0, <1>2, Frames DEF SenderTries
  <2> QED BY <2>1, <2>3, <2>4 DEF Types
<1>3. CASE SenderSettles
  <2>1. PollingTypes'
    BY <1>0, <1>3 DEF SenderSettles, PollingTypes, receiverVars
  <2>2. semWriteReq' \in Nat /\ semWrite' \in Nat
    <3>1. CASE senderStatus \in InProgress
      BY <1>0, <1>3, <3>1 DEF SenderSettles, SharedTypes
    <3>2. CASE senderStatus \notin InProgress
      BY <1>0, <1>3, <3>2 DEF SenderSettles, SharedTypes
    <3> QED BY <3>1, <3>2
  <2>3. seq' \in 0..SeqMax /\ (seq > 0 => seq' > 0)
    BY <1>0, <1>3, Bounds DEF SenderSettles, ResetSequenznumber, SharedTypes, EnvironmentTypes
  <2>4. SharedTypes'
    BY <1>0, <1>3, <2>2, <2>3 DEF SenderSettles, SharedTypes, readySems
  <2>5. Numbered'
    BY <1>0, <1>3, <2>3 DEF SenderSettles, Numbered, callerVars
  <2>6. CallerTypes' /\ EnvironmentTypes'
    BY <1>0, <1>3, Frames DEF SenderSettles
  <2> QED BY <2>1, <2>4, <2>5, <2>6 DEF Types
<1>4. CASE ReceiverReads
  <2>1. PollingTypes'
    BY <1>0, <1>4 DEF ReceiverReads, PollingTypes, EnvironmentTypes, senderVars
  <2>2. CallerTypes' /\ Numbered' /\ SharedTypes' /\ EnvironmentTypes'
    BY <1>0, <1>4, Frames DEF ReceiverReads
  <2> QED BY <2>1, <2>2 DEF Types
<1>5. CASE ReceiverGets
  <2>1. got' \in 0..MaxCommands
    BY <1>0, <1>5, Bounds DEF ReceiverGets, PollingTypes, EnvironmentTypes
  <2>2. PollingTypes'
    BY <1>0, <1>5, <2>1 DEF ReceiverGets, PollingTypes, senderVars
  <2>3. failures' \in 0..MaxFailures
    BY <1>0, <1>5, Bounds DEF ReceiverGets, May, EnvironmentTypes
  <2>4. EnvironmentTypes'
    BY <1>0, <1>5, <2>3 DEF ReceiverGets, EnvironmentTypes, station
  <2>5. CallerTypes' /\ Numbered' /\ SharedTypes'
    BY <1>0, <1>5, Frames DEF ReceiverGets
  <2> QED BY <2>2, <2>4, <2>5 DEF Types
<1>6. CASE ReceiverSaves
  <2>1. PollingTypes'
    BY <1>0, <1>6 DEF ReceiverSaves, Toggle, PollingTypes, senderVars
  <2>2. data' \in Seq(1..MaxCommands) /\ semReadyReq' \in Nat /\ semReady' \in Nat
    <3>1. CASE got = 0
      BY <1>0, <1>6, <3>1 DEF ReceiverSaves, SharedTypes, readySems
    <3>2. CASE got # 0
      <4>1. got \in 1..MaxCommands
        BY <1>0, <3>2, Bounds DEF PollingTypes
      <4>2. SaveNewData
        BY <1>6, <3>2 DEF ReceiverSaves
      <4> QED BY <1>0, <4>1, <4>2, SaveTypes
    <3> QED BY <3>1, <3>2
  <2>3. SharedTypes'
    BY <1>0, <1>6, <2>2 DEF ReceiverSaves, SharedTypes, writeSems
  <2>4. CallerTypes' /\ Numbered' /\ EnvironmentTypes'
    BY <1>0, <1>6, Frames DEF ReceiverSaves
  <2> QED BY <2>1, <2>3, <2>4 DEF Types
<1> QED BY <1>1, <1>2, <1>3, <1>4, <1>5, <1>6 DEF Sender, Receiver

\* The steps of the station: all of them leave the program alone, but for the
\* ghost of StationFails.
LEMMA StationStep == Types /\ Station => Types'
<1> SUFFICES ASSUME Types, Station PROVE Types'
  OBVIOUS
<1>0. CallerTypes /\ PollingTypes /\ SharedTypes /\ EnvironmentTypes /\ Numbered
  BY DEF Types
<1>1. CASE StationFails
  <2>1. CallerTypes' /\ Numbered'
    BY <1>0, <1>1 DEF StationFails, CallerTypes, Numbered
  <2>2. failures' \in 0..MaxFailures
    BY <1>0, <1>1, Bounds DEF StationFails, May, EnvironmentTypes
  <2>3. EnvironmentTypes'
    BY <1>0, <1>1, <2>2 DEF StationFails, EnvironmentTypes, Statuses
  <2>4. PollingTypes' /\ SharedTypes'
    BY <1>0, <1>1, Frames DEF StationFails
  <2> QED BY <2>1, <2>3, <2>4 DEF Types
<1>2. CASE UNCHANGED program /\ EnvironmentTypes'
  BY <1>0, <1>2, Frames DEF program, Types
<1>3. CASE StationShowsBusy \/ StationDone
  <2>1. EnvironmentTypes'
    BY <1>0, <1>3 DEF StationShowsBusy, StationDone, Statuses, InProgress, EnvironmentTypes,
                      station
  <2> QED BY <1>2, <1>3, <2>1 DEF StationShowsBusy, StationDone
<1>4. CASE StationSends
  <2>1. telegram \in [seq : 1..SeqMax, no : 1..MaxCommands]
    BY <1>0, <1>4 DEF StationSends, EnvironmentTypes
  <2>2. answers' \in Seq(1..MaxCommands)
    BY <1>0, <1>4, <2>1 DEF StationSends, EnvironmentTypes
  <2>3. receipt' \in 1..SeqMax /\ accepted' \in 0..MaxCommands /\ telegram' = NoTelegram
    BY <1>4, <2>1, Bounds DEF StationSends
  <2>4. EnvironmentTypes'
    BY <1>0, <1>4, <2>2, <2>3 DEF StationSends, EnvironmentTypes
  <2> QED BY <1>2, <1>4, <2>4 DEF StationSends
<1>5. CASE StationRejects
  <2>1. EnvironmentTypes'
    BY <1>0, <1>5 DEF StationRejects, Statuses, EnvironmentTypes
  <2> QED BY <1>2, <1>5, <2>1 DEF StationRejects
<1>6. CASE ReaderAnswers
  <2>1. answers' \in Seq(1..MaxCommands) /\ Head(answers) \in 1..MaxCommands
    BY <1>0, <1>6, SequenceTail DEF ReaderAnswers, EnvironmentTypes
  <2>2. rcv' \in 0..SeqMax
    BY <1>0, <1>6, SuccessorRange, Bounds DEF ReaderAnswers, EnvironmentTypes
  <2>3. record' \in [BOOLEAN -> 0..MaxCommands]
    BY <1>0, <1>6, <2>1 DEF ReaderAnswers, EnvironmentTypes
  <2>4. EnvironmentTypes'
    BY <1>0, <1>6, <2>1, <2>2, <2>3 DEF ReaderAnswers, EnvironmentTypes
  <2> QED BY <1>2, <1>6, <2>4 DEF ReaderAnswers
<1>7. CASE Unplug
  <2>1. answers' \in Seq(1..MaxCommands)
    BY <1>7, EmptySequence DEF Unplug
  <2>2. failures' \in 0..MaxFailures
    BY <1>0, <1>7, Bounds DEF Unplug, May, EnvironmentTypes
  <2>3. EnvironmentTypes'
    BY <1>0, <1>7, <2>1, <2>2 DEF Unplug, EnvironmentTypes, Statuses
  <2> QED BY <1>2, <1>7, <2>3 DEF Unplug
<1>8. CASE Plug
  <2>1. EnvironmentTypes'
    BY <1>0, <1>8 DEF Plug, EnvironmentTypes, station
  <2> QED BY <1>2, <1>8, <2>1 DEF Plug
<1> QED BY <1>1, <1>3, <1>4, <1>5, <1>6, <1>7, <1>8 DEF Station

LEMMA TypesInvariant == Spec => []Types
<1>1. Types /\ [Next]_vars => Types'
  <2> SUFFICES ASSUME Types, [Next]_vars PROVE Types'
    OBVIOUS
  <2>1. CASE UNCHANGED vars
    BY <2>1, Frames DEF Types, vars
  <2> QED BY <2>1, CallerStep, PollingStep, StationStep DEF Next
<1> QED BY <1>1, InitTypes, PTL DEF Spec

\* The type invariant holds for every SeqMax and with every fault.
THEOREM TypeCorrect == Spec => []TypeOK
<1>1. Types => TypeOK
  BY DEF Types, CallerTypes, PollingTypes, SharedTypes, EnvironmentTypes, TypeOK
<1> QED BY <1>1, TypesInvariant, PTL

-----------------------------------------------------------------------------
\* writeData and checkSendStatus pass exactly one token to and fro while a
\* write is blocked, and there is none otherwise: whatever fails, whenever the
\* threads are preempted, no write returns because of a token released for an
\* earlier one.
THEOREM HandshakeKept == Spec => []WriteHandshake
<1>1. Init => WriteHandshake
  BY DEF Init, WriteHandshake, One
<1>2. Types /\ WriteHandshake /\ [Next]_vars => WriteHandshake'
  <2> SUFFICES ASSUME Types, WriteHandshake, [Next]_vars PROVE WriteHandshake'
    OBVIOUS
  <2> USE DEF Types, SharedTypes, WriteHandshake, One
  <2>1. CASE SetValues \/ Open \/ Close \/ Write \/ RecordRefused
    BY <2>1 DEF SetValues, Open, Close, Write, RecordRefused, senderVars, writeSems
  <2>2. CASE RecordConfirmed
    BY <2>2 DEF RecordConfirmed, senderVars
  <2>3. CASE AcquireWrite
    BY <2>3 DEF AcquireWrite, senderVars
  <2>4. CASE WriteReturns \/ WaitForReadyRead \/ TryAcquireReady \/ Expires
    BY <2>4 DEF WriteReturns, WaitForReadyRead, TryAcquireReady, Expires, senderVars, writeSems
  <2>5. CASE WaitReturnsFalse \/ ReadAll
    BY <2>5 DEF WaitReturnsFalse, ReadAll, senderVars, writeSems
  <2>6. CASE SenderReads \/ SenderTests
    BY <2>6 DEF SenderReads, SenderTests, callerVars, writeSems
  <2>7. CASE SenderTries
    BY <2>7 DEF SenderTries, TakeRequest, callerVars
  <2>8. CASE SenderSettles
    BY <2>8 DEF SenderSettles, callerVars
  <2>9. CASE Receiver
    BY <2>9 DEF Receiver, ReceiverReads, ReceiverGets, ReceiverSaves, callerVars, senderVars,
                writeSems
  <2>10. CASE Station
    BY <2>10 DEF Station, StationShowsBusy, StationSends, StationDone, StationRejects,
                 StationFails, ReaderAnswers, Unplug, Plug, program, callerVars, senderVars,
                 writeSems
  <2>11. CASE UNCHANGED vars
    BY <2>11 DEF vars, callerVars, senderVars, writeSems
  <2> QED BY <2>1, <2>2, <2>3, <2>4, <2>5, <2>6, <2>7, <2>8, <2>9, <2>10, <2>11
             DEF Next, Caller, Sender
<1> QED BY <1>1, <1>2, TypesInvariant, PTL DEF Spec

-----------------------------------------------------------------------------
\* A write that blocks is not forgotten, the safety half of WriteEnds: its token
\* is there, or the station still has its telegram, or the inputs show, now or
\* when the transfer is no longer in progress, what makes a pass of
\* checkSendStatus answer it, the receipt of this very telegram or an error.
NeverForgotten ==
  caller = "acquire" =>
    \/ semWrite > 0
    \/ telegram # NoTelegram
    \/ receipt = seq
    \/ status \notin InProgress \cup {"0"}

\* The telegram still with the station is that of the write under way, as long
\* as checkSendStatus has not answered.
OwnTelegram ==
  caller = "acquire" /\ semWrite = 0 /\ telegram # NoTelegram => telegram.seq = seq

LEMMA AwaitedStep ==
  ASSUME "unplug" \notin Faults, Types, NeverForgotten, OwnTelegram, [Next]_vars
  PROVE  NeverForgotten' /\ OwnTelegram'
<1> USE DEF NeverForgotten, OwnTelegram
<1>0. semWrite \in Nat
  BY DEF Types, SharedTypes
<1>1. CASE RecordConfirmed
  <2>1. telegram' # NoTelegram /\ telegram'.seq = seq'
    BY <1>1 DEF RecordConfirmed, NoTelegram, Types, Numbered
  <2> QED BY <2>1
<1>2. CASE SetValues \/ Open \/ Close
  BY <1>2 DEF SetValues, Open, Close
<1>3. CASE Write \/ RecordRefused \/ AcquireWrite \/ WriteReturns \/ WaitForReadyRead
  BY <1>3 DEF Write, RecordRefused, AcquireWrite, WriteReturns, WaitForReadyRead
<1>4. CASE TryAcquireReady \/ Expires \/ WaitReturnsFalse \/ ReadAll
  BY <1>4 DEF TryAcquireReady, Expires, WaitReturnsFalse, ReadAll
<1>5. CASE SenderReads \/ SenderTests \/ SenderTries \/ Receiver
  BY <1>5 DEF SenderReads, SenderTests, SenderTries, Receiver, ReceiverReads, ReceiverGets,
              ReceiverSaves, callerVars, writeSems, environment, station
<1>6. CASE SenderSettles
  <2>1. semWrite' > 0 \/ (semWrite' = semWrite /\ seq' = seq)
    BY <1>0, <1>6 DEF SenderSettles
  <2>2. UNCHANGED <<caller, telegram, receipt, status>>
    BY <1>6 DEF SenderSettles, callerVars, environment, station
  <2> QED BY <2>1, <2>2
<1>7. CASE StationSends
  BY <1>0, <1>7 DEF StationSends, program, callerVars, writeSems
<1>8. CASE StationRejects \/ StationFails
  BY <1>8 DEF StationRejects, StationFails, SequenceError, InProgress
<1>9. CASE StationShowsBusy \/ StationDone \/ ReaderAnswers \/ Plug
  BY <1>9 DEF StationShowsBusy, StationDone, ReaderAnswers, Plug, InProgress, program, station,
              callerVars, writeSems
<1>10. ~Unplug
  BY DEF Unplug, May
<1>11. CASE UNCHANGED vars
  BY <1>11 DEF vars, callerVars, writeSems, environment, station
<1> QED BY <1>1, <1>2, <1>3, <1>4, <1>5, <1>6, <1>7, <1>8, <1>9, <1>10, <1>11
        DEF Next, Caller, Sender, Station

\* No wake-up is lost between writeData and checkSendStatus as long as the
\* station stays connected, whatever else fails, however the inputs lag and
\* wherever the polling thread is preempted.
THEOREM WritesAreAwaited ==
  ASSUME "unplug" \notin Faults
  PROVE  Spec => []NeverForgotten
<1>1. Init => NeverForgotten /\ OwnTelegram
  BY DEF Init, NeverForgotten, OwnTelegram
<1>2. Types /\ NeverForgotten /\ OwnTelegram /\ [Next]_vars => NeverForgotten' /\ OwnTelegram'
  BY AwaitedStep
<1> QED BY <1>1, <1>2, TypesInvariant, PTL DEF Spec

\* An answer that has arrived is not slept through: while waitForReadyRead
\* blocks without a token, nothing has been received, and its request is there
\* for saveNewData to take.
AnswerIsNoticed == caller = "wait" /\ semReady = 0 => data = <<>> /\ semReadyReq > 0

\* It is unconditional: late answers leave tokens behind, of requests taken
\* before they could be taken back, but they never take one away.
THEOREM AnswersAreNoticed == Spec => []AnswerIsNoticed
<1>1. Init => AnswerIsNoticed
  BY DEF Init, AnswerIsNoticed
<1>2. Types /\ AnswerIsNoticed /\ [Next]_vars => AnswerIsNoticed'
  <2> SUFFICES ASSUME Types, AnswerIsNoticed, [Next]_vars PROVE AnswerIsNoticed'
    OBVIOUS
  <2> USE DEF AnswerIsNoticed
  <2>0. semReadyReq \in Nat /\ semReady \in Nat
    BY DEF Types, SharedTypes
  <2>1. CASE SetValues \/ Open \/ Close \/ Write \/ RecordConfirmed \/ RecordRefused
    BY <2>1 DEF SetValues, Open, Close, Write, RecordConfirmed, RecordRefused
  <2>2. CASE AcquireWrite \/ WriteReturns \/ TryAcquireReady \/ Expires
    BY <2>2 DEF AcquireWrite, WriteReturns, TryAcquireReady, Expires
  <2>3. CASE WaitReturnsFalse \/ ReadAll
    BY <2>3 DEF WaitReturnsFalse, ReadAll
  <2>4. CASE WaitForReadyRead
    BY <2>0, <2>4 DEF WaitForReadyRead
  <2>5. CASE ReceiverSaves
    <3>1. UNCHANGED caller
      BY <2>5 DEF ReceiverSaves, callerVars
    <3>2. CASE got = 0
      BY <2>5, <3>1, <3>2 DEF ReceiverSaves, readySems
    <3>3. CASE got # 0 /\ semReadyReq > 0
      BY <2>0, <2>5, <3>1, <3>3 DEF ReceiverSaves, SaveNewData
    <3>4. CASE got # 0 /\ semReadyReq = 0
      BY <2>0, <2>5, <3>1, <3>4 DEF ReceiverSaves, SaveNewData, readySems
    <3> QED BY <2>0, <3>2, <3>3, <3>4
  <2>6. CASE Sender \/ ReceiverReads \/ ReceiverGets \/ Station \/ UNCHANGED vars
    <3>1. UNCHANGED <<caller, data, semReadyReq, semReady>>
      BY <2>6 DEF Sender, SenderReads, SenderTests, SenderTries, SenderSettles, ReceiverReads,
                  ReceiverGets, Station, StationShowsBusy, StationSends, StationDone,
                  StationRejects, StationFails, ReaderAnswers, Unplug, Plug, program, vars,
                  callerVars, readySems
    <3> QED BY <3>1
  <2> QED BY <2>1, <2>2, <2>3, <2>4, <2>5, <2>6 DEF Next, Caller, Receiver
<1> QED BY <1>1, <1>2, TypesInvariant, PTL DEF Spec

-----------------------------------------------------------------------------
\* Why the copy of SEND_Status decides: from the confirmed record on, the
\* station is busy with this command's telegram, or has sent it, or shows an
\* error; once it has shown "0" there is nothing it could still send.
Busy(n) == telegram # NoTelegram /\ telegram.no = n /\ status \in InProgress
Settled(n) == telegram = NoTelegram /\ (accepted = n \/ status \notin InProgress \cup {"0"})

Underway ==
  /\ caller \in {"acquire", "verify"} => Busy(no) \/ Settled(no)
  /\ caller = "verify" /\ callerStatus = "0" => telegram = NoTelegram /\ accepted = no
  /\ caller \in {"written", "wait", "read", "expired"} => telegram = NoTelegram /\ accepted = no

LEMMA UnderwayStep ==
  ASSUME "lag" \notin Faults, "unplug" \notin Faults, Numbered, Underway, [Next]_vars
  PROVE  Underway'
<1> USE DEF Underway, Busy, Settled
<1>1. CASE SetValues \/ Open \/ Close \/ Write
  BY <1>1 DEF SetValues, Open, Close, Write, environment, station
<1>2. CASE RecordConfirmed
  BY <1>2 DEF RecordConfirmed, InProgress, Numbered, NoTelegram
<1>3. CASE RecordRefused
  BY <1>3 DEF RecordRefused
<1>4. CASE AcquireWrite
  BY <1>4 DEF AcquireWrite, InProgress, environment, station
<1>5. CASE WriteReturns
  BY <1>5 DEF WriteReturns, WriteSucceeds, environment, station
<1>6. CASE WaitForReadyRead \/ TryAcquireReady \/ Expires \/ WaitReturnsFalse \/ ReadAll
  BY <1>6 DEF WaitForReadyRead, TryAcquireReady, Expires, WaitReturnsFalse, ReadAll,
              environment, station
<1>7. CASE Sender \/ Receiver
  <2>1. UNCHANGED <<callerVars, status, station>>
    BY <1>7 DEF Sender, SenderReads, SenderTests, SenderTries, SenderSettles, Receiver,
                ReceiverReads, ReceiverGets, ReceiverSaves, environment
  <2> QED BY <2>1 DEF callerVars, station
<1>8. CASE StationSends
  BY <1>8 DEF StationSends, program, callerVars
<1>9. CASE StationShowsBusy \/ StationDone
  BY <1>9 DEF StationShowsBusy, StationDone, program, callerVars, station
<1>10. CASE StationRejects \/ StationFails
  BY <1>10 DEF StationRejects, StationFails, SequenceError, InProgress, program, callerVars
<1>11. CASE ReaderAnswers \/ Plug
  BY <1>11 DEF ReaderAnswers, Plug, program, callerVars, station
<1>12. CASE Unplug
  BY <1>12 DEF Unplug, May
<1>13. CASE UNCHANGED vars
  BY <1>13 DEF vars, callerVars, environment, station
<1> QED BY <1>1, <1>2, <1>3, <1>4, <1>5, <1>6, <1>7, <1>8, <1>9, <1>10, <1>11, <1>12, <1>13
        DEF Next, Caller, Station

\* As long as the inputs show a busy station no later than the record is
\* confirmed and the station stays connected, a write that reports success was
\* sent on, with late answers, failing telegrams and preempted polling threads.
THEOREM AcknowledgedIsSent ==
  ASSUME "lag" \notin Faults, "unplug" \notin Faults
  PROVE  Spec => []SuccessIsAccepted
<1>1. Init => Underway
  BY DEF Init, Underway
<1>2. Types => Numbered
  BY DEF Types
<1>3. Underway => SuccessIsAccepted
  BY DEF Underway, SuccessIsAccepted
<1> QED BY <1>1, <1>2, <1>3, UnderwayStep, TypesInvariant, PTL DEF Spec

-----------------------------------------------------------------------------
\* The other way round: a telegram whose write has failed for the caller has not
\* been sent on, and will not be.  Its answer never comes, to be taken for that of
\* the next command.
RefusedIsNotSent ==
  [][caller = "verify" /\ caller' = "idle" => accepted # no /\ telegram = NoTelegram]_vars

\* What keeps the answer of checkSendStatus from being too early: as long as the
\* station has the telegram, inputs and copies show that it is busy, and after it
\* has sent it they never show an error.
InTime ==
  /\ accepted <= no
  /\ caller = "confirm" => accepted < no
  /\ telegram # NoTelegram =>
       /\ caller = "acquire" /\ semWrite = 0 /\ status \in InProgress
       /\ telegram.no = no /\ telegram.seq = seq /\ accepted # no
       /\ sender \in {"test", "try", "settle"} => senderStatus \in InProgress
  /\ caller = "acquire" /\ sender \in {"test", "try", "settle"} /\ senderStatus \notin InProgress
       => status \notin InProgress
  /\ semWrite > 0 => status \notin InProgress
  /\ caller \in {"acquire", "verify"} /\ accepted = no => receipt = seq
  /\ caller = "acquire" /\ accepted = no =>
       /\ status \in InProgress \cup {"0"}
       /\ sender \in {"test", "try", "settle"} => senderStatus \in InProgress \cup {"0"}
  /\ caller = "verify" /\ accepted = no => callerStatus = "0"

LEMMA InTimeStep ==
  ASSUME "lag" \notin Faults, "preempt" \notin Faults, Types, WriteHandshake, InTime, [Next]_vars
  PROVE  InTime'
<1> USE DEF InTime
<1>0. /\ semWriteReq \in Nat /\ semWrite \in Nat /\ no \in Nat /\ accepted \in Nat
      /\ "0" \notin InProgress /\ SequenceError \notin InProgress \cup {"0"}
      /\ caller = "acquire" \/ (semWriteReq = 0 /\ semWrite = 0 /\ sender # "settle")
      /\ sender = "settle" => semWriteReq = 0 /\ semWrite = 0
  BY Bounds DEF Types, SharedTypes, CallerTypes, EnvironmentTypes, WriteHandshake, One, InProgress, SequenceError
<1>1. CASE SetValues
  BY <1>0, <1>1 DEF SetValues, environment, station, writeSems
<1>2. CASE Open \/ Close \/ RecordRefused
  BY <1>0, <1>2 DEF Open, Close, RecordRefused, environment, station, writeSems, senderVars
<1>3. CASE Write
  BY <1>0, <1>3 DEF Write, environment, station, writeSems, senderVars
<1>4. CASE RecordConfirmed
  <2>1. /\ caller = "confirm" /\ caller' = "acquire" /\ semWrite' = 0
        /\ telegram'.no = no' /\ telegram'.seq = seq' /\ accepted' = accepted
        /\ no' = no /\ UNCHANGED <<sender, senderStatus>>
    BY <1>0, <1>4 DEF RecordConfirmed, senderVars
  <2>2. status' \in InProgress
    BY <1>4 DEF RecordConfirmed, InProgress
  <2>3. sender \notin {"test", "try", "settle"}
    BY <1>0, <1>4 DEF RecordConfirmed
  <2> QED BY <1>0, <2>1, <2>2, <2>3
<1>5. CASE AcquireWrite
  BY <1>0, <1>5 DEF AcquireWrite, environment, station, senderVars
<1>6. CASE WriteReturns \/ WaitForReadyRead \/ TryAcquireReady \/ Expires
  BY <1>0, <1>6 DEF WriteReturns, WaitForReadyRead, TryAcquireReady, Expires, environment, station,
                    writeSems, senderVars
<1>7. CASE WaitReturnsFalse \/ ReadAll
  BY <1>0, <1>7 DEF WaitReturnsFalse, ReadAll, environment, station, writeSems, senderVars
<1>8. CASE SenderReads \/ SenderTests \/ SenderTries
  <2>1. UNCHANGED <<caller, callerStatus, status, receipt, telegram, accepted, no, seq, semWrite>>
    BY <1>8 DEF SenderReads, SenderTests, SenderTries, TakeRequest, callerVars, environment, station,
                writeSems
  <2>2. \/ senderStatus' = status
        \/ senderStatus' = senderStatus /\ (sender' \in {"test", "try", "settle"} => sender \in {"test", "try"})
    BY <1>8 DEF SenderReads, SenderTests, SenderTries, TakeRequest
  <2> QED BY <2>1, <2>2
<1>9. CASE SenderSettles
  <2>1. /\ sender = "settle" /\ sender' = "sleep" /\ caller = "acquire"
        /\ UNCHANGED <<caller, callerStatus, status, receipt, telegram, accepted, no>>
    BY <1>0, <1>9 DEF SenderSettles, callerVars, environment, station
  <2>2. CASE senderStatus \in InProgress
    BY <1>9, <2>1, <2>2 DEF SenderSettles
  <2>3. CASE senderStatus \notin InProgress
    <3>1. telegram = NoTelegram /\ status \notin InProgress
      BY <2>1, <2>3
    <3>2. accepted = no => seq' = seq
      BY <1>0, <1>9, <2>1, <2>3 DEF SenderSettles, ResetSequenznumber
    <3> QED BY <2>1, <3>1, <3>2
  <2> QED BY <2>2, <2>3
<1>10. CASE Receiver
  <2>1. UNCHANGED <<caller, callerStatus, status, receipt, telegram, accepted, no, seq, semWrite,
                    sender, senderStatus>>
    BY <1>10 DEF Receiver, ReceiverReads, ReceiverGets, ReceiverSaves, callerVars, senderVars,
                 environment, station, writeSems
  <2> QED BY <2>1
<1>11. CASE StationSends
  <2>1. /\ telegram # NoTelegram /\ telegram' = NoTelegram
        /\ receipt' = telegram.seq /\ accepted' = telegram.no
        /\ UNCHANGED <<caller, callerStatus, status, no, seq, semWrite, sender, senderStatus>>
    BY <1>11 DEF StationSends, program, callerVars, senderVars, writeSems
  <2> QED BY <1>0, <2>1
<1>12. CASE StationRejects \/ StationFails
  <2>1. /\ telegram # NoTelegram /\ telegram' = NoTelegram /\ status' \notin InProgress
        /\ UNCHANGED <<caller, callerStatus, receipt, accepted, no, seq, semWrite, sender, senderStatus>>
    BY <1>0, <1>12 DEF StationRejects, StationFails, program, callerVars, senderVars, writeSems, InProgress
  <2> QED BY <1>0, <2>1
<1>13. CASE StationDone \/ Unplug
  <2>1. /\ telegram' = NoTelegram /\ status' = "0"
        /\ UNCHANGED <<caller, callerStatus, receipt, accepted, no, seq, semWrite, sender, senderStatus>>
    BY <1>13 DEF StationDone, Unplug, program, callerVars, senderVars, writeSems, station
  <2> QED BY <1>0, <2>1
<1>14. CASE StationShowsBusy
  BY <1>14 DEF StationShowsBusy
<1>15. CASE ReaderAnswers \/ Plug
  <2>1. UNCHANGED <<caller, callerStatus, status, receipt, telegram, accepted, no, seq, semWrite,
                    sender, senderStatus>>
    BY <1>15 DEF ReaderAnswers, Plug, program, callerVars, senderVars, writeSems, station
  <2> QED BY <2>1
<1>16. CASE UNCHANGED vars
  BY <1>16 DEF vars, callerVars, senderVars, writeSems, environment, station
<1> QED BY <1>1, <1>2, <1>3, <1>4, <1>5, <1>6, <1>7, <1>8, <1>9, <1>10, <1>11, <1>12, <1>13, <1>14,
           <1>15, <1>16 DEF Next, Caller, Sender, Station

\* With AcknowledgedIsSent: what writeData returns is the truth, whatever telegrams
\* and reads fail, answers are late and connections end.  With inputs that lag or
\* a pass of checkSendStatus that a write overtakes it is not.
THEOREM RefusalsAreTrue ==
  ASSUME "lag" \notin Faults, "preempt" \notin Faults
  PROVE  Spec => RefusedIsNotSent
<1> DEFINE A == caller = "verify" /\ caller' = "idle" => accepted # no /\ telegram = NoTelegram
<1>1. Init => InTime
  BY DEF Init, InTime
<1>2. Types /\ WriteHandshake /\ InTime /\ [Next]_vars => InTime'
  BY InTimeStep
<1>3. InTime /\ [Next]_vars => A
  <2> SUFFICES ASSUME InTime, [Next]_vars, caller = "verify", caller' = "idle"
               PROVE  accepted # no /\ telegram = NoTelegram
    OBVIOUS
  <2>1. WriteReturns
    BY DEF Next, Caller, Sender, Receiver, Station, SetValues, Open, Close, Write, RecordConfirmed,
           RecordRefused, AcquireWrite, WaitForReadyRead, TryAcquireReady, Expires, WaitReturnsFalse,
           ReadAll, SenderReads, SenderTests, SenderTries, SenderSettles, ReceiverReads, ReceiverGets,
           ReceiverSaves, StationShowsBusy, StationSends, StationDone, StationRejects, StationFails,
           ReaderAnswers, Unplug, Plug, program, callerVars, vars
  <2>2. ~WriteSucceeds
    BY <2>1 DEF WriteReturns
  <2> QED BY <2>2 DEF InTime, WriteSucceeds
<1> QED BY <1>1, <1>2, <1>3, TypesInvariant, HandshakeKept, PTL DEF Spec, RefusedIsNotSent

-----------------------------------------------------------------------------
\* The write side, as long as the inputs do not lag, no write overtakes a pass
\* of checkSendStatus and the station stays connected: telegrams can fail, reads
\* can fail, and answers can come too late.
PromptInputs == Faults \subseteq {"error", "timeout", "invalid"}

Failed == {"failed", SequenceError}

\* How far the write is.
InWrite ==
  /\ plugged
  /\ caller \in {"closed", "idle", "confirm"} => telegram = NoTelegram /\ status \notin InProgress
  /\ caller = "acquire" =>
       \/ telegram # NoTelegram /\ telegram.seq = seq /\ telegram.no = no /\ status \in InProgress
       \/ telegram = NoTelegram /\ status \in InProgress \cup {"0"} /\ receipt = seq
       \/ telegram = NoTelegram /\ status \in Failed
  /\ caller = "verify" =>
       /\ telegram = NoTelegram /\ callerStatus = status
       /\ \/ status = "0" /\ receipt = seq
          \/ status \in Failed
  /\ caller \in {"written", "wait", "expired", "read"} =>
       telegram = NoTelegram /\ status = "0" /\ receipt = seq

\* The polling thread answers a write with the final status of this very write,
\* and has then set the number back if the station refused it.
FinalStatus ==
  /\ caller = "acquire" /\ sender \in {"test", "try", "settle"} /\ senderStatus \notin InProgress
       => senderStatus = status
  /\ semWrite > 0 => status \notin InProgress
  /\ (semWrite > 0 \/ caller = "verify") /\ status = SequenceError => seq = receipt

\* The numbers agree, or one write has failed.
NumbersAgree ==
  /\ missed <= 2
  /\ caller \in {"closed", "idle"} /\ missed # 1 => Successor(seq) = Successor(receipt)
  /\ caller = "confirm" /\ missed # 1 => seq = Successor(receipt)
  /\ caller = "acquire" /\ telegram # NoTelegram /\ missed # 1 => seq = Successor(receipt)
  /\ caller \in {"acquire", "verify"} /\ status = SequenceError => missed = 1
  /\ caller \in {"acquire", "verify"} /\ status = "failed" => missed = 0

WriteInv == InWrite /\ FinalStatus /\ NumbersAgree

LEMMA StatusNames ==
  /\ "0" \notin InProgress /\ "0x7001" \in InProgress
  /\ "failed" \notin InProgress /\ SequenceError \notin InProgress
  /\ SequenceError \notin {"0", "failed"}
BY DEF InProgress, SequenceError

\* The caller's steps.
LEMMA WriteCaller ==
  ASSUME PromptInputs, Types, WriteHandshake, WriteInv, Caller
  PROVE  WriteInv'
<1> USE DEF WriteInv, InWrite, FinalStatus, NumbersAgree, Failed
<1>0. semWriteReq \in Nat /\ semWrite \in Nat /\ missed \in Nat
  BY DEF Types, SharedTypes, CallerTypes
<1>1. CASE SetValues
  BY <1>1 DEF SetValues, environment, station, writeSems
<1>2. CASE Open \/ Close
  BY <1>2 DEF Open, Close, environment, station, senderVars, writeSems
<1>3. CASE Write
  <2>1. /\ caller = "idle" /\ caller' = "confirm" /\ seq' = Successor(seq)
        /\ UNCHANGED <<missed, plugged, status, receipt, telegram, semWrite>>
    BY <1>3 DEF Write, environment, station, writeSems
  <2>2. semWrite = 0
    BY <1>0, <2>1 DEF WriteHandshake, One
  <2> QED BY <2>1, <2>2
<1>4. CASE RecordConfirmed
  <2>1. sender' \notin {"test", "try", "settle"} /\ semWrite = 0
    <3>1. sender # "settle" /\ semWrite = 0
      BY <1>0, <1>4 DEF WriteHandshake, One, RecordConfirmed
    <3> QED BY <1>4, <3>1 DEF RecordConfirmed, senderVars, PromptInputs
  <2>2. telegram' # NoTelegram /\ telegram'.seq = seq' /\ telegram'.no = no'
    BY <1>4 DEF RecordConfirmed, NoTelegram, Types, Numbered
  <2>3. status' = "0x7001"
    BY <1>4 DEF RecordConfirmed, PromptInputs
  <2> QED BY <1>4, <2>1, <2>2, <2>3, StatusNames DEF RecordConfirmed
<1>5. ~RecordRefused
  BY DEF RecordRefused
<1>6. CASE AcquireWrite
  <2>1. semWrite = 1 /\ semWrite' = 0 /\ status \notin InProgress
    BY <1>0, <1>6 DEF WriteHandshake, One, AcquireWrite
  <2> QED BY <1>6, <2>1, StatusNames DEF AcquireWrite, environment, station, senderVars
<1>7. CASE WriteReturns
  <2>1. semWrite = 0
    BY <1>0, <1>7 DEF WriteHandshake, One, WriteReturns
  <2>2. CASE status = "0"
    BY <1>7, <2>1, <2>2, StatusNames
       DEF WriteReturns, WriteSucceeds, environment, station, writeSems
  <2>3. CASE status \in Failed
    <3>1. caller' = "idle" /\ missed' = missed + 1 /\ missed \in {0, 1}
      BY <1>7, <2>3, StatusNames DEF WriteReturns, WriteSucceeds
    <3>2. missed = 1 => seq = receipt
      BY <1>7, <2>3, StatusNames DEF WriteReturns
    <3> QED BY <1>7, <2>1, <2>3, <3>1, <3>2, StatusNames
            DEF WriteReturns, environment, station, writeSems
  <2> QED BY <1>7, <2>2, <2>3 DEF WriteReturns
<1>8. CASE WaitForReadyRead \/ TryAcquireReady \/ Expires \/ WaitReturnsFalse \/ ReadAll
  <2>1. /\ caller \in {"written", "wait", "expired", "read"}
        /\ caller' \in {"wait", "expired", "read", "idle"}
        /\ UNCHANGED <<missed, plugged, status, receipt, telegram, seq, semWrite>>
    BY <1>8 DEF WaitForReadyRead, TryAcquireReady, Expires, WaitReturnsFalse, ReadAll,
                environment, station, writeSems
  <2>2. semWrite = 0
    BY <1>0, <2>1 DEF WriteHandshake, One
  <2> QED BY <2>1, <2>2, StatusNames
<1> QED BY <1>1, <1>2, <1>3, <1>4, <1>5, <1>6, <1>7, <1>8 DEF Caller

\* The steps of checkSendStatus.
LEMMA WriteSender ==
  ASSUME PromptInputs, Types, WriteHandshake, WriteInv, Sender
  PROVE  WriteInv'
<1> USE DEF WriteInv, InWrite, FinalStatus, NumbersAgree, Failed
<1>0. semWriteReq \in Nat /\ semWrite \in Nat
  BY DEF Types, SharedTypes
<1>1. CASE SenderReads \/ SenderTests \/ SenderTries
  <2>1. UNCHANGED <<caller, callerStatus, missed, plugged, status, receipt, telegram, no, seq,
                    semWrite>>
    BY <1>1 DEF SenderReads, SenderTests, SenderTries, TakeRequest, callerVars, environment,
                station, writeSems
  <2>2. \/ senderStatus' = status
        \/ senderStatus' = senderStatus /\ sender \in {"test", "try"}
    BY <1>1 DEF SenderReads, SenderTests, SenderTries, TakeRequest
  <2> QED BY <2>1, <2>2
<1>2. CASE SenderSettles
  <2>1. caller = "acquire" /\ semWrite = 0
    BY <1>0, <1>2 DEF WriteHandshake, One, SenderSettles
  <2>2. /\ UNCHANGED <<caller, callerStatus, missed, plugged, status, receipt, telegram, no>>
        /\ sender' = "sleep"
    BY <1>2 DEF SenderSettles, callerVars, environment, station
  <2>3. CASE senderStatus \in InProgress
    BY <1>2, <2>1, <2>2, <2>3 DEF SenderSettles
  <2>4. CASE senderStatus \notin InProgress
    <3>1. senderStatus = status /\ telegram = NoTelegram
      BY <1>2, <2>1, <2>4 DEF SenderSettles
    <3>2. seq' = IF status = SequenceError THEN receipt ELSE seq
      BY <1>2, <2>4, <3>1 DEF SenderSettles, ResetSequenznumber
    <3> QED BY <1>0, <2>1, <2>2, <2>4, <3>1, <3>2, StatusNames
  <2> QED BY <2>3, <2>4
<1> QED BY <1>1, <1>2 DEF Sender

\* The steps of the station.
LEMMA WriteStation ==
  ASSUME PromptInputs, Types, WriteHandshake, WriteInv, Station
  PROVE  WriteInv'
<1> USE DEF WriteInv
<1>1. ~Unplug /\ ~Plug /\ ~StationShowsBusy
  BY DEF Unplug, Plug, May, StationShowsBusy, InWrite, Types, CallerTypes, Failed, PromptInputs
<1>2. ASSUME telegram # NoTelegram
      PROVE  caller = "acquire" /\ telegram.seq = seq /\ telegram.no = no /\ status \in InProgress
  BY <1>2 DEF InWrite, Types, CallerTypes
<1>3. status \in InProgress /\ caller = "acquire" =>
        /\ semWrite = 0
        /\ sender \in {"test", "try", "settle"} => senderStatus \in InProgress
  BY DEF FinalStatus, Types, SharedTypes
<1>4. CASE StationSends \/ StationRejects \/ StationFails
  <2>1. telegram # NoTelegram /\ telegram' = NoTelegram /\ semWrite = 0 /\ caller = "acquire"
        /\ (sender \in {"test", "try", "settle"} => senderStatus \in InProgress)
    BY <1>2, <1>3, <1>4 DEF StationSends, StationRejects, StationFails
  <2>2. UNCHANGED <<caller, callerStatus, sender, senderStatus, semWrite, plugged, no, seq>>
    BY <1>4 DEF StationSends, StationRejects, StationFails, program, callerVars, senderVars,
                writeSems
  <2>3. FinalStatus'
    BY <2>1, <2>2 DEF FinalStatus
  <2>4. CASE StationSends
    <3>1. receipt' = seq /\ status' = status /\ status \in InProgress /\ missed' = missed
      BY <1>2, <2>1, <2>4 DEF StationSends, program, callerVars
    <3> QED BY <2>1, <2>2, <2>3, <3>1, StatusNames DEF InWrite, NumbersAgree
  <2>5. CASE StationRejects
    <3>1. status' = SequenceError /\ UNCHANGED <<receipt, missed>> /\ seq # Successor(receipt)
      BY <1>2, <2>1, <2>5 DEF StationRejects, program, callerVars
    <3> QED BY <2>1, <2>2, <2>3, <3>1, StatusNames DEF InWrite, NumbersAgree, Failed
  <2>6. CASE StationFails
    <3>1. status' = "failed" /\ UNCHANGED receipt /\ missed' = 0
      BY <2>6 DEF StationFails
    <3> QED BY <2>1, <2>2, <2>3, <3>1, StatusNames DEF InWrite, NumbersAgree, Failed
  <2> QED BY <1>4, <2>4, <2>5, <2>6
<1>5. CASE StationDone
  <2>1. /\ caller = "acquire" /\ receipt = seq /\ semWrite = 0
        /\ telegram = NoTelegram /\ status' = "0"
        /\ (sender \in {"test", "try", "settle"} => senderStatus \in InProgress)
    BY <1>3, <1>5, StatusNames DEF StationDone, InWrite, Types, CallerTypes, Failed
  <2>2. UNCHANGED <<caller, callerStatus, missed, sender, senderStatus, semWrite, plugged,
                    receipt, telegram, no, seq>>
    BY <1>5 DEF StationDone, program, station, callerVars, senderVars, writeSems
  <2> QED BY <2>1, <2>2, StatusNames DEF InWrite, FinalStatus, NumbersAgree
<1>6. CASE ReaderAnswers
  <2>1. UNCHANGED <<caller, callerStatus, missed, sender, senderStatus, semWrite, plugged,
                    receipt, status, telegram, no, seq>>
    BY <1>6 DEF ReaderAnswers, program, callerVars, senderVars, writeSems
  <2> QED BY <2>1 DEF InWrite, FinalStatus, NumbersAgree
<1> QED BY <1>1, <1>4, <1>5, <1>6 DEF Station

\* The steps that do not touch the write side.
LEMMA WriteFrame ==
  ASSUME WriteInv,
         UNCHANGED <<caller, callerStatus, missed, sender, senderStatus, semWrite, plugged,
                     receipt, status, telegram, no, seq>>
  PROVE  WriteInv'
BY DEF WriteInv, InWrite, FinalStatus, NumbersAgree

LEMMA WriteInvariant ==
  ASSUME PromptInputs
  PROVE  Spec => []WriteInv
<1>1. Init => WriteInv
  <2> SUFFICES ASSUME Init PROVE WriteInv
    OBVIOUS
  <2>1. Successor(seq) = Successor(receipt)
    <3>1. 0 % SeqMax = 0 /\ SeqMax % SeqMax = 0
      BY Bounds
    <3> QED BY <3>1 DEF Init, Successor
  <2> QED BY <2>1, StatusNames DEF Init, WriteInv, InWrite, FinalStatus, NumbersAgree
<1>2. UNCHANGED vars /\ WriteInv => WriteInv'
  BY WriteFrame DEF vars, callerVars, senderVars, writeSems, environment, station
<1>3. Receiver /\ WriteInv => WriteInv'
  BY WriteFrame
     DEF Receiver, ReceiverReads, ReceiverGets, ReceiverSaves, callerVars, senderVars, writeSems,
         environment, station
<1>4. Types /\ WriteHandshake /\ WriteInv /\ [Next]_vars => WriteInv'
  BY <1>2, <1>3, WriteCaller, WriteSender, WriteStation DEF Next
<1> QED BY <1>1, <1>4, TypesInvariant, HandshakeKept, PTL DEF Spec

\* The sequence numbers agree again at the latest with the second write after a
\* failed telegram, for every limit of the numbers, also when answers are late
\* or cannot be read: what happens to answers does not touch the numbers, while
\* inputs are prompt and no write overtakes a pass of checkSendStatus.
THEOREM NumbersRecover ==
  ASSUME PromptInputs
  PROVE  Spec => []RecoversSoon
<1>1. WriteInv => RecoversSoon
  BY DEF WriteInv, NumbersAgree, RecoversSoon
<1> QED BY <1>1, WriteInvariant, PTL
-----------------------------------------------------------------------------
\* When answers are in time and the only fault is a telegram that the station
\* fails to send, there is never more than one answer to come, and it is the one
\* to the command under way: with the card reader, in a record, or in _data.
Nothing ==
  /\ answers = <<>> /\ data = <<>>
  /\ rcv = lastRcv /\ side = first /\ receiver \in {"off", "sleep"}

WithReader ==
  /\ answers = <<no>> /\ data = <<>>
  /\ rcv = lastRcv /\ side = first /\ receiver \in {"off", "sleep"}

InRecord ==
  /\ answers = <<>> /\ data = <<>>
  /\ rcv # lastRcv /\ side # first /\ record[first] = no
  /\ receiver \in {"read", "save"} => newRcv = rcv
  /\ receiver = "save" => got = no

Received ==
  /\ answers = <<>> /\ data = <<no>>
  /\ rcv = lastRcv /\ side = first /\ receiver \in {"off", "sleep"}

OneAnswer == no > 0 /\ (WithReader \/ InRecord \/ Received)

\* Where the answer to the command is.
InTurn ==
  /\ caller \in {"closed", "idle", "confirm"} => Nothing
  /\ caller \in {"acquire", "verify"} =>
       IF telegram # NoTelegram \/ status \in Failed THEN Nothing ELSE OneAnswer
  /\ caller \in {"written", "wait", "read"} => OneAnswer
  /\ caller # "expired"
  /\ caller = "read" => Received

\* Who waits for an answer is woken by it, and by nothing else.
ReadySems ==
  IF caller = "wait"
    THEN \/ semReadyReq = 1 /\ semReady = 0 /\ ~Received
         \/ semReadyReq = 0 /\ semReady = 1 /\ Received
    ELSE semReadyReq = 0 /\ semReady = 0

TurnInv == InTurn /\ ReadySems

LEMMA OneElement ==
  ASSUME NEW x
  PROVE  Append(<<>>, x) = <<x>> /\ Head(<<x>>) = x /\ Tail(<<x>>) = <<>> /\ <<x>> # <<>>
  OBVIOUS

LEMMA SuccessorMoves ==
  ASSUME NEW n \in 0..SeqMax
  PROVE  Successor(n) # n
<1>1. CASE n = SeqMax
  <2>1. n % SeqMax = 0
    BY <1>1, Bounds
  <2> QED BY <1>1, <2>1, Bounds DEF Successor
<1>2. CASE n < SeqMax
  <2>1. n % SeqMax = n
    BY <1>2, Bounds
  <2> QED BY <2>1, Bounds DEF Successor
<1> QED BY <1>1, <1>2, Bounds

\* Where the answer is depends on these alone.
LEMMA AnswerFrame ==
  ASSUME UNCHANGED <<no, answers, data, rcv, lastRcv, side, first, record, receiver, newRcv, got>>
  PROVE  Nothing' = Nothing /\ OneAnswer' = OneAnswer /\ Received' = Received
BY DEF Nothing, OneAnswer, WithReader, InRecord, Received

\* The caller's steps.
LEMMA TurnCaller ==
  ASSUME Faults \subseteq {"error"}, Types, WriteInv, TurnInv, Caller
  PROVE  TurnInv'
<1> USE DEF TurnInv, InTurn, ReadySems
<1>1. CASE SetValues
  <2>1. /\ Nothing /\ caller \in {"closed", "idle"} /\ caller' = caller
        /\ UNCHANGED <<no, answers, data, rcv, lastRcv, side, first>>
        /\ receiver' \in {"off", "sleep"}
    BY <1>1 DEF SetValues, environment, station, Nothing
  <2>2. Nothing'
    BY <2>1 DEF Nothing
  <2> QED BY <1>1, <2>1, <2>2 DEF SetValues, readySems
<1>2. CASE Open \/ Close
  <2>1. Nothing' = Nothing
    BY <1>2, AnswerFrame DEF Open, Close, environment, station, receiverVars
  <2> QED BY <1>2, <2>1 DEF Open, Close, readySems
<1>3. CASE Write
  <2>1. Nothing'
    BY <1>3 DEF Write, environment, station, receiverVars, Nothing
  <2> QED BY <1>3, <2>1 DEF Write, readySems
<1>4. CASE RecordConfirmed
  <2>1. Nothing'
    BY <1>4 DEF RecordConfirmed, receiverVars, Nothing
  <2>2. telegram' # NoTelegram
    BY <1>4 DEF RecordConfirmed, NoTelegram, Types, Numbered
  <2> QED BY <1>4, <2>1, <2>2 DEF RecordConfirmed, readySems
<1>5. ~RecordRefused /\ ~Expires /\ ~WaitReturnsFalse
  BY DEF RecordRefused, Expires, WaitReturnsFalse, WriteInv, InWrite
<1>6. CASE AcquireWrite
  <2>1. Nothing' = Nothing /\ OneAnswer' = OneAnswer
    BY <1>6, AnswerFrame DEF AcquireWrite, environment, station, receiverVars
  <2> QED BY <1>6, <2>1 DEF AcquireWrite, environment, station, readySems
<1>7. CASE WriteReturns
  <2>1. Nothing' = Nothing /\ OneAnswer' = OneAnswer
    BY <1>7, AnswerFrame DEF WriteReturns, environment, station, receiverVars
  <2>2. /\ telegram = NoTelegram
        /\ (caller' = "written" /\ status = "0") \/ (caller' = "idle" /\ status \in Failed)
    BY <1>7, StatusNames
       DEF WriteReturns, WriteSucceeds, WriteInv, InWrite, Failed
  <2>3. UNCHANGED readySems /\ caller = "verify"
    BY <1>7 DEF WriteReturns
  <2> QED BY <2>1, <2>2, <2>3, StatusNames DEF readySems, Failed
<1>8. CASE WaitForReadyRead
  <2>1. OneAnswer' = OneAnswer /\ Received' = Received
    BY <1>8, AnswerFrame DEF WaitForReadyRead, environment, station, receiverVars
  <2>2. Received <=> data # <<>>
    BY <1>8, OneElement DEF WaitForReadyRead, OneAnswer, WithReader, InRecord, Received
  <2> QED BY <1>8, <2>1, <2>2 DEF WaitForReadyRead
<1>9. CASE TryAcquireReady
  <2>1. OneAnswer' = OneAnswer /\ Received' = Received
    BY <1>9, AnswerFrame DEF TryAcquireReady, environment, station, receiverVars
  <2> QED BY <1>9, <2>1 DEF TryAcquireReady
<1>10. CASE ReadAll
  <2>1. Nothing'
    BY <1>10 DEF ReadAll, Received, Nothing, environment, station, receiverVars
  <2> QED BY <1>10, <2>1 DEF ReadAll, readySems
<1> QED BY <1>1, <1>2, <1>3, <1>4, <1>5, <1>6, <1>7, <1>8, <1>9, <1>10 DEF Caller

\* The steps of checkRCVStatus.
LEMMA TurnReceiver ==
  ASSUME Faults \subseteq {"error"}, Types, WriteInv, TurnInv, Receiver
  PROVE  TurnInv'
<1> USE DEF TurnInv
<1>0. UNCHANGED <<caller, plugged, status, telegram, no, answers, rcv, record, side>>
  BY DEF Receiver, ReceiverReads, ReceiverGets, ReceiverSaves, callerVars, environment, station
<1>1. plugged
  BY DEF WriteInv, InWrite
<1>2. /\ InRecord /\ no > 0 /\ caller \in {"acquire", "verify", "written", "wait"}
      /\ caller \in {"acquire", "verify"} => telegram = NoTelegram /\ status \notin Failed
  <2>1. rcv # lastRcv \/ receiver \in {"read", "save"}
    BY DEF Receiver, ReceiverReads, ReceiverGets, ReceiverSaves
  <2>2. ~Nothing /\ ~WithReader /\ ~Received
    BY <2>1 DEF Nothing, WithReader, Received
  <2> QED BY <2>2 DEF InTurn, OneAnswer, Types, CallerTypes
<1>3. CASE ReceiverReads \/ ReceiverGets
  <2>1. InRecord'
    BY <1>0, <1>1, <1>2, <1>3 DEF InRecord, ReceiverReads, ReceiverGets, May
  <2>2. UNCHANGED <<semReadyReq, semReady, data>> /\ ~Received /\ ~Received'
    BY <1>2, <1>3, <2>1 DEF ReceiverReads, ReceiverGets, readySems, InRecord, Received
  <2>3. InTurn'
    BY <1>0, <1>2, <2>1 DEF InTurn, OneAnswer
  <2>4. ReadySems'
    BY <1>0, <2>2 DEF ReadySems
  <2> QED BY <2>3, <2>4
<1>4. CASE ReceiverSaves
  <2>1. got = no /\ got # 0 /\ newRcv = rcv /\ side # first
    BY <1>2, <1>4 DEF InRecord, ReceiverSaves, Types, CallerTypes
  <2>2. SaveNewData /\ lastRcv' = rcv /\ receiver' = "sleep" /\ first' = ~first
    BY <1>4, <2>1 DEF ReceiverSaves, Toggle
  <2>3. data' = <<no>>
    BY <1>2, <2>1, <2>2, OneElement DEF SaveNewData, InRecord
  <2>4. Received'
    <3>1. side = ~first
      BY <2>1 DEF Types, PollingTypes, EnvironmentTypes
    <3> QED BY <1>0, <1>2, <2>2, <2>3, <3>1 DEF InRecord, Received
  <2>5. InTurn'
    BY <1>0, <1>2, <2>4 DEF InTurn, OneAnswer
  <2>6. ReadySems'
    <3>1. ~Received
      BY <1>2 DEF InRecord, Received
    <3> QED BY <1>0, <2>2, <2>4, <3>1 DEF ReadySems, SaveNewData, readySems
  <2> QED BY <2>5, <2>6
<1> QED BY <1>3, <1>4 DEF Receiver

\* The steps of the station and the card reader.
LEMMA TurnStation ==
  ASSUME Faults \subseteq {"error"}, Types, WriteInv, TurnInv, Station
  PROVE  TurnInv'
<1> USE DEF TurnInv
<1>1. ~Unplug /\ ~Plug /\ ~StationShowsBusy
  BY DEF Unplug, Plug, May, StationShowsBusy, WriteInv, InWrite, Types, CallerTypes, Failed
<1>2. CASE StationSends \/ StationRejects \/ StationFails
  <2>1. telegram # NoTelegram /\ telegram' = NoTelegram
    BY <1>2 DEF StationSends, StationRejects, StationFails
  <2>2. caller = "acquire" /\ telegram.no = no /\ status \in InProgress /\ Nothing
    BY <2>1 DEF WriteInv, InWrite, Types, CallerTypes, InTurn
  <2>3. UNCHANGED <<caller, semReadyReq, semReady, no, data, rcv, lastRcv, first, side, record,
                    receiver, newRcv, got>>
    BY <1>2 DEF StationSends, StationRejects, StationFails, program, callerVars, receiverVars,
                readySems
  <2>4. ReadySems'
    BY <2>2, <2>3 DEF ReadySems
  <2>5. CASE StationSends
    <3>1. status' = status /\ answers' = <<no>>
      BY <2>2, <2>5, OneElement DEF StationSends, Nothing
    <3>2. no > 0
      BY <2>1, <2>2 DEF Types, EnvironmentTypes, CallerTypes
    <3>3. OneAnswer'
      BY <2>2, <2>3, <3>1, <3>2 DEF OneAnswer, WithReader, Nothing
    <3> QED BY <2>1, <2>2, <2>3, <2>4, <3>1, <3>3, StatusNames DEF InTurn, Failed
  <2>6. CASE StationRejects \/ StationFails
    <3>1. status' \in Failed /\ UNCHANGED answers
      BY <2>6 DEF StationRejects, StationFails, Failed
    <3>2. Nothing'
      BY <2>2, <2>3, <3>1 DEF Nothing
    <3> QED BY <2>2, <2>3, <2>4, <3>1, <3>2 DEF InTurn
  <2> QED BY <1>2, <2>5, <2>6
<1>3. CASE StationDone
  <2>1. /\ caller = "acquire" /\ telegram = NoTelegram /\ status \notin Failed /\ status' = "0"
    BY <1>3, StatusNames DEF StationDone, WriteInv, InWrite, Types, CallerTypes, Failed
  <2>2. UNCHANGED <<caller, telegram, semReadyReq, semReady>>
    BY <1>3 DEF StationDone, program, station, callerVars, readySems
  <2>3. OneAnswer' = OneAnswer /\ Received' = Received
    BY <1>3, AnswerFrame DEF StationDone, program, station, callerVars, receiverVars
  <2> QED BY <2>1, <2>2, <2>3, StatusNames DEF InTurn, ReadySems, Failed
<1>4. CASE ReaderAnswers
  <2>1. UNCHANGED <<caller, status, telegram, no, semReadyReq, semReady, data, lastRcv, first,
                    receiver, newRcv, got>>
    BY <1>4 DEF ReaderAnswers, program, callerVars, receiverVars, readySems
  <2>2. /\ WithReader /\ no > 0 /\ caller \in {"acquire", "verify", "written", "wait"}
        /\ caller \in {"acquire", "verify"} => telegram = NoTelegram /\ status \notin Failed
    <3>1. ~Nothing /\ ~InRecord /\ ~Received
      BY <1>4 DEF ReaderAnswers, Nothing, InRecord, Received
    <3> QED BY <3>1 DEF InTurn, OneAnswer, Types, CallerTypes
  <2>3. /\ record' = [record EXCEPT ![side] = no] /\ answers' = <<>> /\ side' = ~side
        /\ rcv' = Successor(rcv)
    BY <1>4, <2>2, OneElement DEF ReaderAnswers, WithReader
  <2>4. rcv' # rcv
    BY <2>3, SuccessorMoves DEF Types, EnvironmentTypes
  <2>5. InRecord'
    <3>1. record'[first] = no /\ side' # first
      BY <2>2, <2>3 DEF WithReader, Types, EnvironmentTypes, PollingTypes
    <3> QED BY <2>1, <2>2, <2>3, <2>4, <3>1 DEF WithReader, InRecord
  <2>6. ~Received /\ ~Received'
    BY <2>2, <2>5 DEF WithReader, InRecord, Received
  <2>7. InTurn'
    BY <2>1, <2>2, <2>5 DEF InTurn, OneAnswer
  <2> QED BY <2>1, <2>6, <2>7 DEF ReadySems
<1> QED BY <1>1, <1>2, <1>3, <1>4 DEF Station

LEMMA TurnInvariant ==
  ASSUME Faults \subseteq {"error"}
  PROVE  Spec => []TurnInv
<1>1. Init => TurnInv
  BY DEF Init, TurnInv, InTurn, ReadySems, Nothing
<1>2. ASSUME UNCHANGED vars \/ Sender, TurnInv
      PROVE  TurnInv'
  <2> USE DEF Sender, SenderReads, SenderTests, SenderTries, SenderSettles, vars, callerVars,
              receiverVars, readySems, environment, station
  <2>1. Nothing' = Nothing /\ OneAnswer' = OneAnswer /\ Received' = Received
    BY <1>2, AnswerFrame
  <2>2. UNCHANGED <<caller, telegram, status, semReadyReq, semReady>>
    BY <1>2
  <2> QED BY <1>2, <2>1, <2>2 DEF TurnInv, InTurn, ReadySems
<1>3. Types /\ WriteInv /\ TurnInv /\ [Next]_vars => TurnInv'
  BY <1>2, TurnCaller, TurnReceiver, TurnStation DEF Next
<1>4. PromptInputs
  BY DEF PromptInputs
<1> QED BY <1>1, <1>3, <1>4, TypesInvariant, WriteInvariant, PTL DEF Spec

\* When answers are in time, what the caller reads is the answer to the command
\* it has just written, and only that, whatever telegrams the station fails to
\* send and however the threads interleave, short of a write that overtakes a
\* pass of checkSendStatus.
THEOREM AnswersBelong ==
  ASSUME Faults \subseteq {"error"}
  PROVE  Spec => []AnswerMatches
<1>1. TurnInv => AnswerMatches
  BY DEF TurnInv, InTurn, Received, AnswerMatches
<1> QED BY <1>1, TurnInvariant, PTL
=============================================================================

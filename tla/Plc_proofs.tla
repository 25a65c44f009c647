----------------------------- MODULE Plc_proofs -----------------------------
(***************************************************************************)
(* The timers keep the time and the trigger reports the edges, for every   *)
(* timeout and every sequence of inputs at any distance; and what the      *)
(* values of a controller guarantee, for every behaviour of the logic's    *)
(* thread, of the operator and of the station.                             *)
(***************************************************************************)
EXTENDS PlcTimers, IoValues, TLAPS

Last == Len(log)

\* What each timer remembers of the inputs so far.
TonKept ==
  /\ ton = Invalid => Last = 0 \/ ~log[Last].in
  /\ ton # Invalid =>
       /\ Last > 0
       /\ \E i \in 1 .. Last : HeldTrue(i, Last) /\ log[i].at = ton
       /\ \A i \in 1 .. Last : HeldTrue(i, Last) => log[i].at >= ton

TofKept ==
  /\ tof = Invalid => \A i \in 1 .. Last : ~log[i].in
  /\ tof # Invalid =>
       /\ \E i \in 1 .. Last : log[i].in /\ log[i].at = tof
       /\ \A i \in 1 .. Last : log[i].in => log[i].at <= tof

TpKept ==
  /\ tp = Invalid => \A i \in 1 .. Last : ~log[i].in
  /\ tp # Invalid =>
       \E i \in 1 .. Last :
         log[i].in /\ log[i].at = tp /\ \A j \in 1 .. (i - 1) : ~log[j].in

\* The trigger has the last input from its second update on.
EdgeKept ==
  /\ initialized <=> Last > 0
  /\ Last > 1 => current = log[Last].in

\* The results of one cycle.
TonTrue(k) ==
  log[k].ton <=> \E i \in 1 .. k : HeldTrue(i, k) /\ log[k].at - log[i].at > Timeout
TofTrue(k) ==
  log[k].tof <=> \E i \in 1 .. k : log[i].in /\ log[k].at - log[i].at <= Timeout
TpTrue(k) ==
  log[k].tp <=> \E i \in 1 .. k :
    /\ log[i].in /\ \A j \in 1 .. (i - 1) : ~log[j].in
    /\ log[k].at - log[i].at <= Timeout
EdgeTrue(k) ==
  /\ log[k].rising <=> (log[k].in /\ ~log[k - 1].in)
  /\ log[k].falling <=> (~log[k].in /\ log[k - 1].in)

TimersInv ==
  /\ TimersTypeOK
  /\ TonKept /\ TofKept /\ TpKept /\ EdgeKept
  /\ \A k \in 1 .. Last : TonTrue(k) /\ TofTrue(k) /\ TpTrue(k)
  /\ \A k \in 3 .. Last : EdgeTrue(k)

\* The entry a cycle with that input adds.
Entry(in) ==
  [at |-> clock, in |-> in,
   ton |-> TonResult(in), tof |-> TofResult(in), tp |-> TpResult(in),
   rising |-> ~EdgePrevious(in) /\ EdgeCurrent(in),
   falling |-> EdgePrevious(in) /\ ~EdgeCurrent(in)]
-----------------------------------------------------------------------------
LEMMA TimersInit == InitTimers => TimersInv
<1> SUFFICES ASSUME InitTimers PROVE TimersInv
  OBVIOUS
<1>1. log \in Seq(Entries) /\ Last = 0
  BY DEF InitTimers, Last
<1>2. TimersTypeOK
  BY <1>1 DEF InitTimers, TimersTypeOK
<1>3. TonKept /\ TofKept /\ TpKept /\ EdgeKept
  BY <1>1 DEF InitTimers, TonKept, TofKept, TpKept, EdgeKept
<1>4. 1 .. Last = {} /\ 3 .. Last = {}
  BY <1>1
<1> QED
  BY <1>2, <1>3, <1>4 DEF TimersInv

\* A cycle adds one entry and changes none.
LEMMA CycleLog ==
  ASSUME TimersTypeOK, NEW in \in BOOLEAN, Cycle(in)
  PROVE  /\ Entry(in) \in Entries
         /\ log' \in Seq(Entries)
         /\ Last \in Nat /\ Last' = Last + 1
         /\ \A i \in 1 .. Last : log'[i] = log[i]
         /\ log'[Last'] = Entry(in)
<1>1. Entry(in) \in Entries
  BY DEF Entry, Entries, TimersTypeOK, TonResult, TofResult, TpResult, EdgePrevious, EdgeCurrent, HasExpired
<1>2. log' = Append(log, Entry(in))
  BY DEF Cycle, Entry
<1>3. log \in Seq(Entries)
  BY DEF TimersTypeOK
<1> QED
  BY <1>1, <1>2, <1>3 DEF Last

LEMMA CycleTypes ==
  ASSUME TimersTypeOK, NEW in \in BOOLEAN, Cycle(in)
  PROVE  TimersTypeOK'
<1>1. log' \in Seq(Entries)
  BY CycleLog
<1>2. clock' \in Nat /\ {ton, tof, tp}' \subseteq (0 .. clock') \cup {Invalid}
  BY DEF Cycle, TimersTypeOK, TonStart, TofStart, TpStart, Invalid
<1>3. {initialized, previous, current}' \subseteq BOOLEAN
  BY DEF Cycle, TimersTypeOK, EdgePrevious, EdgeCurrent
<1> QED
  BY <1>1, <1>2, <1>3 DEF TimersTypeOK

\* Earlier results stand.
LEMMA CycleOld ==
  ASSUME TimersInv, NEW in \in BOOLEAN, Cycle(in)
  PROVE  /\ \A k \in 1 .. Last : (TonTrue(k) /\ TofTrue(k) /\ TpTrue(k))'
         /\ \A k \in 3 .. Last : EdgeTrue(k)'
<1>1. /\ Last \in Nat
      /\ \A i \in 1 .. Last : log'[i] = log[i]
  BY CycleLog DEF TimersInv
<1>2. ASSUME NEW k \in 1 .. Last PROVE TonTrue(k)'
  BY <1>1 DEF TimersInv, TonTrue, HeldTrue
<1>3. ASSUME NEW k \in 1 .. Last PROVE TofTrue(k)'
  BY <1>1 DEF TimersInv, TofTrue
<1>4. ASSUME NEW k \in 1 .. Last PROVE TpTrue(k)'
  BY <1>1 DEF TimersInv, TpTrue
<1>5. ASSUME NEW k \in 3 .. Last PROVE EdgeTrue(k)'
  BY <1>1 DEF TimersInv, EdgeTrue
<1> QED
  BY <1>2, <1>3, <1>4, <1>5

\* The new entry, field by field.
LEMMA CycleEntry ==
  ASSUME TimersInv, NEW in \in BOOLEAN, Cycle(in)
  PROVE  /\ log'[Last'].at = clock /\ log'[Last'].in = in
         /\ (log'[Last'].ton <=> TonResult(in))
         /\ (log'[Last'].tof <=> TofResult(in))
         /\ (log'[Last'].tp <=> TpResult(in))
         /\ log'[Last'].rising = (~EdgePrevious(in) /\ EdgeCurrent(in))
         /\ log'[Last'].falling = (EdgePrevious(in) /\ ~EdgeCurrent(in))
         /\ Last' = Last + 1 /\ Last \in Nat
         /\ \A i \in 1 .. Last : log'[i] = log[i] /\ log[i] \in Entries
<1>1. log'[Last'] = Entry(in) /\ Last' = Last + 1 /\ Last \in Nat
  BY CycleLog DEF TimersInv
<1>2. \A i \in 1 .. Last : log'[i] = log[i]
  BY CycleLog DEF TimersInv
<1>3. \A i \in 1 .. Last : log[i] \in Entries
  BY DEF TimersInv, TimersTypeOK, Last
<1> QED
  BY <1>1, <1>2, <1>3 DEF Entry

LEMMA CycleTon ==
  ASSUME TimersInv, NEW in \in BOOLEAN, Cycle(in)
  PROVE  TonKept' /\ TonTrue(Last)'
<1>1. /\ log'[Last'].at = clock /\ log'[Last'].in = in
      /\ (log'[Last'].ton <=> TonResult(in))
      /\ Last' = Last + 1 /\ Last \in Nat
      /\ \A i \in 1 .. Last : log'[i] = log[i] /\ log[i] \in Entries
  BY CycleEntry
<1>2. \A i \in 1 .. Last' :
        (\A j \in i .. Last' : log'[j].in) <=> in /\ (i = Last' \/ HeldTrue(i, Last))
  BY <1>1 DEF HeldTrue
<1>3. ton' = TonStart(in) /\ clock' = clock
  BY DEF Cycle
<1>4. clock \in Nat /\ ton \in (0 .. clock) \cup {Invalid} /\ Timeout \in Nat
  BY TimersAssumption DEF TimersInv, TimersTypeOK
<1>5. CASE ~in
  BY <1>1, <1>2, <1>3, <1>5 DEF TonKept, TonTrue, HeldTrue, TonResult, TonStart
<1>6. CASE in /\ ton = Invalid
  <2>1. \A i \in 1 .. Last : ~HeldTrue(i, Last)
    BY <1>1, <1>6 DEF TimersInv, TonKept, HeldTrue
  <2>2. TonKept'
    BY <1>1, <1>2, <1>3, <1>4, <1>6, <2>1 DEF TonKept, HeldTrue, TonStart, Invalid
  <2>3. ~log'[Last'].ton
    BY <1>1, <1>6 DEF TonResult
  <2>4. ASSUME NEW j \in 1 .. Last', \A k \in j .. Last' : log'[k].in
        PROVE  ~(log'[Last'].at - log'[j].at > Timeout)
    <3>1. j = Last'
      BY <1>1, <1>2, <2>1, <2>4
    <3> QED
      BY <1>1, <1>4, <3>1
  <2>5. TonTrue(Last)'
    BY <2>3, <2>4 DEF TonTrue, HeldTrue
  <2> QED
    BY <2>2, <2>5
<1>7. CASE in /\ ton # Invalid
  <2>1. PICK i \in 1 .. Last : HeldTrue(i, Last) /\ log[i].at = ton
    BY <1>7 DEF TimersInv, TonKept
  <2>2. \A j \in 1 .. Last : HeldTrue(j, Last) => log[j].at >= ton
    BY <1>7 DEF TimersInv, TonKept
  <2>3. ton' = ton /\ ton \in 0 .. clock
    BY <1>3, <1>4, <1>7 DEF TonStart
  <2>4. \A j \in 1 .. Last : log[j].at \in Nat
    BY <1>1 DEF Entries
  <2>5. TonKept'
    BY <1>1, <1>2, <1>7, <2>1, <2>2, <2>3, <2>4 DEF TonKept, HeldTrue
  <2>6. log'[Last'].ton <=> clock - ton > Timeout
    BY <1>1, <1>7 DEF TonResult, HasExpired
  <2>7. ASSUME NEW j \in 1 .. Last', \A k \in j .. Last' : log'[k].in
        PROVE  clock - log'[j].at > Timeout => clock - ton > Timeout
    <3>1. CASE j = Last'
      BY <1>1, <1>4, <3>1
    <3>2. CASE j # Last'
      <4>1. j \in 1 .. Last /\ log'[j].at = log[j].at /\ log[j].at \in Nat /\ log[j].at >= ton
        BY <1>1, <1>2, <2>2, <2>4, <2>7, <3>2
      <4> QED
        BY <1>4, <2>3, <4>1
    <3> QED
      BY <3>1, <3>2
  <2>8. i \in 1 .. Last' /\ (\A k \in i .. Last' : log'[k].in) /\ log'[i].at = ton
    BY <1>1, <1>2, <1>7, <2>1
  <2>9. TonTrue(Last)'
    BY <1>1, <2>6, <2>7, <2>8 DEF TonTrue, HeldTrue
  <2> QED
    BY <2>5, <2>9
<1> QED
  BY <1>5, <1>6, <1>7

LEMMA CycleTof ==
  ASSUME TimersInv, NEW in \in BOOLEAN, Cycle(in)
  PROVE  TofKept' /\ TofTrue(Last)'
<1>1. /\ log'[Last'].at = clock /\ log'[Last'].in = in
      /\ (log'[Last'].tof <=> TofResult(in))
      /\ Last' = Last + 1 /\ Last \in Nat
      /\ \A i \in 1 .. Last : log'[i] = log[i] /\ log[i] \in Entries
  BY CycleEntry
<1>2. tof' = TofStart(in) /\ clock' = clock
  BY DEF Cycle
<1>3. clock \in Nat /\ tof \in (0 .. clock) \cup {Invalid} /\ Timeout \in Nat
  BY TimersAssumption DEF TimersInv, TimersTypeOK
<1>4. \A j \in 1 .. Last : log[j].at \in Nat
  BY <1>1 DEF Entries
<1>5. \A j \in 1 .. Last : log[j].in => tof # Invalid /\ log[j].at <= tof
  BY DEF TimersInv, TofKept
<1>6. CASE in
  <2>1. tof' = clock /\ clock # Invalid /\ Last' \in 1 .. Last' /\ log'[Last'].in
    BY <1>1, <1>2, <1>3, <1>6 DEF TofStart, Invalid
  <2>2. ASSUME NEW j \in 1 .. Last', log'[j].in PROVE log'[j].at <= clock
    <3>1. CASE j = Last'
      BY <1>1, <1>3, <3>1
    <3>2. CASE j # Last'
      <4>1. j \in 1 .. Last /\ log[j].at \in Nat /\ tof \in 0 .. clock /\ log[j].at <= tof
        BY <1>1, <1>3, <1>4, <1>5, <2>2, <3>2
      <4> QED
        BY <1>1, <1>3, <4>1
    <3> QED
      BY <3>1, <3>2
  <2>3. TofKept'
    BY <1>1, <1>6, <2>1, <2>2 DEF TofKept
  <2>4. log'[Last'].tof /\ log'[Last'].in /\ log'[Last'].at - log'[Last'].at <= Timeout
    BY <1>1, <1>3, <1>6 DEF TofResult
  <2>5. TofTrue(Last)'
    BY <1>1, <2>4 DEF TofTrue
  <2> QED
    BY <2>3, <2>5
<1>7. CASE ~in /\ tof = Invalid
  BY <1>1, <1>2, <1>5, <1>7 DEF TofKept, TofTrue, TofStart, TofResult
<1>8. CASE ~in /\ tof # Invalid
  <2>1. PICK i \in 1 .. Last : log[i].in /\ log[i].at = tof
    BY <1>8 DEF TimersInv, TofKept
  <2>2. TofKept'
    BY <1>1, <1>2, <1>5, <1>8, <2>1 DEF TofKept, TofStart
  <2>3. log'[Last'].tof <=> clock - tof <= Timeout
    BY <1>1, <1>3, <1>8 DEF TofResult, HasExpired
  <2>4. ASSUME NEW j \in 1 .. Last', log'[j].in
        PROVE  clock - log'[j].at <= Timeout => clock - tof <= Timeout
    <3>1. j \in 1 .. Last /\ log'[j].at = log[j].at /\ log[j].at \in Nat /\ log[j].at <= tof
      BY <1>1, <1>4, <1>5, <1>8, <2>4
    <3> QED
      BY <1>3, <1>8, <3>1
  <2>5. i \in 1 .. Last' /\ log'[i].in /\ log'[i].at = tof
    BY <1>1, <2>1
  <2>6. TofTrue(Last)'
    BY <1>1, <2>3, <2>4, <2>5 DEF TofTrue
  <2> QED
    BY <2>2, <2>6
<1> QED
  BY <1>6, <1>7, <1>8

LEMMA CycleTp ==
  ASSUME TimersInv, NEW in \in BOOLEAN, Cycle(in)
  PROVE  TpKept' /\ TpTrue(Last)'
<1>1. /\ log'[Last'].at = clock /\ log'[Last'].in = in
      /\ (log'[Last'].tp <=> TpResult(in))
      /\ Last' = Last + 1 /\ Last \in Nat
      /\ \A i \in 1 .. Last : log'[i] = log[i] /\ log[i] \in Entries
  BY CycleEntry
<1>2. tp' = TpStart(in) /\ clock' = clock
  BY DEF Cycle
<1>3. clock \in Nat /\ tp \in (0 .. clock) \cup {Invalid} /\ Timeout \in Nat
  BY TimersAssumption DEF TimersInv, TimersTypeOK
<1>4. CASE tp = Invalid
  <2>1. \A i \in 1 .. Last : ~log[i].in
    BY <1>4 DEF TimersInv, TpKept
  <2>2. TpKept'
    BY <1>1, <1>2, <1>3, <1>4, <2>1 DEF TpKept, TpStart, Invalid
  <2>3. TpTrue(Last)'
    BY <1>1, <1>3, <1>4, <2>1 DEF TpTrue, TpResult
  <2> QED
    BY <2>2, <2>3
<1>5. CASE tp # Invalid
  <2>1. PICK i \in 1 .. Last :
          log[i].in /\ log[i].at = tp /\ \A j \in 1 .. (i - 1) : ~log[j].in
    BY <1>5 DEF TimersInv, TpKept
  <2>2. i \in 1 .. Last' /\ log'[i] = log[i] /\ \A j \in 1 .. (i - 1) : log'[j] = log[j]
    BY <1>1
  <2>3. TpKept'
    BY <1>2, <1>5, <2>1, <2>2 DEF TpKept, TpStart
  <2>4. ASSUME NEW k \in 1 .. Last', log'[k].in, \A j \in 1 .. (k - 1) : ~log'[j].in
        PROVE  k = i
    BY <1>1, <2>1, <2>2, <2>4
  <2>5. log'[Last'].tp <=> clock - tp <= Timeout
    BY <1>1, <1>3, <1>5 DEF TpResult, HasExpired
  <2>6. log'[Last'].at = clock /\ log'[i].at = tp /\ log'[i].in /\ \A j \in 1 .. (i - 1) : ~log'[j].in
    BY <1>1, <2>1, <2>2
  <2>7. TpTrue(Last)'
    BY <2>2, <2>4, <2>5, <2>6 DEF TpTrue
  <2> QED
    BY <2>3, <2>7
<1> QED
  BY <1>4, <1>5

LEMMA CycleEdge ==
  ASSUME TimersInv, NEW in \in BOOLEAN, Cycle(in)
  PROVE  EdgeKept' /\ (Last' > 2 => EdgeTrue(Last)')
<1>1. /\ log'[Last'].in = in
      /\ log'[Last'].rising = (~EdgePrevious(in) /\ EdgeCurrent(in))
      /\ log'[Last'].falling = (EdgePrevious(in) /\ ~EdgeCurrent(in))
      /\ Last' = Last + 1 /\ Last \in Nat
      /\ \A i \in 1 .. Last : log'[i] = log[i]
  BY CycleEntry
<1>2. EdgeKept /\ initialized' = TRUE /\ current' = EdgeCurrent(in)
  BY DEF TimersInv, Cycle
<1>3. EdgeKept'
  BY <1>1, <1>2 DEF EdgeKept, EdgeCurrent
<1>4. ASSUME Last' > 2 PROVE EdgeTrue(Last)'
  <2>1. Last > 1 /\ Last' - 1 = Last /\ Last \in 1 .. Last
    BY <1>1, <1>4
  <2>2. log'[Last' - 1].in = current /\ EdgePrevious(in) = current /\ EdgeCurrent(in) = in
    BY <1>1, <1>2, <2>1 DEF EdgeKept, EdgePrevious, EdgeCurrent
  <2> QED
    BY <1>1, <2>2 DEF EdgeTrue
<1> QED
  BY <1>3, <1>4

LEMMA TimersNext == TimersInv /\ [NextTimers]_timerVars => TimersInv'
<1> SUFFICES ASSUME TimersInv, [NextTimers]_timerVars PROVE TimersInv'
  OBVIOUS
<1>1. ASSUME NEW in \in BOOLEAN, Cycle(in) PROVE TimersInv'
  <2>1. TimersTypeOK'
    BY <1>1, CycleTypes DEF TimersInv
  <2>2. Last' = Last + 1 /\ Last \in Nat
    BY <1>1, CycleEntry
  <2>3. ASSUME NEW k \in 1 .. Last' PROVE (TonTrue(k) /\ TofTrue(k) /\ TpTrue(k))'
    <3>1. CASE k = Last'
      BY <1>1, <3>1, CycleTon, CycleTof, CycleTp
    <3>2. CASE k \in 1 .. Last
      BY <1>1, <3>2, CycleOld
    <3> QED
      BY <2>2, <3>1, <3>2
  <2>4. ASSUME NEW k \in 3 .. Last' PROVE EdgeTrue(k)'
    <3>1. CASE k = Last'
      BY <1>1, <2>2, <3>1, CycleEdge
    <3>2. CASE k \in 3 .. Last
      BY <1>1, <3>2, CycleOld
    <3> QED
      BY <2>2, <3>1, <3>2
  <2> QED
    BY <1>1, <2>1, <2>3, <2>4, CycleTon, CycleTof, CycleTp, CycleEdge DEF TimersInv
<1>2. ASSUME UNCHANGED <<ton, tof, tp, initialized, previous, current, log>>, clock' \in Nat, clock' >= clock
      PROVE  TimersInv'
  <2>1. TimersTypeOK'
    BY <1>2 DEF TimersInv, TimersTypeOK
  <2> QED
    BY <1>2, <2>1
    DEF TimersInv, TonKept, TofKept, TpKept, EdgeKept, TonTrue, TofTrue, TpTrue, EdgeTrue,
        HeldTrue, Last
<1>3. CASE TimePasses
  BY <1>2, <1>3 DEF TimePasses, TimersInv, TimersTypeOK
<1>4. CASE UNCHANGED timerVars
  BY <1>2, <1>4 DEF timerVars, TimersInv, TimersTypeOK
<1> QED
  BY <1>1, <1>3, <1>4 DEF NextTimers

LEMMA TimersInvariant == TimersSpec => []TimersInv
BY TimersInit, TimersNext, PTL DEF TimersSpec
-----------------------------------------------------------------------------
\* Every result of the three timers is what the inputs so far say it must be.
THEOREM TimersAreExact == TimersSpec => []TimersKeepTime
<1>1. TimersInv => TimersKeepTime
  <2> SUFFICES ASSUME TimersInv PROVE TimersKeepTime
    OBVIOUS
  <2>1. DOMAIN log = 1 .. Last
    BY DEF TimersInv, TimersTypeOK, Last
  <2> QED
    BY <2>1 DEF TimersInv, TonTrue, TofTrue, TpTrue, TimersKeepTime
<1> QED
  BY <1>1, TimersInvariant, PTL

\* From the third cycle on the trigger reports the edges and no others.
THEOREM EdgesAreExact == TimersSpec => []EdgesAreReal
<1>1. TimersInv => EdgesAreReal
  BY DEF TimersInv, EdgeTrue, EdgesAreReal, Last
<1> QED
  BY <1>1, TimersInvariant, PTL

-----------------------------------------------------------------------------
\* The values.
Maybe == BOOLEAN \cup {None}

ValuesTypeOK ==
  /\ kind \in Kinds
  /\ {logic, last, wire, valid, raced, settled} \subseteq BOOLEAN
  /\ forced \in Maybe /\ chosen \in Maybe
  /\ step \in {"idle", "take", "test", "note", "write"}
  /\ step \in {"test", "note", "write"} => chosen \in BOOLEAN
  /\ {station, ident, inForced, inValid, seen} \subseteq BOOLEAN
  /\ stored \in Maybe

\* An update that nothing disturbs writes what is commanded, and remembers it.
Steps ==
  /\ settled => step = "idle"
  /\ ~raced /\ step = "take" => logic # last \/ forced = None
  /\ ~raced /\ step = "test" =>
       (chosen = logic /\ logic # last) \/ (chosen = Commanded /\ logic = last)
  /\ ~raced /\ step = "note" => chosen = logic
  /\ ~raced /\ step = "write" => chosen = Commanded /\ logic = last

\* Between updates an unforced Profinet output, or a valid OPC-UA one, has the
\* remembered value outside: this is why an update may write nothing.
Outside ==
  ~raced /\ step = "idle" /\ forced = None /\ (kind = "pnio" \/ (kind = "opc" /\ valid))
    => wire = last

OutputInv == Steps /\ Outside /\ OutputFollows

\* An input that is not forced shows the data it keeps.
InputInv == inForced \/ stored = None \/ ident = stored \/ (kind = "opc" /\ ~seen)
-----------------------------------------------------------------------------
LEMMA TypesInit == InitValues => ValuesTypeOK
BY DEF InitValues, ValuesTypeOK, Maybe, Kinds

LEMMA TypesNext == ValuesTypeOK /\ [NextValues]_valueVars => ValuesTypeOK'
<1> SUFFICES ASSUME ValuesTypeOK, [NextValues]_valueVars PROVE ValuesTypeOK'
  OBVIOUS
<1> USE DEF ValuesTypeOK, Maybe
<1>1. CASE Compare
  BY <1>1 DEF Compare, TakesLogic, Unchanged, inputVars
<1>2. CASE Take
  BY <1>2 DEF Take, inputVars
<1>3. CASE Test
  BY <1>3 DEF Test, inputVars
<1>4. CASE Note
  BY <1>4 DEF Note, inputVars
<1>5. CASE Write
  BY <1>5 DEF Write, inputVars
<1>6. CASE Lose
  BY <1>6 DEF Lose, inputVars
<1>7. ASSUME NEW v \in BOOLEAN, SetOutput(v) PROVE ValuesTypeOK'
  BY <1>7 DEF SetOutput, inputVars
<1>8. ASSUME NEW v \in BOOLEAN, ForceOutput(v) PROVE ValuesTypeOK'
  BY <1>8 DEF ForceOutput, inputVars
<1>9. ASSUME NEW v \in BOOLEAN, StationSets(v) PROVE ValuesTypeOK'
  BY <1>9 DEF StationSets, outputVars
<1>10. ASSUME NEW v \in BOOLEAN, ForceInput(v) PROVE ValuesTypeOK'
  BY <1>10 DEF ForceInput, outputVars
<1>11. ASSUME NEW v \in BOOLEAN, UpdateInput(v) PROVE ValuesTypeOK'
  BY <1>11 DEF UpdateInput, outputVars
<1>12. CASE UNCHANGED valueVars
  BY <1>12 DEF valueVars, outputVars, inputVars
<1> QED
  BY <1>1, <1>2, <1>3, <1>4, <1>5, <1>6, <1>7, <1>8, <1>9, <1>10, <1>11, <1>12 DEF NextValues
LEMMA OutputInit == InitValues => OutputInv
BY DEF InitValues, OutputInv, Steps, Outside, OutputFollows, Kinds

LEMMA OutputNext ==
  ValuesTypeOK /\ OutputInv /\ [NextValues]_valueVars => OutputInv'
<1> SUFFICES ASSUME ValuesTypeOK, OutputInv, [NextValues]_valueVars PROVE OutputInv'
  OBVIOUS
<1> USE NoneAssumption DEF ValuesTypeOK, Maybe, Kinds, OutputInv, Steps, Outside, OutputFollows, Commanded
<1>1. CASE Compare
  <2>1. UNCHANGED <<kind, logic, last, forced, wire, valid>>
    BY <1>1 DEF Compare
  <2>2. CASE TakesLogic
    BY <1>1, <2>1, <2>2 DEF Compare, TakesLogic
  <2>3. CASE ~TakesLogic /\ forced # None
    BY <1>1, <2>1, <2>3 DEF Compare, TakesLogic, Unchanged
  <2>4. CASE ~TakesLogic /\ forced = None
    BY <1>1, <2>1, <2>4 DEF Compare, TakesLogic, Unchanged
  <2> QED
    BY <2>2, <2>3, <2>4
<1>2. CASE Take
  BY <1>2 DEF Take
<1>3. CASE Test
  BY <1>3 DEF Test
<1>4. CASE Note
  BY <1>4 DEF Note
<1>5. CASE Write
  BY <1>5 DEF Write
<1>6. CASE Lose
  BY <1>6 DEF Lose
<1>7. ASSUME NEW v \in BOOLEAN, SetOutput(v) PROVE OutputInv'
  BY <1>7 DEF SetOutput
<1>8. ASSUME NEW v \in BOOLEAN, ForceOutput(v) PROVE OutputInv'
  BY <1>8 DEF ForceOutput
<1>9. CASE UNCHANGED <<kind, outputVars>>
  BY <1>9 DEF outputVars
<1> QED
  BY <1>1, <1>2, <1>3, <1>4, <1>5, <1>6, <1>7, <1>8, <1>9
  DEF NextValues, StationSets, ForceInput, UpdateInput, valueVars

LEMMA InputInit == InitValues => InputInv
BY DEF InitValues, InputInv

LEMMA InputNext ==
  ValuesTypeOK /\ InputInv /\ [NextValues]_valueVars => InputInv'
<1> SUFFICES ASSUME ValuesTypeOK, InputInv, [NextValues]_valueVars PROVE InputInv'
  OBVIOUS
<1> USE DEF InputInv
<1>1. ASSUME NEW v \in BOOLEAN, UpdateInput(v) PROVE InputInv'
  BY <1>1 DEF UpdateInput
<1>2. ASSUME NEW v \in BOOLEAN, ForceInput(v) PROVE InputInv'
  BY <1>2 DEF ForceInput
<1>3. ASSUME NEW v \in BOOLEAN, StationSets(v) PROVE InputInv'
  BY <1>3 DEF StationSets
<1>4. CASE UNCHANGED <<kind, inputVars>>
  BY <1>4 DEF inputVars
<1> QED
  BY <1>1, <1>2, <1>3, <1>4
  DEF NextValues, Compare, Take, Test, Note, Write, Lose, SetOutput, ForceOutput, valueVars

LEMMA Invariant == ValuesSpec => [](ValuesTypeOK /\ OutputInv /\ InputInv)
<1>1. InitValues => ValuesTypeOK /\ OutputInv /\ InputInv
  BY TypesInit, OutputInit, InputInit
<1>2. ValuesTypeOK /\ OutputInv /\ InputInv /\ [NextValues]_valueVars
        => (ValuesTypeOK /\ OutputInv /\ InputInv)'
  BY TypesNext, OutputNext, InputNext
<1> QED
  BY <1>1, <1>2, PTL DEF ValuesSpec
-----------------------------------------------------------------------------
\* An update that came through left outside what is commanded, unless it ran
\* against the logic's thread: with writes that fail and servers that restart,
\* for all three drivers.
THEOREM OutputFollowsLogic == ValuesSpec => []OutputFollows
<1>1. OutputInv => OutputFollows
  BY DEF OutputInv
<1> QED
  BY <1>1, Invariant, PTL

\* After an update an input shows the station's value or is forced.
THEOREM InputFollowsStation == ValuesSpec => InputFollows
<1>1. ValuesTypeOK /\ InputInv /\ [NextValues]_valueVars =>
        [\A v \in BOOLEAN :
           UpdateInput(v) => inForced' \/ ident' = station' \/ (kind = "opc" /\ ~seen')]_valueVars
  <2> SUFFICES ASSUME ValuesTypeOK, InputInv, NEW v \in BOOLEAN, UpdateInput(v)
               PROVE  inForced' \/ ident' = station' \/ (kind = "opc" /\ ~seen')
    OBVIOUS
  <2>1. CASE HasChanged
    BY <2>1 DEF UpdateInput
  <2>2. CASE ~HasChanged
    BY <2>2, NoneAssumption DEF UpdateInput, HasChanged, InputInv, ValuesTypeOK, outputVars
  <2> QED
    BY <2>1, <2>2
<1> QED
  BY <1>1, Invariant, PTL DEF ValuesSpec, InputFollows
=============================================================================

------------------------------ MODULE IoValues -------------------------------
(***************************************************************************)
(* One input and one output of a controller, as the drivers for Profinet,  *)
(* OPC-UA and ADS see them: PNIOInputValue, OPCInputValue, ADSInputValue   *)
(* and PNIOOutputValue, OPCOutputValue, ADSOutputValue, for a digital      *)
(* value (the only kind an output can be forced with).  The logic sets its *)
(* output from a thread of its own, without a lock, while the driver's     *)
(* update reads it up to four times.  The drivers and their cyclic thread  *)
(* are external: an update, a force and the result of a write come from    *)
(* that thread, one after the other.                                       *)
(***************************************************************************)
EXTENDS Integers

CONSTANT None   \* std::monostate, and the data before the first update

Kinds == {"pnio", "opc", "ads"}

ASSUME NoneAssumption == None \notin BOOLEAN

VARIABLES
  kind,      \* which of the drivers
  \* the output
  logic,     \* output<bool>::_value, set by the logic
  last,      \* _value, the value from the logic last taken over
  forced,    \* _forced_value
  wire,      \* what the station or the server has
  valid,     \* output_interface::_valid
  step,      \* where update is: "idle" or before its next read of the logic
  chosen,    \* output_value
  raced,     \* ghost: the logic set its output during an update, which may still show
  settled,   \* ghost: an update came through, with no failed write, and nothing since
  \* the input
  station,   \* the value the station or the server has
  stored,    \* _data
  ident,     \* input<bool>::_value
  inForced,  \* _is_forced
  inValid,   \* input_interface::_valid
  seen       \* ghost: update has decoded the station's value before

outputVars == <<logic, last, forced, wire, valid, step, chosen, raced, settled>>
inputVars == <<station, stored, ident, inForced, inValid, seen>>
valueVars == <<kind, outputVars, inputVars>>
-----------------------------------------------------------------------------
InitValues ==
  /\ kind \in Kinds
  /\ logic \in BOOLEAN /\ last = FALSE /\ forced = None
  /\ wire \in BOOLEAN /\ (kind = "pnio" => wire = FALSE)
  /\ valid = FALSE /\ step = "idle" /\ chosen = None
  /\ raced = FALSE /\ settled = FALSE
  /\ station \in BOOLEAN /\ stored = (IF kind = "opc" THEN FALSE ELSE None)
  /\ ident \in BOOLEAN /\ inForced = FALSE /\ inValid = FALSE /\ seen = FALSE

\* output_base::set, in the logic's thread, at any time.
SetOutput(v) ==
  /\ logic' = v
  /\ raced' = (raced \/ (step # "idle" /\ v # logic))
  /\ settled' = (settled /\ v = logic)
  /\ UNCHANGED <<kind, last, forced, wire, valid, step, chosen, inputVars>>

\* PNIOOutputValue::force and its siblings: takes effect with the next update.
ForceOutput(v) ==
  /\ step = "idle"
  /\ forced' = v /\ settled' = FALSE
  /\ UNCHANGED <<kind, logic, last, wire, valid, step, chosen, raced, inputVars>>

\* Whether update takes the logic's value rather than the forced one.
TakesLogic == logic # last \/ (kind = "ads" /\ forced = None)

\* Of Unchanged: a failed write is not repeated.
UnchangedOnce == forced

\* What is written when the logic's value has not changed.
Unchanged ==
  IF forced = None /\ kind = "opc" /\ ~valid THEN last ELSE forced

\* update's first look at the logic's value.  Without a change a forced value
\* is written, and OPC-UA repeats what the server may not have.
Compare ==
  /\ step = "idle"
  /\ IF TakesLogic THEN step' = "take" /\ chosen' = None
     ELSE /\ chosen' = Unchanged
          /\ step' = IF forced # None THEN "test" ELSE IF Unchanged # None THEN "write" ELSE "idle"
  /\ raced' = (raced /\ ~TakesLogic)
  /\ settled' = (step' = "idle")
  /\ UNCHANGED <<kind, logic, last, forced, wire, valid, inputVars>>

\* Its second look: the value that will be written.
Take ==
  /\ step = "take"
  /\ chosen' = logic /\ step' = "test"
  /\ UNCHANGED <<kind, logic, last, forced, wire, valid, raced, settled, inputVars>>

\* Its third: whether the forced value is to be reset.
Test ==
  /\ step = "test"
  /\ step' = IF logic # last THEN "note" ELSE "write"
  /\ UNCHANGED <<kind, logic, last, forced, wire, valid, chosen, raced, settled, inputVars>>

\* Its fourth: the value is remembered, which need not be the one written.
Note ==
  /\ step = "note"
  /\ last' = logic /\ forced' = None /\ step' = "write"
  /\ UNCHANGED <<kind, logic, wire, valid, chosen, raced, settled, inputVars>>

\* The value goes into the output image, or out to the server, which may fail.
Write ==
  /\ step = "write"
  /\ step' = "idle" /\ chosen' = None
  /\ \/ wire' = chosen /\ valid' = TRUE /\ settled' = TRUE
     \/ kind # "pnio" /\ valid' = FALSE /\ settled' = FALSE /\ UNCHANGED wire
  /\ UNCHANGED <<kind, logic, last, forced, raced, inputVars>>

\* The server restarts with another value; the driver notices.
Lose ==
  /\ kind # "pnio" /\ step = "idle"
  /\ valid' = FALSE /\ wire' \in BOOLEAN /\ settled' = FALSE
  /\ UNCHANGED <<kind, logic, last, forced, step, chosen, raced, inputVars>>

-----------------------------------------------------------------------------
StationSets(v) ==
  /\ station' = v
  /\ UNCHANGED <<kind, outputVars, stored, ident, inForced, inValid, seen>>

\* PNIOInputValue::force and its siblings write the logic's input at once.
ForceInput(v) ==
  /\ inForced' = TRUE /\ ident' = v
  /\ UNCHANGED <<kind, outputVars, station, stored, inValid, seen>>

\* has_changed: the own bit only; no data at all differs from any data.
HasChanged == station # stored

\* Of UpdateInput: the flag is reset in any case.
UpdateInputUnforced(v) ==
  /\ inValid' = v /\ inForced' = FALSE
  /\ IF HasChanged THEN stored' = station /\ ident' = station /\ seen' = TRUE
                   ELSE UNCHANGED <<stored, ident, seen>>
  /\ UNCHANGED <<kind, outputVars, station>>

\* update of an input with the station's data.
UpdateInput(v) ==
  /\ inValid' = v
  /\ IF HasChanged
     THEN stored' = station /\ inForced' = FALSE /\ ident' = station /\ seen' = TRUE
     ELSE UNCHANGED <<stored, inForced, ident, seen>>
  /\ UNCHANGED <<kind, outputVars, station>>

NextValues ==
  \/ Compare \/ Take \/ Test \/ Note \/ Write \/ Lose
  \/ \E v \in BOOLEAN :
       SetOutput(v) \/ ForceOutput(v) \/ StationSets(v) \/ ForceInput(v) \/ UpdateInput(v)

ValuesSpec == InitValues /\ [][NextValues]_valueVars
-----------------------------------------------------------------------------
\* What the output is to be.
Commanded == IF forced # None THEN forced ELSE logic

\* Once an update has come through, be it that it wrote or that it had nothing
\* to write, and whatever writes failed before, the station has the value the
\* operator forced, or else that of the logic.  Not so if the logic's thread set
\* its output during an update and none has taken the logic's value since.
OutputFollows == settled /\ ~raced => wire = Commanded

\* After its update an input shows what the station has, or what it was forced
\* to while the station stayed the same.  An OPC-UA input constructed with TRUE
\* does not before the first change: its _data begins as FALSE.
InputFollows ==
  [][\A v \in BOOLEAN :
       UpdateInput(v) => inForced' \/ ident' = station' \/ (kind = "opc" /\ ~seen')]_valueVars
=============================================================================

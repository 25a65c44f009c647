-------------------------------- MODULE MCPlc --------------------------------
(* The helpers and the values of a controller side by side, for            *)
(* model-checking.  They share no state: a behaviour is of one or the other *)
(* (and then the other's initial state is of no account).                   *)
EXTENDS PlcTimers, IoValues

VARIABLE part

Init ==
  /\ InitTimers /\ InitValues
  /\ \/ part = "values"
     \/ part = "timers" /\ kind = "pnio" /\ TRUE \notin {logic, station, ident}

Next ==
  \/ part = "timers" /\ NextTimers /\ UNCHANGED <<valueVars, part>>
  \/ part = "values" /\ NextValues /\ UNCHANGED <<timerVars, part>>

Spec == Init /\ [][Next]_<<timerVars, valueVars, part>>
=============================================================================

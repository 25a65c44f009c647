------------------------------ MODULE PlcTimers ------------------------------
(***************************************************************************)
(* The helpers a logic program is built from: the timers TON, TOF and TP   *)
(* and the edge trigger.  A program calls update(input) on each of them    *)
(* once per cycle; cycles come at any distance from each other.  A timer   *)
(* keeps one QElapsedTimer, here the instant it was started at.  The ghost *)
(* "log" keeps the input and the results of every cycle, so that the       *)
(* properties can speak about what was put in, never about the timers.     *)
(***************************************************************************)
EXTENDS Integers, Sequences

CONSTANTS
  Timeout,   \* the timeout all three timers are constructed with
  MaxTime,   \* bound: last instant of the clock
  MaxCycles  \* bound: number of cycles

ASSUME TimersAssumption == {Timeout, MaxTime, MaxCycles} \subseteq Nat

VARIABLES
  clock,        \* the monotonic clock behind QElapsedTimer
  ton, tof, tp, \* Timer_TON, Timer_TOF, Timer_TP: the start of _timer, or Invalid
  initialized,  \* Edge_TRIG::_initialized
  previous,     \* Edge_TRIG::_previous
  current,      \* Edge_TRIG::_current
  log           \* ghost: one entry per cycle

timerVars == <<clock, ton, tof, tp, initialized, previous, current, log>>
-----------------------------------------------------------------------------
Invalid == -1
Starts == Nat \cup {Invalid}
Entries == [at : Nat, in : BOOLEAN, ton : BOOLEAN, tof : BOOLEAN, tp : BOOLEAN,
            rising : BOOLEAN, falling : BOOLEAN]

\* Of HasExpired: not strictly.
HasExpiredEarly(start) == clock - start >= Timeout

\* QElapsedTimer::hasExpired of a timer that is valid; strictly later.
HasExpired(start) == clock - start > Timeout

-----------------------------------------------------------------------------
\* Timer_TON::update: started by the first TRUE, invalidated by a FALSE.
TonResult(in) == in /\ ton # Invalid /\ HasExpired(ton)
TonStart(in) == IF ~in THEN Invalid ELSE IF ton # Invalid THEN ton ELSE clock

\* Timer_TOF::update: restarted by every TRUE and never invalidated.
TofResult(in) == in \/ (tof # Invalid /\ ~HasExpired(tof))
TofStart(in) == IF in THEN clock ELSE tof

\* Timer_TP::update: a valid timer is never started again.
TpResult(in) == IF tp # Invalid THEN ~HasExpired(tp) ELSE in
TpStart(in) == IF tp = Invalid /\ in THEN clock ELSE tp

\* Of EdgePrevious: the values are not shifted.
EdgePreviousKept(in) == previous

\* Edge_TRIG::update; the first call sets _previous and leaves _current.
EdgePrevious(in) == IF initialized THEN current ELSE in
EdgeCurrent(in) == IF initialized THEN in ELSE current

InitTimers ==
  /\ clock = 0
  /\ ton = Invalid /\ tof = Invalid /\ tp = Invalid
  /\ initialized = FALSE /\ previous = FALSE /\ current = FALSE
  /\ log = <<>>

\* One cycle of the program with that input.
Cycle(in) ==
  /\ Len(log) < MaxCycles
  /\ ton' = TonStart(in) /\ tof' = TofStart(in) /\ tp' = TpStart(in)
  /\ initialized' = TRUE /\ previous' = EdgePrevious(in) /\ current' = EdgeCurrent(in)
  /\ log' = Append(log,
       [at |-> clock, in |-> in,
        ton |-> TonResult(in), tof |-> TofResult(in), tp |-> TpResult(in),
        rising |-> ~previous' /\ current', falling |-> previous' /\ ~current'])
  /\ UNCHANGED clock

TimePasses ==
  /\ clock < MaxTime
  /\ clock' = clock + 1
  /\ UNCHANGED <<ton, tof, tp, initialized, previous, current, log>>

NextTimers == TimePasses \/ \E in \in BOOLEAN : Cycle(in)

TimersSpec == InitTimers /\ [][NextTimers]_timerVars
-----------------------------------------------------------------------------
\* Type invariant: the timers' starts lie in the past.
TimersTypeOK ==
  /\ clock \in Nat
  /\ {ton, tof, tp} \subseteq (0 .. clock) \cup {Invalid}
  /\ {initialized, previous, current} \subseteq BOOLEAN
  /\ log \in Seq(Entries)

\* The input was TRUE in all cycles from i to k.
HeldTrue(i, k) == \A j \in i .. k : log[j].in

\* TON is TRUE when the input has been so without a break for longer than the
\* timeout, at all cycles since; TOF when the input was TRUE at a cycle no
\* longer ago than the timeout; TP during one timeout after the first TRUE in
\* its life, and never again, whatever its input does.
TimersKeepTime ==
  \A k \in DOMAIN log :
    /\ log[k].ton <=> \E i \in 1 .. k : HeldTrue(i, k) /\ log[k].at - log[i].at > Timeout
    /\ log[k].tof <=> \E i \in 1 .. k : log[i].in /\ log[k].at - log[i].at <= Timeout
    /\ log[k].tp <=>
         \E i \in 1 .. k :
           /\ log[i].in /\ \A j \in 1 .. (i - 1) : ~log[j].in
           /\ log[k].at - log[i].at <= Timeout

\* From its third update on the edge trigger reports the edges of the input and
\* no others.  The first two may report one that was not there: the first
\* input becomes _previous, but _current stays FALSE.
EdgesAreReal ==
  \A k \in 3 .. Len(log) :
    /\ log[k].rising <=> (log[k].in /\ ~log[k - 1].in)
    /\ log[k].falling <=> (~log[k].in /\ log[k - 1].in)
=============================================================================
